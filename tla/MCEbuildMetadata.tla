-------------------------- MODULE MCEbuildMetadata --------------------------
(* Instances of EbuildMetadata for TLC. *)
EXTENDS EbuildMetadata, TLC

On(name) == [op |-> "on", name |-> name, body |-> <<>>]
Off(name) == [op |-> "off", name |-> name, body |-> <<>>]
If(name, body) == [op |-> "on", name |-> name, body |-> body]
Of(op, body) == [op |-> op, name |-> "", body |-> body]

x == On("x")
y == On("y")
z == On("z")

\* The texts of REQUIRED_USE, with groups, nesting and conditions.
Expressions == {
    <<x, Off("y")>>,
    <<Of("some", <<x, y>>), Of("most", <<y, z>>)>>,
    <<Of("one", <<x, y, z>>)>>,
    <<Of("one", <<Of("some", <<x, y>>), Of("most", <<y, z>>)>>)>>,
    <<If("x", <<Of("one", <<y, z>>)>>)>>,
    <<If("x", <<If("y", <<z>>)>>), Off("z")>>,
    <<Of("some", <<If("x", <<y>>), z>>)>>,
    <<Of("most", <<If("x", <<y>>), z>>)>>,
    <<Of("group", <<x, y>>), z>>,
    <<Of("some", <<Of("group", <<x, y>>), z>>)>>}

Line(key, value) == [key |-> key, value |-> value]
Keyword(keyword, arch) == [keyword |-> keyword, arch |-> arch]
Flag(name, on) == [name |-> name, on |-> on]

\* DEPEND and RDEPEND stand for the four keys of dependencies.
SomeLines ==
    {Line(d, v) : d \in {"DEPEND", "RDEPEND"}, v \in {"cat/a", Bad}}
    \cup {Line("SLOT", <<"0">>), Line("SLOT", <<"0", "2">>)}
    \cup {Line("KEYWORDS", <<Keyword("unstable", "*"), Keyword("stable", "x86")>>),
          Line("KEYWORDS", <<Keyword("stable", "x86"), Keyword("broken", "*"), Keyword("unstable", "arm")>>)}
    \cup {Line("IUSE", <<Flag("x", TRUE), Flag("y", FALSE), Flag("z", FALSE), Flag("y", TRUE)>>)}
    \cup {Line("REQUIRED_USE", v) : v \in Expressions \cup {Bad}}
    \cup {Line("EAPI", "7")}

\* Keys but those of dependencies are there once.
SomeFiles ==
    {f \in UNION {[1..n -> SomeLines] : n \in 0..4} :
        \A i, j \in DOMAIN f :
            f[i].key = f[j].key => i = j \/ f[i].key \in {"DEPEND", "RDEPEND"}}
=============================================================================
