------------------------------ MODULE AtomText ------------------------------
(***************************************************************************)
(* How atom_init and atom_version_init of autogentoo/cportage/atom.c take  *)
(* the text after the category apart.                                      *)
(*                                                                         *)
(* The text is the sequence of its words, which dashes separate.  A word   *)
(* is the sequence of the tokens that dots and underscores separate: the   *)
(* number of letters before its first digit, whether the first of them is  *)
(* an r, the digits, and the letter and the star after them.               *)
(***************************************************************************)
EXTENDS AtomVersion
LOCAL Seqs == INSTANCE SequencesExt

Tokens == [lead : Nat, r : BOOLEAN, digits : Seq(0..9), letter : Nat, star : BOOLEAN]
Texts == Seq(Seq(Tokens))

----------------------------------------------------------------------------
(* atom_init: where the name ends *)

StartsWithDigit(word) == word[1].lead = 0 /\ word[1].digits # <<>>

IsRevision(word) == word[1].r /\ word[1].lead = 1 /\ word[1].digits # <<>>

\* Mutant: a word that looks like a revision makes the one before it a version.
VersionStartUnchecked(text) ==
    LET n == Len(text) IN
    IF n > 1 /\ StartsWithDigit(text[n]) THEN n
    ELSE IF n > 2 /\ IsRevision(text[n]) THEN n - 1
    ELSE n + 1

\* The word at which the version starts, after the last if there is none.
VersionStart(text) ==
    LET n == Len(text) IN
    IF n > 1 /\ StartsWithDigit(text[n]) THEN n
    ELSE IF n > 2 /\ IsRevision(text[n]) /\ StartsWithDigit(text[n - 1])
    THEN n - 1
    ELSE n + 1

----------------------------------------------------------------------------
(* atom_version_init *)

HasRevision(words) == Len(words) > 1 /\ words[Len(words)][1].r

RevisionOf(words) ==
    IF HasRevision(words) /\ IsRevision(words[Len(words)])
    THEN ToI32(Value(words[Len(words)][1].digits)) ELSE 0

\* atom_prefix_links: the length of a prefix tells which it is; letters
\* without a digit after them are none, and the text of the node.
PrefixOfLength == <<P, Rc, Pre, Beta, Alpha>>

PrefixOf(t) == IF t.lead = 0 \/ t.digits = <<>> THEN Plain ELSE PrefixOfLength[t.lead]

IsNode(t) == t.digits = <<>> \/ t.lead <= Len(PrefixOfLength)

\* The tokens without those of the revision, up to one with a longer prefix.
ParseVersion(words) ==
    LET tokens == Seqs!FlattenSeq(IF HasRevision(words) THEN Seqs!Front(words) ELSE words)
        bad == {i \in DOMAIN tokens : ~IsNode(tokens[i])}
        good == {i \in DOMAIN tokens : \A j \in bad : i < j}
    IN  [nodes |-> [i \in good |->
                      [prefix |-> PrefixOf(tokens[i]), digits |-> tokens[i].digits,
                       letter |-> tokens[i].letter, star |-> tokens[i].star]],
         revision |-> RevisionOf(words)]

\* What atom_init makes of a text.
Parse(text) ==
    LET start == VersionStart(text) IN
    [name |-> SubSeq(text, 1, start - 1),
     version |-> IF start > Len(text) THEN NoVersion
                 ELSE ParseVersion(SubSeq(text, start, Len(text)))]

----------------------------------------------------------------------------
\* The words from i on are what a version looks like.
LooksLikeVersion(text, i) ==
    /\ StartsWithDigit(text[i])
    /\ i = Len(text) \/ (i = Len(text) - 1 /\ IsRevision(text[Len(text)]))

\* The dashes of a name and of a version are told apart: the file of an
\* ebuild is read as the name of its package and a version, and a name alone
\* as that name, unless it ends like a version (font-adobe-100dpi).
TakenApart(names, versions) ==
    \A name \in names :
        /\ (\A i \in 2..Len(name) : ~LooksLikeVersion(name, i)) => Parse(name).name = name
        /\ \A v \in versions :
             Parse(name \o v) = [name |-> name, version |-> ParseVersion(v)]
=============================================================================
