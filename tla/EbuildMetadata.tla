--------------------------- MODULE EbuildMetadata ---------------------------
(***************************************************************************)
(* An Ebuild of cportage, whose initialize_metadata reads the lines of its *)
(* file in the metadata cache, and the flags that the resolver then sets   *)
(* for it.  The file does not change; Python code may read it again and    *)
(* again, after a failure too: resolve.py does so while metadata_init is   *)
(* not set.                                                                *)
(*                                                                         *)
(* A line is a record of its key and its value:  what is between the       *)
(* slashes of SLOT, the tokens of KEYWORDS and IUSE, the terms of          *)
(* REQUIRED_USE, any value of a dependency.  Bad stands for a value that   *)
(* the parsers return NULL for, the empty one included.                    *)
(***************************************************************************)
EXTENDS RequiredUse

CONSTANTS
    Files,          \* sequences of lines
    Dependencies,   \* DEPEND, RDEPEND, PDEPEND and BDEPEND
    Arches,
    Bad,
    Null,
    MaxReads        \* bound on the calls of initialize_metadata

\* A line of the cache has one value per key.  Files in which a dependency
\* is there twice, or cannot be parsed, are files too.
ASSUME FilesAreCaches ==
    \A f \in Files :
        /\ Len(f) \in Nat /\ DOMAIN f = 1..Len(f)
        /\ \A i, j \in DOMAIN f : f[i].key = f[j].key => i = j \/ f[i].key \in Dependencies
        /\ \A i \in DOMAIN f :
             /\ f[i].key \in Dependencies => f[i].value # Null
             /\ f[i].key = "SLOT" => f[i].value \in Seq(STRING) \ {<<>>}
             /\ f[i].key = "REQUIRED_USE" => f[i].value \in Texts \cup {Bad}
             /\ f[i].key = "KEYWORDS" => f[i].value \in Seq([arch : STRING, keyword : STRING])
             /\ f[i].key = "IUSE" => f[i].value \in Seq([name : Names, on : BOOLEAN])
             /\ f[i].value = Bad => f[i].key \in Dependencies \cup {"REQUIRED_USE"}

ASSUME KeysAssumption ==
    Dependencies \cap {"SLOT", "REQUIRED_USE", "KEYWORDS", "IUSE"} = {}

VARIABLES
    file,           \* the lines of the cache file
    meta,           \* what the Ebuild knows of them
    reads, error,   \* how often they were read, and the last result
    useflags        \* SelectedEbuild.useflags

vars == <<file, meta, reads, error, useflags>>

Init ==
    /\ file \in Files
    /\ meta = [depend |-> [d \in Dependencies |-> Null], slot |-> Null, subSlot |-> Null,
               required |-> <<>>, keywords |-> [a \in Arches |-> "broken"],
               iuse |-> <<>>, initialized |-> FALSE]
    /\ reads = 0 /\ error = 0
    /\ useflags = <<>>

----------------------------------------------------------------------------
(* ebuild_metadata_init; a reading is of the Ebuild, the error, and whether *)
(* the loop was left                                                        *)

\* ebuild_keyword_init: every token changes the arches it names.
KeywordsOf(tokens, keywords) ==
    LET upTo[n \in 0..Len(tokens)] ==
            IF n = 0 THEN keywords
            ELSE [a \in Arches |-> IF tokens[n].arch \in {a, "*"} THEN tokens[n].keyword
                                   ELSE upTo[n - 1][a]]
    IN  upTo[Len(tokens)]

\* A dictionary with another item in front of it.
Over(new, old) ==
    [k \in DOMAIN new \cup DOMAIN old |-> IF k \in DOMAIN new THEN new[k] ELSE old[k]]

\* ebuild_iuse_init: the dictionary is added to, never cleared.
IUseOf(tokens, iuse) ==
    LET upTo[n \in 0..Len(tokens)] ==
            IF n = 0 THEN iuse
            ELSE Over([k \in {tokens[n].name} |-> tokens[n].on], upTo[n - 1])
    IN  upTo[Len(tokens)]

\* Mutant: the reading ends at a dependency that is there already.
ReadDependStops(reading, line) ==
    IF reading.meta.depend[line.key] # Null THEN [reading EXCEPT !.error = 1, !.left = TRUE]
    ELSE IF line.value = Bad THEN [reading EXCEPT !.error = 2]
    ELSE [reading EXCEPT !.meta.depend[line.key] = line.value]

\* The loop goes on after either error.
ReadDepend(reading, line) ==
    IF reading.meta.depend[line.key] # Null THEN [reading EXCEPT !.error = 1]
    ELSE IF line.value = Bad THEN [reading EXCEPT !.error = 2]
    ELSE [reading EXCEPT !.meta.depend[line.key] = line.value]

\* What was read before of a sub-slot stays if there is none.
ReadSlot(reading, line) ==
    [reading EXCEPT !.meta.slot = line.value[1],
                    !.meta.subSlot = IF Len(line.value) > 1 THEN line.value[2] ELSE @]

ReadRequiredUse(reading, line) ==
    IF line.value = Bad
    THEN [reading EXCEPT !.meta.required = <<>>, !.error = 3, !.left = TRUE]
    ELSE [reading EXCEPT !.meta.required = Parsed(line.value)]

ReadLine(reading, line) ==
    IF reading.left THEN reading
    ELSE IF line.key \in Dependencies THEN ReadDepend(reading, line)
    ELSE IF line.key = "SLOT" THEN ReadSlot(reading, line)
    ELSE IF line.key = "REQUIRED_USE" THEN ReadRequiredUse(reading, line)
    ELSE IF line.key = "KEYWORDS"
         THEN [reading EXCEPT !.meta.keywords = KeywordsOf(line.value, @)]
    ELSE IF line.key = "IUSE" THEN [reading EXCEPT !.meta.iuse = IUseOf(line.value, @)]
    ELSE reading

ReadLines(begin) ==
    LET upTo[n \in 0..Len(file)] ==
            IF n = 0 THEN begin ELSE ReadLine(upTo[n - 1], file[n])
    IN  upTo[Len(file)]

InitializeMetadata ==
    /\ reads < MaxReads
    /\ LET begin == [meta |-> [meta EXCEPT !.keywords = [a \in Arches |-> "none"]],
                     error |-> 0, left |-> FALSE]
           end == ReadLines(begin)
       IN  /\ meta' = [end.meta EXCEPT !.initialized = @ \/ end.error = 0]
           /\ error' = end.error
    /\ reads' = reads + 1
    /\ UNCHANGED <<file, useflags>>

----------------------------------------------------------------------------
(* SelectedEbuild *)

\* get_use, for each flag there is
State == Over(useflags, meta.iuse)

\* A flag of the ebuild is flushed with another state.
FlushUse(name) ==
    /\ meta.initialized /\ meta.required # <<>>
    /\ name \in DOMAIN State
    /\ useflags' = Over([k \in {name} |-> ~State[name]], useflags)
    /\ UNCHANGED <<file, meta, reads, error>>

\* The flags that REQUIRED_USE names are there, or get_use raises.
FlagsKnown == {t.name : t \in {t \in Terms(meta.required) : IsFlag(t)}} \subseteq DOMAIN State

----------------------------------------------------------------------------
Next ==
    \/ InitializeMetadata
    \/ \E name \in DOMAIN State : FlushUse(name)

Spec == Init /\ [][Next]_vars

----------------------------------------------------------------------------
(* What the file says *)

Lines(key) == {i \in DOMAIN file : file[i].key = key}

WellFormed ==
    /\ \A d \in Dependencies : \A i, j \in Lines(d) : i = j
    /\ \A i \in DOMAIN file : file[i].value # Bad

ValueOf(key, default) ==
    IF Lines(key) = {} THEN default ELSE file[CHOOSE i \in Lines(key) : TRUE].value

Last(places) == CHOOSE i \in places : \A j \in places : j <= i

\* The last token for an architecture tells its keyword.
KeywordOf(arch) ==
    LET tokens == ValueOf("KEYWORDS", <<>>)
        named == {i \in DOMAIN tokens : tokens[i].arch \in {arch, "*"}}
    IN  IF named = {} THEN "none" ELSE tokens[Last(named)].keyword

IsWhole ==
    LET iuse == ValueOf("IUSE", <<>>)
        slot == ValueOf("SLOT", <<Null>>)
    IN
    /\ meta.depend = [d \in Dependencies |-> ValueOf(d, Null)]
    /\ meta.slot = slot[1] /\ meta.subSlot = (IF Len(slot) > 1 THEN slot[2] ELSE Null)
    /\ meta.keywords = [a \in Arches |-> KeywordOf(a)]
    /\ DOMAIN meta.iuse = {iuse[i].name : i \in DOMAIN iuse}
    /\ \A name \in DOMAIN meta.iuse :
         meta.iuse[name] = iuse[Last({i \in DOMAIN iuse : iuse[i].name = name})].on

\* metadata_init is set when, and only when, every line of the file could be
\* used, and then the Ebuild has what they say, in whatever order they come:
\* a file that was read half-way is not taken for read by another attempt,
\* and another call of initialize_metadata, which fails if there are
\* dependencies, takes nothing away.
MetadataIsWhole ==
    /\ [](meta.initialized => WellFormed /\ IsWhole)
    /\ [](reads > 0 /\ WellFormed => meta.initialized)
    /\ [][meta.initialized => meta' = meta]_vars

\* No state of the flags that REQUIRED_USE forbids is accepted, if the text
\* has neither groups nor conditions where they are counted; without
\* conditions none that it allows is refused.
RequiredUseKept ==
    meta.initialized /\ FlagsKnown =>
        LET text == ValueOf("REQUIRED_USE", <<>>)
            accepted == Accepted(meta.required, State)
        IN
        /\ ~HasGroups(text) /\ ~CountsConditions(text) => (accepted => Means(text, State))
        /\ ~HasGroups(text) /\ ~HasConditions(text) => (Means(text, State) => accepted)
=============================================================================
