----------------------------- MODULE HvscVersion -----------------------------
(***************************************************************************)
(* How main finds out the version of the collection and those an update    *)
(* leads from and to: HeaderReader (TextFile.cpp) on the documentation     *)
(* files and on the script (Update.cpp), and the numbers that stand for    *)
(* versions (hvscver.cpp).                                                 *)
(*                                                                         *)
(* A line is what it is after all white space has been removed from it: a  *)
(* keyword in any case and what follows, which is a version as far as it   *)
(* can be read as one (an integer, a character, an integer).               *)
(*                                                                         *)
(* An operator named Wrong... is the definition below it with a mistake a  *)
(* programmer could make: what the properties have to notice.              *)
(***************************************************************************)
EXTENDS Integers, Sequences

CONSTANTS
    HeaderLines,    \* how many lines of a file are looked at: 10
    MaxUnsigned,    \* the largest unsigned int: 2^32 - 1
    Texts           \* the files that can be read

\* What stands behind a keyword; the major number is 0 if no number does.
Version == [major : Nat, minor : Nat]
Line == [key : {"release", "#PreviousVersion:", "#ResultingVersion:", "none"},
         text : Version]

ASSUME HeaderAssumption == HeaderLines \in Nat /\ MaxUnsigned \in Nat \ {0}

\* docs: HVSC.txt and hv_sids.txt, of which a missing one has no lines
ASSUME TextsAssumption ==
    Texts \subseteq [docs : Seq(Seq(Line)) \ {<<>>}, script : Seq(Line)]

VARIABLES
    texts,      \* the files
    stage,      \* which of them is being read, or what main does then
    doc,        \* the number of the documentation file
    read,       \* HeaderReader::line
    found,      \* HVSCversion.found
    required,   \* HVSCversion.required
    resulting,  \* HVSCversion.resulting
    seen,       \* the keys whose last line had a version
    warning     \* HVSCversion.printWarning

versions == <<found, required, resulting>>
headerVars == <<texts, stage, doc, read, found, required, resulting, seen, warning>>

HeaderInit ==
    /\ texts \in Texts
    /\ stage = "docs"
    /\ doc = 1
    /\ read = 0
    /\ found = 0
    /\ required = 0
    /\ resulting = 0
    /\ seen = {}
    /\ warning = FALSE

-----------------------------------------------------------------------------
(* Numbers.                                                                *)

\* A pair of parentheses in the wrong place.
WrongMAKE_HVSCVER(major, minor) == (major * 10 + minor) % 10

MAKE_HVSCVER(major, minor) == (major * 10 + (minor % 10)) % (MaxUnsigned + 1)

\* A number that is too large is read as the largest one, and nothing after it.
atohvscver(text) ==
    CASE text.major > MaxUnsigned -> MAKE_HVSCVER(MaxUnsigned, 0)
      [] text.minor > MaxUnsigned -> MAKE_HVSCVER(text.major, MaxUnsigned)
      [] OTHER -> MAKE_HVSCVER(text.major, text.minor)

hvscvercmp(a, b) ==
    CASE a < b -> -1
      [] a > b -> 1
      [] OTHER -> 0

hvscvertoa(version) == [major |-> version \div 10, minor |-> version % 10]

-----------------------------------------------------------------------------
(* Reading.                                                                *)

\* NextLine returns true, and the line is one of those main looks at.
HasNextLine(file) == read < Len(file) /\ read < HeaderLines

\* A line without a number leaves the version alone, but no longer found.
Take(line, version) ==
    IF line.text.major = 0
    THEN seen' = seen \ {line.key} /\ UNCHANGED version
    ELSE seen' = seen \cup {line.key} /\ version' = atohvscver(line.text)

\* hv_sids.txt is read whatever HVSC.txt has told.
NextDoc ==
    /\ read' = 0
    /\ IF doc < Len(texts.docs)
       THEN doc' = doc + 1 /\ UNCHANGED <<stage, warning>>
       ELSE /\ stage' = "script"
            /\ warning' = ("release" \notin seen')
            /\ UNCHANGED doc

\* The first line that begins with "release" is the last one of the file that
\* is looked at, even if it tells no version.
ReadDocLine ==
    /\ stage = "docs"
    /\ HasNextLine(texts.docs[doc])
    /\ LET line == texts.docs[doc][read + 1]
       IN  IF line.key = "release" THEN Take(line, found) /\ NextDoc
           ELSE read' = read + 1 /\ UNCHANGED <<stage, doc, found, seen, warning>>
    /\ UNCHANGED <<texts, required, resulting>>

EndOfDoc ==
    /\ stage = "docs"
    /\ ~ HasNextLine(texts.docs[doc])
    /\ UNCHANGED <<texts, versions, seen>>
    /\ NextDoc

HeaderComplete == {"#PreviousVersion:", "#ResultingVersion:"} \subseteq seen

\* One version is enough.
WrongEndHeader ==
    /\ stage = "script"
    /\ HeaderComplete \/ ~ HasNextLine(texts.script)
    /\ stage' = IF "#PreviousVersion:" \in seen THEN "check" ELSE "exit1"
    /\ UNCHANGED <<texts, doc, read, versions, seen, warning>>

ReadHeaderLine ==
    /\ stage = "script"
    /\ HasNextLine(texts.script)
    /\ ~ HeaderComplete
    /\ read' = read + 1
    /\ LET line == texts.script[read']
       IN  CASE line.key = "#PreviousVersion:" -> Take(line, required) /\ UNCHANGED resulting
             [] line.key = "#ResultingVersion:" -> Take(line, resulting) /\ UNCHANGED required
             [] OTHER -> UNCHANGED <<required, resulting, seen>>
    /\ UNCHANGED <<texts, stage, doc, found, warning>>

EndHeader ==
    /\ stage = "script"
    /\ HeaderComplete \/ ~ HasNextLine(texts.script)
    /\ stage' = IF HeaderComplete THEN "check" ELSE "exit1"
    /\ UNCHANGED <<texts, doc, read, versions, seen, warning>>

\* The version the update leads to is compared.
WrongCheckVersion ==
    /\ stage = "check"
    /\ warning' = (warning \/ (required > 0 /\ resulting > 0 /\ found # resulting))
    /\ stage' = "commands"
    /\ UNCHANGED <<texts, doc, read, versions, seen>>

\* A missing script of the update before is another reason to warn (UpdateRun).
CheckVersion ==
    /\ stage = "check"
    /\ warning' =
         (warning \/ (/\ hvscvercmp(required, MAKE_HVSCVER(0, 0)) > 0
                      /\ hvscvercmp(resulting, MAKE_HVSCVER(0, 0)) > 0
                      /\ hvscvercmp(found, required) # 0))
    /\ stage' = "commands"
    /\ UNCHANGED <<texts, doc, read, versions, seen>>

HeaderNext ==
    \/ ReadDocLine
    \/ EndOfDoc
    \/ ReadHeaderLine
    \/ EndHeader
    \/ CheckVersion

-----------------------------------------------------------------------------
(* Properties.                                                             *)

\* The versions that the lines of a file tell where they are looked for.
Told(file, key) ==
    {i \in DOMAIN file : i <= HeaderLines /\ file[i].key = key}
ToldVersions(file, key) == {file[i].text : i \in Told(file, key)}

DocVersions == UNION {ToldVersions(texts.docs[d], "release") : d \in DOMAIN texts.docs}

\* A version of two numbers, the second of one digit, as the format has it.
Proper(version) ==
    version.major \in 1..(MaxUnsigned \div 10 - 1) /\ version.minor \in 0..9

\* Files as the format has them: one line for each key, in one of the documents.
WellFormed ==
    /\ \A a, b \in DocVersions : a = b
    /\ \A key \in {"#PreviousVersion:", "#ResultingVersion:"} :
         \A i, j \in Told(texts.script, key) : i = j
    /\ \A version \in DocVersions \cup ToldVersions(texts.script, "#PreviousVersion:")
                        \cup ToldVersions(texts.script, "#ResultingVersion:") :
         Proper(version)

\* With files as the format has them, the script is refused exactly if one of its
\* versions is missing, and there is no warning exactly if the collection has
\* the version that the update starts from.
VersionCheckIsExact ==
    WellFormed =>
      LET previous == ToldVersions(texts.script, "#PreviousVersion:")
          next == ToldVersions(texts.script, "#ResultingVersion:")
      IN  /\ stage = "exit1" => {} \in {previous, next}
          /\ stage = "commands" =>
               {} \notin {previous, next} /\ (warning <=> DocVersions # previous)

\* No version of the script has the number 0, which stands for none: one that is
\* too large can, as its number is cut to the width of an integer.
NonzeroHeader ==
    \A key \in {"#PreviousVersion:", "#ResultingVersion:"} :
      \A version \in ToldVersions(texts.script, key) :
        version.major # 0 => atohvscver(version) # 0

\* Whatever the documents are: who is not warned has a collection some document
\* gives the very number of the version that the update starts from.
UnwarnedVersionsAgree ==
    stage = "commands" /\ ~ warning /\ NonzeroHeader =>
      \E version \in DocVersions, previous \in ToldVersions(texts.script, "#PreviousVersion:") :
        atohvscver(version) = atohvscver(previous) /\ version.major # 0

\* The numbers are in the order of the versions they stand for, which decides
\* whether fields of tunes are zeroed, and are displayed as these versions.
NumbersKeepTheOrder ==
    \A a, b \in {version \in DocVersions \cup ToldVersions(texts.script, "#PreviousVersion:") :
                   Proper(version)} :
      /\ hvscvertoa(atohvscver(a)) = a
      /\ hvscvercmp(atohvscver(a), atohvscver(b)) = -1 <=>
           a.major < b.major \/ (a.major = b.major /\ a.minor < b.minor)
=============================================================================
