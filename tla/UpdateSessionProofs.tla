------------------------- MODULE UpdateSessionProofs -------------------------
(***************************************************************************)
(* What a whole update does to the collection, for every collection, pack  *)
(* and script: what no command is about stays untouched, and an archived   *)
(* script has been executed as documented.  The proofs are about scripts   *)
(* that spell each name in one way and end the name of a destination       *)
(* directory with a slash (Careful).                                       *)
(***************************************************************************)
EXTENDS UpdateSession, FileCommandsProofs

SpelledOneWay == \A p, q \in Entries : SameButForCase(p, q) => p = q

\* The directories there are or can be.
Folders ==
    {p \in DOMAIN Start : Start[p] = Directory}
      \cup {script[i].dst.names : i \in {j \in 1..Commands :
              script[j].op \in {"MOVE", "REPLACE"} /\ script[j].dst.slash}}
      \cup {script[i].path.names : i \in {j \in 1..Commands : script[j].op = "MKDIR"}}

Careful ==
    /\ SpelledOneWay
    /\ \A i \in 1..Commands :
         script[i].op \in {"MOVE", "REPLACE"} /\ ~ script[i].dst.slash =>
           script[i].dst.names \notin Folders

-----------------------------------------------------------------------------
(* Commands on names that have one spelling.                               *)

\* A path is what it resolves to, if it is there at all.
LEMMA ExactLookup ==
    ASSUME SpelledOneWay, NEW t, WellFormed(t), DOMAIN t \subseteq Entries,
           NEW names \in Entries
    PROVE  /\ names \in DOMAIN t => Resolve(t, names) = Found(names)
           /\ names \notin DOMAIN t => Resolve(t, names) \in {Missing, Throws}
<1>1. names \in Path
  BY EntriesAssumption
<1>2. Unambiguous(t)
  BY DEF SpelledOneWay, Unambiguous
<1>3. SameButForCase(names, names)
  BY DEF SameButForCase
<1>4. CASE names \in DOMAIN t
  BY <1>1, <1>2, <1>3, <1>4, LookupComplete
<1>5. CASE names \notin DOMAIN t
  <2>1. Resolve(t, names).status # "found"
    <3>1. SUFFICES ASSUME Resolve(t, names).status = "found" PROVE FALSE
      OBVIOUS
    <3>2. /\ Resolve(t, names).path \in DOMAIN t
          /\ SameButForCase(Resolve(t, names).path, names)
      BY <1>1, <1>2, <3>1, LookupSound
    <3> QED
      BY <1>5, <3>2 DEF SpelledOneWay
  <2>2. Resolve(t, names) \in Result
    BY <1>1, ResolveType
  <2> QED
    BY <1>5, <2>1, <2>2 DEF Result, Found
<1> QED
  BY <1>4, <1>5

\* The outcomes of a lookup in the words of the commands.
LEMMA ExactStatus ==
    ASSUME SpelledOneWay, NEW t, WellFormed(t), DOMAIN t \subseteq Entries,
           NEW names \in Entries
    PROVE  LET at == Resolve(t, names)
           IN  /\ at.status \in {"found", "missing", "throws"}
               /\ at.status = "found" <=> names \in DOMAIN t
               /\ at.path = IF names \in DOMAIN t THEN names ELSE NoPath
BY ExactLookup DEF Found, Missing, Throws

\* makeHVSCdir makes the directory named or nothing.
LEMMA ExactMakeDir ==
    ASSUME SpelledOneWay, NEW t, WellFormed(t), DOMAIN t \subseteq Entries,
           NEW names \in Entries
    PROVE  LET made == MakeDir(t, names)
           IN  \/ made.status \in {"logged", "throws"} /\ made.tree = t
               \/ made.status = "made" /\ IsDirectory(t, names) /\ made.tree = t
               \/ /\ made.status = "made"
                  /\ names # Root /\ names \notin DOMAIN t /\ IsDirectory(t, Parent(names))
                  /\ made.tree = With(t, names, Directory)
<1> DEFINE at == Resolve(t, names)
           parent == Resolve(t, Parent(names))
<1>1. names \in Path /\ Parent(names) \in Entries
  BY EntriesAssumption
<1>2. /\ at.status \in {"found", "missing", "throws"}
      /\ at.status = "found" <=> names \in DOMAIN t
      /\ at.path = IF names \in DOMAIN t THEN names ELSE NoPath
  BY ExactStatus
<1>3. /\ parent.status \in {"found", "missing", "throws"}
      /\ parent.status = "found" <=> Parent(names) \in DOMAIN t
      /\ parent.path = IF Parent(names) \in DOMAIN t THEN Parent(names) ELSE NoPath
  BY <1>1, ExactStatus
<1>4. names \notin DOMAIN t => names # Root /\ names = Append(Parent(names), LastName(names))
  BY <1>1, ParentType DEF WellFormed, IsDirectory
<1> HIDE DEF at, parent
<1>5. MakeDir(t, names) =
        LET Logged == [status |-> "logged", tree |-> t]
            Escapes == [status |-> "throws", tree |-> t]
            Made(u) == [status |-> "made", tree |-> u]
        IN  CASE at.status = "throws" -> Escapes
              [] at.status = "found" ->
                   IF IsDirectory(t, at.path) THEN Made(t) ELSE Logged
              [] at.status = "missing" ->
                   IF parent.status = "throws" THEN Escapes
                   ELSE IF parent.status = "missing" THEN Logged
                   ELSE IF CanCreate(t, parent.path, LastName(names))
                   THEN Made(With(t, Append(parent.path, LastName(names)), Directory))
                   ELSE IF IsDirectory(t, Append(parent.path, LastName(names)))
                   THEN Logged
                   ELSE Escapes
  BY DEF MakeDir, at, parent
<1>6. CASE at.status = "throws"
  BY <1>5, <1>6
<1>7. CASE at.status = "found"
  BY <1>2, <1>5, <1>7
<1>8. CASE at.status = "missing"
  <2>1. CASE parent.status # "found"
    BY <1>3, <1>5, <1>8, <2>1
  <2>2. CASE parent.status = "found"
    <3>1. parent.path = Parent(names) /\ names = Append(Parent(names), LastName(names))
          /\ names # Root /\ names \notin DOMAIN t
      BY <1>2, <1>3, <1>4, <1>8, <2>2
    <3>2. MakeDir(t, names) =
            IF CanCreate(t, Parent(names), LastName(names))
            THEN [status |-> "made", tree |-> With(t, names, Directory)]
            ELSE IF IsDirectory(t, names) THEN [status |-> "logged", tree |-> t]
            ELSE [status |-> "throws", tree |-> t]
      BY <1>5, <1>8, <2>2, <3>1
    <3> QED
      BY <3>1, <3>2 DEF CanCreate
  <2> QED
    BY <2>1, <2>2
<1> QED
  BY <1>2, <1>6, <1>7, <1>8

\* Looking up a destination makes the directory it names or nothing.
LEMMA ExactPrepared ==
    ASSUME SpelledOneWay, WellFormed(tree), DOMAIN tree \subseteq Entries,
           NEW line, line.names \in Entries
    PROVE  LET prepared == Prepared(line)
           IN  /\ \/ prepared.tree = tree
                  \/ /\ line.slash /\ line.names # Root
                     /\ line.names \notin DOMAIN tree /\ IsDirectory(tree, Parent(line.names))
                     /\ prepared.tree = With(tree, line.names, Directory)
               /\ prepared.at.status \in {"found", "missing", "throws"}
               /\ prepared.at.status = "found" <=> line.names \in DOMAIN prepared.tree
               /\ prepared.at.status = "found" => prepared.at.path = line.names
<1> DEFINE at == Resolve(tree, line.names)
           made == MakeDir(tree, line.names)
           again == Resolve(made.tree, line.names)
<1>1. /\ at.status \in {"found", "missing", "throws"}
      /\ at.status = "found" <=> line.names \in DOMAIN tree
      /\ at.status = "found" => at.path = line.names
  BY ExactStatus
<1>2. \/ made.status \in {"logged", "throws"} /\ made.tree = tree
      \/ made.status = "made" /\ IsDirectory(tree, line.names) /\ made.tree = tree
      \/ /\ made.status = "made"
         /\ line.names # Root /\ line.names \notin DOMAIN tree
         /\ IsDirectory(tree, Parent(line.names))
         /\ made.tree = With(tree, line.names, Directory)
  BY ExactMakeDir
<1>3. WellFormed(made.tree) /\ DOMAIN made.tree \subseteq Entries
  BY <1>2, MakeDirWellFormed, EntriesAssumption DEF With
<1>4. /\ again.status \in {"found", "missing", "throws"}
      /\ again.status = "found" <=> line.names \in DOMAIN made.tree
      /\ again.status = "found" => again.path = line.names
  BY <1>3, ExactStatus
<1> HIDE DEF at, made, again
<1>5. Prepared(line) =
        IF at.status # "missing" \/ ~ line.slash THEN [tree |-> tree, at |-> at]
        ELSE IF made.status = "throws" THEN [tree |-> made.tree, at |-> Throws]
        ELSE [tree |-> made.tree, at |-> again]
  BY DEF Prepared, at, made, again
<1>6. CASE at.status # "missing" \/ ~ line.slash
  BY <1>1, <1>5, <1>6
<1>7. CASE at.status = "missing" /\ line.slash /\ made.status = "throws"
  BY <1>1, <1>2, <1>5, <1>7 DEF Throws
<1>8. CASE at.status = "missing" /\ line.slash /\ made.status # "throws"
  <2>1. Prepared(line) = [tree |-> made.tree, at |-> again]
    BY <1>5, <1>8
  <2> QED
    BY <1>2, <1>4, <1>8, <2>1
<1> QED
  BY <1>6, <1>7, <1>8

\* A MOVE or REPLACE turns to the files of a directory.
TurnsToFolder(command) ==
    /\ IsDirectory(tree, command.src.names)
    /\ command.dst.slash /\ IsDirectory(tree', command.dst.names)
    /\ pc' = "next" /\ cmd' = command /\ logged' = FALSE
    /\ job'.folder = command.src.names
    /\ job'.dir = command.dst.names
    /\ job'.todo = FileNames(tree', command.src.names)

\* A line that ends with a slash names a file: nothing can be made in it.
Astray ==
    /\ cmd.dst.slash /\ job.dir = cmd.dst.names /\ ~ IsDirectory(tree, job.dir)
    /\ job.old \in {NoPath, job.dir}
    /\ pc \in {"removeOld", "open"}

\* It turns to a single file.
TurnsToFile(command) ==
    /\ IsFile(tree, command.src.names)
    /\ cmd' = command /\ logged' = FALSE
    /\ job'.folder = NoPath /\ job'.todo = {} /\ job'.source = command.src.names
    /\ pc' \in {"removeOld", "open"} /\ (pc' = "open" => job'.old = NoPath)
    /\ \/ /\ Destination' = To(command, command.src.names)
          /\ job'.old \in {NoPath, Destination'}
          /\ command.dst.slash => job'.dir = command.dst.names /\ IsDirectory(tree', job'.dir)
       \/ Astray' /\ IsFile(tree', command.dst.names)

\* Where a single file is sent.
LEMMA FileTurn ==
    ASSUME NEW command, NEW from, NEW dir, NEW name, NEW previous,
           Transfer(command, [[NoJob EXCEPT !.source = from] EXCEPT !.dir = dir, !.name = name],
                    previous),
           ~ Abort
    PROVE  /\ cmd' = command /\ logged' = FALSE
           /\ job'.folder = NoPath /\ job'.todo = {} /\ job'.source = from
           /\ job'.dir = dir /\ job'.name = name
           /\ job'.old \in {NoPath, previous.path}
           /\ pc' \in {"removeOld", "open"} /\ (pc' = "open" => job'.old = NoPath)
<1> DEFINE file == [[NoJob EXCEPT !.source = from] EXCEPT !.dir = dir, !.name = name]
           old == IF command.op = "REPLACE" THEN previous.path ELSE NoPath
           j == [file EXCEPT !.old = old]
<1>1. /\ j.folder = NoPath /\ j.todo = {} /\ j.source = from /\ j.dir = dir /\ j.name = name
      /\ j.old = old
  BY DEF NoJob
<1> HIDE DEF file
<1>2. Transfer(command, file, previous)
  BY DEF file
<1>3. /\ cmd' = command /\ logged' = FALSE /\ job' = j
      /\ pc' = IF job'.old = NoPath THEN "open" ELSE "removeOld"
  BY <1>2 DEF Transfer
<1> HIDE DEF j
<1> QED
  BY <1>1, <1>3

\* How a MOVE or REPLACE of exactly spelled names begins.
LEMMA BeginExact ==
    ASSUME SpelledOneWay, WellFormed(tree), DOMAIN tree \subseteq Entries,
           NEW command \in MoveCommand, command.src.names \in Entries,
           command.dst.names \in Entries,
           \A p \in Entries : From(command, p) => To(command, p) \in Entries,
           ~ command.dst.slash => ~ IsDirectory(tree, command.dst.names),
           Begin(command)
    PROVE  /\ \/ tree' = tree
              \/ /\ command.dst.slash /\ command.dst.names # Root
                 /\ command.dst.names \notin DOMAIN tree
                 /\ IsDirectory(tree, Parent(command.dst.names))
                 /\ tree' = With(tree, command.dst.names, Directory)
           /\ Abort \/ LogError \/ TurnsToFolder(command) \/ TurnsToFile(command)
<1> DEFINE src == command.src.names
           dst == command.dst.names
           from == Resolve(tree, src)
           prepared == Prepared(command.dst)
           at == prepared.at
<1>1. /\ src \in Path /\ dst \in Path /\ command.dst.slash \in BOOLEAN
      /\ Parent(dst) \in Entries
  BY EntriesAssumption DEF MoveCommand, Line
<1>2. /\ from.status \in {"found", "missing", "throws"}
      /\ from.status = "found" <=> src \in DOMAIN tree
      /\ from.status = "found" => from.path = src
  BY ExactStatus
<1>3. /\ \/ prepared.tree = tree
         \/ /\ command.dst.slash /\ dst # Root
            /\ dst \notin DOMAIN tree /\ IsDirectory(tree, Parent(dst))
            /\ prepared.tree = With(tree, dst, Directory)
      /\ at.status \in {"found", "missing", "throws"}
      /\ at.status = "found" <=> dst \in DOMAIN prepared.tree
      /\ at.status = "found" => at.path = dst
  BY ExactPrepared
<1> HIDE DEF from, prepared
<1>4. /\ tree' = IF from.status = "found" THEN prepared.tree ELSE tree
      /\ CASE from.status = "throws" -> Abort
           [] from.status = "missing" -> LogError
           [] from.status = "found" ->
                CASE at.status = "throws" -> Abort
                  [] at.status = "missing" /\ command.dst.slash -> LogError
                  [] OTHER -> IF IsDirectory(tree', from.path)
                              THEN BeginFolder(command, from.path, at)
                              ELSE BeginFile(command, from.path, at)
  BY DEF Begin, from, prepared
<1>5. \/ tree' = tree
      \/ /\ command.dst.slash /\ dst # Root
         /\ dst \notin DOMAIN tree /\ IsDirectory(tree, Parent(dst))
         /\ tree' = With(tree, dst, Directory)
  BY <1>3, <1>4
<1>6. ASSUME ~ Abort, ~ LogError
      PROVE  TurnsToFolder(command) \/ TurnsToFile(command)
  <2>1. /\ from.status = "found" /\ at.status # "throws"
        /\ at.status = "missing" => ~ command.dst.slash
        /\ IF IsDirectory(tree', src) THEN BeginFolder(command, src, at)
           ELSE BeginFile(command, src, at)
    BY <1>2, <1>3, <1>4, <1>6
  <2>2. src \in DOMAIN tree /\ tree' = prepared.tree
    BY <1>2, <1>4, <2>1
  <2>3. WellFormed(tree') /\ DOMAIN tree' \subseteq Entries
    <3>1. WellFormed(tree')
      BY BeginTree, CreateWellFormed
    <3> QED
      BY <1>5, <3>1 DEF With
  <2>4. src \in DOMAIN tree' /\ tree'[src] = tree[src]
    BY <1>5, <2>2 DEF With
  <2>5. ~ command.dst.slash => ~ IsDirectory(tree', dst)
    BY <1>5
  <2>6. CASE IsDirectory(tree', src)
    <3>1. BeginFolder(command, src, at)
      BY <2>1, <2>6
    <3>2. /\ at.status = "found" /\ IsDirectory(tree', at.path)
          /\ pc' = "next" /\ cmd' = command /\ logged' = FALSE
          /\ job' = [NoJob EXCEPT !.folder = src, !.dir = at.path,
                                  !.todo = FileNames(tree', src)]
      BY <3>1, <1>6 DEF BeginFolder
    <3>3. at.path = dst
      BY <1>3, <3>2
    <3>4. /\ job'.folder = src /\ job'.dir = dst /\ job'.todo = FileNames(tree', src)
      BY <3>2, <3>3 DEF NoJob
    <3>5. IsDirectory(tree, src)
      BY <2>2, <2>4, <2>6 DEF IsDirectory
    <3> QED
      BY <1>1, <2>5, <3>2, <3>3, <3>4, <3>5 DEF TurnsToFolder
  <2>7. CASE ~ IsDirectory(tree', src)
    <3>1. BeginFile(command, src, at)
      BY <2>1, <2>7
    <3>2. IsFile(tree, src) /\ src # Root
      BY <2>2, <2>3, <2>4, <2>7 DEF IsFile, IsDirectory, WellFormed
    <3>3. From(command, src) /\ To(command, src) \in Entries
      BY <3>2 DEF From
    <3>4. CASE at.status = "found" /\ IsDirectory(tree', at.path)
      <4>1. at.path = dst /\ command.dst.slash /\ IsDirectory(tree', dst)
        BY <1>1, <1>3, <2>5, <3>4
      <4>2. ReplaceFilename(command.dst, LastName(src)) = To(command, src)
        BY <4>1 DEF ReplaceFilename, To
      <4> DEFINE previous == Resolve(tree', To(command, src))
      <4>3. Transfer(command, [[NoJob EXCEPT !.source = src]
                                 EXCEPT !.dir = dst, !.name = LastName(src)], previous)
        BY <3>1, <3>4, <4>1, <4>2 DEF BeginFile
      <4>4. previous.path \in {NoPath, To(command, src)}
        BY <2>3, <3>3, ExactStatus
      <4> HIDE DEF previous
      <4>5. /\ cmd' = command /\ logged' = FALSE
            /\ job'.folder = NoPath /\ job'.todo = {} /\ job'.source = src
            /\ job'.dir = dst /\ job'.name = LastName(src)
            /\ job'.old \in {NoPath, previous.path}
            /\ pc' \in {"removeOld", "open"} /\ (pc' = "open" => job'.old = NoPath)
        BY <4>3, <1>6, FileTurn
      <4>6. Destination' = To(command, src)
        BY <4>1, <4>5 DEF Destination, To
      <4> QED
        BY <3>2, <4>1, <4>4, <4>5, <4>6 DEF TurnsToFile
    <3>5. CASE ~ (at.status = "found" /\ IsDirectory(tree', at.path)) /\ command.dst.slash
      <4>1. at.status = "found" /\ at.path = dst /\ ~ IsDirectory(tree', dst)
        BY <1>3, <2>1, <3>5
      <4> DEFINE previous == Resolve(tree', dst)
      <4>2. Transfer(command, [[NoJob EXCEPT !.source = src]
                                 EXCEPT !.dir = dst, !.name = LastName(dst)], previous)
        BY <3>1, <3>5, <4>1 DEF BeginFile
      <4>3. previous.path \in {NoPath, dst}
        BY <2>3, ExactStatus
      <4> HIDE DEF previous
      <4>4. /\ cmd' = command /\ logged' = FALSE
            /\ job'.folder = NoPath /\ job'.todo = {} /\ job'.source = src
            /\ job'.dir = dst /\ job'.name = LastName(dst)
            /\ job'.old \in {NoPath, previous.path}
            /\ pc' \in {"removeOld", "open"} /\ (pc' = "open" => job'.old = NoPath)
        BY <4>2, <1>6, FileTurn
      <4>5. IsFile(tree', dst)
        BY <1>3, <2>2, <4>1 DEF IsFile, IsDirectory
      <4> QED
        BY <3>2, <3>5, <4>1, <4>3, <4>4, <4>5 DEF TurnsToFile, Astray
    <3>6. CASE ~ (at.status = "found" /\ IsDirectory(tree', at.path)) /\ ~ command.dst.slash
      <4> DEFINE parent == Resolve(tree', Parent(dst))
                 previous == Resolve(tree', dst)
      <4>1. /\ parent.status \in {"found", "missing", "throws"}
            /\ parent.path \in {NoPath, Parent(dst)}
            /\ parent.status = "found" => parent.path = Parent(dst)
        BY <1>1, <2>3, ExactStatus
      <4>2. previous.path \in {NoPath, dst}
        BY <2>3, ExactStatus
      <4> HIDE DEF parent, previous
      <4>3. /\ parent.status = "throws" => Abort
            /\ parent.status = "missing" => LogError
            /\ parent.status = "found" =>
                 Transfer(command, [[NoJob EXCEPT !.source = src] EXCEPT
                                      !.dir = parent.path, !.name = LastName(dst)], previous)
        BY <3>1, <3>6 DEF BeginFile, parent, previous
      <4>4. Transfer(command, [[NoJob EXCEPT !.source = src] EXCEPT
                                 !.dir = Parent(dst), !.name = LastName(dst)], previous)
        BY <1>6, <4>1, <4>3
      <4>5. /\ cmd' = command /\ logged' = FALSE
            /\ job'.folder = NoPath /\ job'.todo = {} /\ job'.source = src
            /\ job'.dir = Parent(dst) /\ job'.name = LastName(dst)
            /\ job'.old \in {NoPath, previous.path}
            /\ pc' \in {"removeOld", "open"} /\ (pc' = "open" => job'.old = NoPath)
        BY <4>4, <1>6, FileTurn
      <4>6. dst # Root
        BY <2>3, <2>5, <3>6 DEF WellFormed
      <4>7. Destination' = To(command, src)
        BY <1>1, <3>6, <4>5, <4>6, ParentType DEF Destination, To
      <4>8. Destination' = dst
        BY <3>6, <4>7 DEF To
      <4> QED
        BY <3>2, <3>6, <4>2, <4>5, <4>7, <4>8 DEF TurnsToFile
    <3> QED
      BY <3>4, <3>5, <3>6
  <2> QED
    BY <2>6, <2>7
<1> QED
  BY <1>5, <1>6

-----------------------------------------------------------------------------
(* The steps of main around the commands.                                  *)

\* Before the commands main goes from one question to the next.
LEMMA CheckSteps ==
    ASSUME Check
    PROVE  /\ UNCHANGED <<files, errorsFile, session, step, errors, applied>>
           /\ \/ main = "directories" /\ main' = "version" /\ UNCHANGED <<num, found>>
              \/ main = "version" /\ main' = "script" /\ UNCHANGED num /\ found' = Told
              \/ /\ main = "script" /\ ~ Exists(tree, ScriptPath) /\ main' = "exit1"
                 /\ UNCHANGED <<num, found>>
              \/ /\ main = "script" /\ Exists(tree, ScriptPath) /\ main' = "hubbard"
                 /\ num' = 1 /\ UNCHANGED found
              \/ /\ main \in {"hubbard", "header", "check"}
                 /\ main' \in {"header", "check", "open"} /\ UNCHANGED <<num, found>>
              \/ /\ main = "commands" /\ step > Commands
                 /\ main' = (IF errors = 0 THEN "archive" ELSE "exit1")
                 /\ UNCHANGED <<num, found>>
<1>1. UNCHANGED <<files, errorsFile, session>>
  BY DEF Check
<1>2. CASE Run!CheckDirectories
  BY <1>1, <1>2 DEF Run!CheckDirectories, Run!world, Run!run, Run!vars
<1>3. CASE Run!ReadVersion
  BY <1>1, <1>3 DEF Run!ReadVersion, Run!world, Run!ReadRelease, Run!NoRelease,
       Run!BadRelease, Told
<1>4. CASE Run!FindScript
  BY <1>1, <1>4 DEF Run!FindScript, Run!world
<1>5. CASE Run!CheckHubbard
  BY <1>1, <1>5 DEF Run!CheckHubbard, Run!world, Run!run
<1>6. CASE Run!ReadHeader
  BY <1>1, <1>6 DEF Run!ReadHeader, Run!world, Run!run
<1>7. CASE Run!CheckVersion
  BY <1>1, <1>7 DEF Run!CheckVersion, Run!world, Unattended
<1>8. CASE Run!EndOfScript
  BY <1>1, <1>8 DEF Run!EndOfScript, Run!world, Run!run
<1> QED
  BY <1>2, <1>3, <1>4, <1>5, <1>6, <1>7, <1>8 DEF Check

\* The user starts the tool.
LEMMA StartSteps ==
    ASSUME StartSession
    PROVE  /\ UNCHANGED <<tree, script, errorsFile, expected, applied>>
           /\ main \in {"idle", "exit0", "exit1", "aborted", "trapped", "killed"}
           /\ main' = "directories"
           /\ num' = 0 /\ found' = 0 /\ warning' = FALSE /\ step' = 0 /\ errors' = 0
           /\ pc' = Idle /\ cmd' = NoCommand /\ job' = NoJob /\ logged' = FALSE
           /\ resumed' = (resumed \/ step > 0)
BY DEF StartSession, Run!StartRun, Run!world, Run!Stopped, Run!NoRelease, Forget, Unattended

-----------------------------------------------------------------------------
(* What holds of every session: the script stays the same, main and the    *)
(* command at work agree, and no entry is left without its directory.      *)

\* Nothing has been unpacked and no command executed.
Fresh ==
    /\ tree = Original
    /\ main \in {"idle", "directories", "version", "script", "exit1", "killed"}
    /\ step = 0 /\ ~ resumed
    /\ pc \in {Idle, "killed"}

AtWork ==
    /\ main = "commands" => step \in 1..(Commands + 1)
    /\ pc \in Ended => main \in {"aborted", "killed"}
    /\ pc \notin {Idle} \cup Ended => main = "commands" /\ step <= Commands
    /\ pc \notin {Idle, "save"} \cup Ended => cmd = script[step]

\* A sidtune command has the tune in memory, and its file is cut short.
Saving ==
    pc = "save" =>
      /\ script[step].op = "EDIT"
      /\ cmd = NoCommand /\ logged \in BOOLEAN
      /\ job.dir \in Path /\ job.name \in Name /\ IsDirectory(tree, job.dir)
      /\ Exists(tree, Destination) /\ tree[Destination] = Partial
      /\ object \in DOMAIN Edited

Copying ==
    /\ main = "copying" =>
         /\ IsDirectory(tree, ArchiveDir)
         /\ Exists(tree, ArchivePath) /\ tree[ArchivePath] = Partial
    /\ main \in {"copying", "removeScript"} =>
         IsFile(tree, ScriptPath) /\ ArchivePath # ScriptPath

Base ==
    /\ script \in Scripts /\ expected = After(script)
    /\ step \in Nat /\ errors \in Nat /\ resumed \in BOOLEAN
    /\ WellFormed(tree)
    /\ pc # "save" => IndInv
    /\ AtWork
    /\ Saving
    /\ Copying
    /\ Fresh \/ (main = "idle" => tree = Start)

\* The commands of a script, by what they do.
LEMMA ScriptCommand ==
    ASSUME script \in Scripts, NEW i \in 1..Commands
    PROVE  /\ script[i].op \in {"MOVE", "REPLACE", "DELETE", "MKDIR", "EDIT"}
           /\ script[i].op \in {"MOVE", "REPLACE"} => script[i] \in MoveCommand
           /\ script[i].op \in {"DELETE", "MKDIR"} => script[i] \in OtherCommand
           /\ script[i].op = "EDIT" => script[i] \in EditCommand
<1>1. script[i] \in MoveCommand \cup OtherCommand \cup EditCommand
  BY ScriptsAssumption
<1>2. ASSUME NEW c \in MoveCommand PROVE c.op \in {"MOVE", "REPLACE"}
  BY <1>2 DEF MoveCommand
<1>3. ASSUME NEW c \in OtherCommand PROVE c.op \in {"DELETE", "MKDIR"}
  BY <1>3 DEF OtherCommand
<1>4. ASSUME NEW c \in EditCommand PROVE c.op = "EDIT"
  BY <1>4 DEF EditCommand
<1> QED
  BY <1>1, <1>2, <1>3, <1>4

\* The path of the script and of its copy.
LEMMA Paths ==
    /\ ScriptPath \in Path /\ ScriptPath # Root /\ ScriptPath \in DOMAIN Start
    /\ Start[ScriptPath] # Directory
    /\ LastName(ScriptPath) \in Name
    /\ ArchivePath \in Path /\ ArchivePath # Root
    /\ Parent(ArchivePath) = ArchiveDir /\ LastName(ArchivePath) = LastName(ScriptPath)
<1>1. ScriptPath \in DOMAIN Start /\ Start[ScriptPath] # Directory
  BY PackAssumption DEF Start, IsFile
<1>2. ScriptPath \in Path /\ ScriptPath # Root
  BY <1>1, PackAssumption DEF WellFormed, IsDirectory
<1>3. LastName(ScriptPath) \in Name
  BY <1>2, ParentType
<1>4. ArchivePath \in Path /\ ArchivePath # Root /\ Parent(ArchivePath) = ArchiveDir
  BY <1>3, PackAssumption, AppendParent DEF ArchivePath
<1>5. LastName(ArchivePath) = LastName(ScriptPath)
  BY <1>3, PackAssumption DEF ArchivePath, LastName, Path
<1> QED
  BY <1>1, <1>2, <1>3, <1>4, <1>5

\* How a sidtune command begins.
LEMMA EditSteps ==
    ASSUME WellFormed(tree), NEW command \in EditCommand, Edit(command)
    PROVE  \/ (Abort \/ LogError) /\ UNCHANGED <<tree, object>>
           \/ \E p \in Path :
                /\ Resolve(tree, command.path.names) = Found(p)
                /\ IsFile(tree, p) /\ p # Root
                /\ tree[p] \in DOMAIN Edited /\ object' = tree[p]
                /\ tree' = With(tree, p, Partial)
                /\ pc' = "save" /\ UNCHANGED <<cmd, logged>>
                /\ job'.dir = Parent(p) /\ job'.name = LastName(p)
                /\ job' = [NoJob EXCEPT !.dir = Parent(p), !.name = LastName(p)]
                /\ Destination' = p
<1> DEFINE at == Resolve(tree, command.path.names)
<1>1. command.path.names \in Path
  BY DEF EditCommand, Line
<1>2. at \in Result
  BY <1>1, ResolveType
<1>3. at.status \in {"found", "missing", "throws"} /\ (at.status = "found" => at.path \in Path)
  BY <1>2, ResultFacts
<1> HIDE DEF at
<1>4. /\ at.status = "throws" => Abort /\ UNCHANGED <<tree, object>>
      /\ at.status = "missing" => LogError /\ UNCHANGED <<tree, object>>
      /\ at.status = "found" =>
           IF ~ IsFile(tree, at.path) \/ tree[at.path] \notin DOMAIN Edited
           THEN LogError /\ UNCHANGED <<tree, object>>
           ELSE /\ object' = tree[at.path]
                /\ tree' = With(tree, at.path, Partial)
                /\ job' = [NoJob EXCEPT !.dir = Parent(at.path), !.name = LastName(at.path)]
                /\ pc' = "save"
                /\ UNCHANGED <<cmd, logged>>
  BY DEF Edit, at
<1>5. CASE /\ at.status = "found" /\ IsFile(tree, at.path) /\ tree[at.path] \in DOMAIN Edited
  <2>1. at.path \in Path /\ at.path # Root
    BY <1>3, <1>5 DEF IsFile, IsDirectory, WellFormed
  <2>2. at = Found(at.path)
    BY <1>2, <1>5 DEF Result, Found, Missing, Throws
  <2>3. job'.dir = Parent(at.path) /\ job'.name = LastName(at.path)
    BY <1>4, <1>5 DEF NoJob
  <2>4. Destination' = at.path
    BY <2>1, <2>3, ParentType DEF Destination
  <2> QED
    BY <1>4, <1>5, <2>1, <2>2, <2>3, <2>4 DEF at
<1> QED
  BY <1>3, <1>4, <1>5

\* What a command may do with the process.
Ends == Abort \/ LogError \/ Complete

Goes == cmd' # NoCommand /\ pc' \in {"next"} \cup Transferring

\* A file is taken, or an exception ends the process.
LEMMA TransferGoes ==
    ASSUME NEW command, command # NoCommand, NEW file, NEW previous,
           Transfer(command, file, previous)
    PROVE  Abort \/ (cmd' = command /\ Goes)
BY DEF Transfer, Goes, Transferring

\* MOVE and REPLACE end at once or turn to their files.
LEMMA BeginGoes ==
    ASSUME NEW command \in MoveCommand, Begin(command), WellFormed(tree)
    PROVE  Ends \/ (cmd' = command /\ Goes)
<1> DEFINE from == Resolve(tree, command.src.names)
           prepared == Prepared(command.dst)
           at == prepared.at
<1>1. command # NoCommand /\ command.src.names \in Path /\ command.dst.names \in Path
  BY DEF MoveCommand, NoCommand, Line
<1>2. from.status \in {"found", "missing", "throws"}
  BY <1>1, ResolveType, ResultFacts
<1>3. Abort \/ LogError \/ BeginFolder(command, from.path, at)
        \/ BeginFile(command, from.path, at)
  <2> HIDE DEF at
  <2> QED
    BY <1>2 DEF Begin, at
<1> HIDE DEF from, at
<1>4. CASE BeginFolder(command, from.path, at)
  BY <1>1, <1>4 DEF BeginFolder, Ends, Goes
<1>5. CASE BeginFile(command, from.path, at)
  <2> DEFINE dst == command.dst
             parent == IF dst.slash THEN at ELSE Resolve(tree', Parent(dst.names))
             file == [NoJob EXCEPT !.source = from.path]
             first == [file EXCEPT !.dir = at.path, !.name = LastName(command.src.names)]
             second == [file EXCEPT !.dir = parent.path, !.name = LastName(dst.names)]
  <2>1. parent.status \in {"found", "missing", "throws"}
    BY <1>1, ParentType, PreparedFacts, ResolveType, ResultFacts DEF at, MoveCommand
  <2> HIDE DEF parent
  <2>2. \/ Transfer(command, first,
                    Resolve(tree', ReplaceFilename(dst, LastName(command.src.names))))
        \/ Abort \/ LogError
        \/ Transfer(command, second, Resolve(tree', dst.names))
    BY <1>5, <2>1 DEF BeginFile, parent
  <2> HIDE DEF first, second
  <2> QED
    BY <1>1, <2>2, TransferGoes DEF Ends
<1> QED
  BY <1>3, <1>4, <1>5 DEF Ends

\* So do the steps of a command that is at work.
LEMMA ContinueGoes ==
    ASSUME cmd # NoCommand,
           NextFile \/ EndCommand \/ RemoveOld \/ OpenDestination \/ FillDestination
             \/ RemoveSource
    PROVE  /\ pc \in {"next"} \cup Transferring
           /\ Ends \/ (cmd' = cmd /\ Goes)
<1>1. CASE NextFile
  <2> DEFINE file(name) == [job EXCEPT !.source = Append(job.folder, name), !.name = name,
                                       !.todo = @ \ {name}]
             previous(name) == IF cmd.op = "REPLACE"
                               THEN Resolve(tree, ReplaceFilename(cmd.dst, name))
                               ELSE Missing
  <2>1. PICK name \in job.todo : Transfer(cmd, file(name), previous(name))
    BY <1>1 DEF NextFile
  <2> HIDE DEF file, previous
  <2> QED
    BY <1>1, <2>1, TransferGoes DEF NextFile, Ends
<1>2. CASE EndCommand
  BY <1>2 DEF EndCommand, Ends
<1>3. CASE RemoveOld
  BY <1>3 DEF RemoveOld, Transferring, Ends, Goes
<1>4. CASE OpenDestination
  BY <1>4 DEF OpenDestination, Transferring, Ends, Goes
<1>5. CASE FillDestination
  BY <1>5 DEF FillDestination, Transferring, Ends, Goes
<1>6. CASE RemoveSource
  BY <1>6 DEF RemoveSource, Transferring, Ends, Goes
<1> QED
  BY <1>1, <1>2, <1>3, <1>4, <1>5, <1>6

\* They keep the invariant of FileCommands.
LEMMA ContinueInv ==
    ASSUME IndInv,
           NextFile \/ EndCommand \/ RemoveOld \/ OpenDestination \/ FillDestination
             \/ RemoveSource
    PROVE  IndInv'
<1>1. EndCommand => (Complete /\ WellFormed(tree)')
  BY DEF EndCommand, IndInv
<1> QED
  BY <1>1, EndsInv, NextFileInv, RemoveOldInv, OpenDestinationInv, FillDestinationInv,
     RemoveSourceInv

\* main goes on to the next command, or ends with the command.
LEMMA OutcomeSteps ==
    ASSUME Outcome, errors \in Nat
    PROVE  \/ pc' = "aborted" /\ main' = "aborted"
                /\ UNCHANGED <<step, errors, errorsFile, applied>>
           \/ pc' \notin {Idle, "aborted"} /\ UNCHANGED <<main, step, errors, errorsFile, applied>>
           \/ /\ pc' = Idle /\ main' = main /\ step' = step + 1
              /\ errors' \in Nat
              /\ errors' = 0 => errors = 0 /\ ~ logged'
              /\ errors' = (IF logged' THEN errors + 1 ELSE errors)
              /\ errorsFile' = (IF logged' THEN "errors" ELSE errorsFile)
              /\ applied' = (IF logged' THEN applied ELSE applied \cup {<<num, step>>})
BY DEF Outcome, Idle

\* A session begins on the collection as it was.
LEMMA BaseInit == SessionInit => Base
<1> SUFFICES ASSUME SessionInit PROVE Base
  OBVIOUS
<1>1. WellFormed(tree)
  BY PackAssumption DEF SessionInit
<1>2. IndInv
  <2>1. TypeOK
    BY NoJobType DEF SessionInit, TypeOK, Idle, Ended, Transferring
  <2> QED
    BY <1>1, <2>1 DEF SessionInit, IndInv, SourceOutlivesCopy, Idle
<1> QED
  BY <1>1, <1>2 DEF SessionInit, Base, AtWork, Saving, Copying, Fresh, Idle, Ended

\* What main does around the commands keeps the invariant.
LEMMA MainBase ==
    ASSUME Base, Check \/ OpenErrors \/ DropErrors \/ StartSession
    PROVE  Base'
<1>1. CASE Check
  <2>1. /\ UNCHANGED <<files, errorsFile, session, step, errors, applied>>
        /\ \/ main = "directories" /\ main' = "version"
           \/ main = "version" /\ main' = "script"
           \/ main = "script" /\ ~ Exists(tree, ScriptPath) /\ main' = "exit1"
           \/ main = "script" /\ Exists(tree, ScriptPath) /\ main' = "hubbard"
           \/ main \in {"hubbard", "header", "check"} /\ main' \in {"header", "check", "open"}
           \/ /\ main = "commands" /\ step > Commands
              /\ main' = (IF errors = 0 THEN "archive" ELSE "exit1")
    BY <1>1, CheckSteps
  <2>2. UNCHANGED <<tree, pc, cmd, job, logged, script, object, resumed, expected>>
    BY <2>1 DEF files, session
  <2>3. IndInv => IndInv'
    BY <2>2 DEF IndInv, TypeOK, WellFormed, SourceOutlivesCopy, IsFile, IsDirectory, Destination
  <2>4. AtWork'
    BY <2>1, <2>2, ScriptsAssumption DEF Base, AtWork
  <2>5. Saving' /\ Copying'
    BY <2>1, <2>2 DEF Base, Saving, Copying, Destination
  <2>6. Fresh => Fresh'
    <3>1. ~ Exists(Original, ScriptPath)
      BY PackAssumption
    <3> QED
      BY <2>1, <2>2, <3>1 DEF Fresh
  <2> QED
    BY <2>1, <2>2, <2>3, <2>4, <2>5, <2>6 DEF Base
<1>2. CASE OpenErrors \/ DropErrors
  <2>1. /\ UNCHANGED <<tree, pc, cmd, job, logged, script, object, resumed, expected, errors>>
        /\ main' \in {"commands", "exit0"} /\ main \in {"open", "removeErrors"}
        /\ main' = "commands" => step' = 1
        /\ main' = "exit0" => step' = step
    BY <1>2 DEF OpenErrors, DropErrors, files, session
  <2>2. IndInv => IndInv'
    BY <2>1 DEF IndInv, TypeOK, WellFormed, SourceOutlivesCopy, IsFile, IsDirectory, Destination
  <2>3. pc \in {Idle} \cup Ended
    BY <2>1 DEF Base, AtWork
  <2> QED
    BY <2>1, <2>2, <2>3, ScriptsAssumption DEF Base, AtWork, Saving, Copying, Fresh, Idle, Ended
<1>3. CASE StartSession
  <2>1. UNCHANGED <<tree, script, expected>> /\ main' = "directories"
        /\ step' = 0 /\ errors' = 0 /\ resumed' = (resumed \/ step > 0)
        /\ Forget(Idle) /\ logged' = FALSE
        /\ main \in {"idle", "exit0", "exit1", "aborted", "trapped", "killed"}
    BY <1>3, StartSteps DEF Forget
  <2>2. WellFormed(tree')
    BY <2>1 DEF Base
  <2>3. IndInv'
    BY <2>1, <2>2, EndsInv DEF Complete
  <2>4. Fresh => Fresh'
    <3>1. ASSUME Fresh PROVE ~ resumed' /\ tree' = Original /\ pc' = Idle
      <4>1. ~ (step > 0) /\ ~ resumed
        BY <3>1 DEF Fresh
      <4> QED
        BY <2>1, <3>1, <4>1 DEF Fresh, Forget
    <3> QED
      BY <2>1, <3>1 DEF Fresh
  <2> QED
    BY <2>1, <2>2, <2>3, <2>4 DEF Base, AtWork, Saving, Copying, Forget, Idle, Ended
<1> QED
  BY <1>1, <1>2, <1>3

\* Beginning a command keeps it.
LEMMA BeginBase ==
    ASSUME Base, BeginCommand
    PROVE  Base'
<1> DEFINE command == script[step]
<1>1. /\ main = "commands" /\ step \in 1..Commands /\ pc = Idle
      /\ UNCHANGED <<num, found, warning, script, resumed, expected>>
      /\ Outcome /\ step \in Nat /\ errors \in Nat /\ WellFormed(tree) /\ IndInv
      /\ script \in Scripts /\ cmd = NoCommand /\ logged \in BOOLEAN
  BY ScriptsAssumption DEF BeginCommand, Base, AtWork, IndInv, TypeOK, Idle, Ended
<1>2. /\ command.op \in {"MOVE", "REPLACE", "DELETE", "MKDIR", "EDIT"}
      /\ command.op \in {"MOVE", "REPLACE"} => command \in MoveCommand
      /\ command.op \in {"DELETE", "MKDIR"} => command \in OtherCommand
      /\ command.op = "EDIT" => command \in EditCommand
  BY <1>1, ScriptCommand
<1>3. /\ WellFormed(tree')
      /\ \/ IndInv' /\ Ends
         \/ IndInv' /\ cmd' = command /\ Goes
         \/ command.op = "EDIT" /\ pc' = "save" /\ Saving' /\ step' = step
  <2>1. CASE command.op \in {"MOVE", "REPLACE"}
    BY <1>1, <1>2, <2>1, BeginInv, BeginGoes DEF BeginCommand, IndInv
  <2>2. CASE command.op = "DELETE"
    BY <1>1, <1>2, <2>2, DeleteInv, DeleteEnds DEF BeginCommand, IndInv, Ends
  <2>3. CASE command.op = "MKDIR"
    BY <1>1, <1>2, <2>3, MakeDirectoryInv, MakeDirectoryEnds DEF BeginCommand, IndInv, Ends
  <2>4. CASE command.op = "EDIT"
    <3>1. Edit(command) /\ command \in EditCommand
      BY <1>2, <2>4 DEF BeginCommand
    <3>2. CASE (Abort \/ LogError) /\ UNCHANGED <<tree, object>>
      BY <1>1, <3>2, EndsInv DEF Ends
    <3>3. CASE ~ ((Abort \/ LogError) /\ UNCHANGED <<tree, object>>)
      <4>1. PICK p \in Path :
              /\ IsFile(tree, p) /\ p # Root
              /\ tree[p] \in DOMAIN Edited /\ object' = tree[p]
              /\ tree' = With(tree, p, Partial)
              /\ pc' = "save" /\ UNCHANGED <<cmd, logged>>
              /\ job'.dir = Parent(p) /\ job'.name = LastName(p)
              /\ Destination' = p
        BY <1>1, <3>1, <3>3, EditSteps
      <4>2. /\ Parent(p) \in Path /\ LastName(p) \in Name
            /\ p = Append(Parent(p), LastName(p)) /\ p # Parent(p)
        BY <4>1, ParentType, AppendParent
      <4>3. IsDirectory(tree, Parent(p)) /\ ~ IsDirectory(tree, p)
        BY <1>1, <4>1 DEF WellFormed, IsFile, IsDirectory
      <4>4. WellFormed(tree')
        BY <1>1, <4>1, <4>2, <4>3, WithWellFormed
      <4>5. /\ Exists(tree', p) /\ tree'[p] = Partial /\ IsDirectory(tree', Parent(p))
        BY <4>1, <4>2, <4>3 DEF With, Exists, IsDirectory
      <4>6. step' = step
        BY <1>1, <4>1, OutcomeSteps DEF Idle
      <4>7. Saving'
        BY <1>1, <2>4, <4>1, <4>2, <4>5, <4>6 DEF Saving
      <4> QED
        BY <2>4, <4>1, <4>4, <4>6, <4>7
    <3> QED
      BY <3>2, <3>3
  <2> QED
    BY <1>2, <2>1, <2>2, <2>3, <2>4
<1>4. /\ Ends => pc' \in {Idle, "aborted"} /\ cmd' = NoCommand
      /\ Goes => pc' \in {"next"} \cup Transferring
  BY DEF Ends, Goes, Abort, LogError, Complete, Forget
<1>5. \/ pc' = "aborted" /\ main' = "aborted" /\ UNCHANGED <<step, errors>>
      \/ pc' \notin {Idle, "aborted"} /\ UNCHANGED <<main, step, errors>>
      \/ pc' = Idle /\ main' = main /\ step' = step + 1 /\ errors' \in Nat
  BY <1>1, OutcomeSteps
<1>6. pc' # "save" => IndInv'
  BY <1>3
<1>7. AtWork'
  <2>1. Commands \in Nat
    BY ScriptsAssumption
  <2> QED
    BY <1>1, <1>3, <1>4, <1>5, <2>1 DEF AtWork, Idle, Ended, Transferring
<1>8. Saving'
  BY <1>3, <1>4 DEF Saving, Idle, Transferring
<1>9. Copying' /\ main' # "idle"
  BY <1>1, <1>5 DEF Copying
<1> QED
  BY <1>1, <1>3, <1>5, <1>6, <1>7, <1>8, <1>9 DEF Base

\* So does each further step of a command.
LEMMA ContinueBase ==
    ASSUME Base, ContinueCommand
    PROVE  Base'
<1>1. /\ main = "commands" /\ script' = script /\ resumed' = resumed /\ expected' = expected
      /\ Outcome /\ step \in Nat /\ errors \in Nat /\ WellFormed(tree)
      /\ script \in Scripts
  BY DEF ContinueCommand, Base
<1>2. CASE SaveTune
  <2>1. /\ pc = "save" /\ job.dir \in Path /\ job.name \in Name /\ IsDirectory(tree, job.dir)
        /\ Exists(tree, Destination) /\ tree[Destination] = Partial /\ object \in DOMAIN Edited
        /\ step \in 1..Commands /\ Commands \in Nat
    BY <1>1, <1>2, ScriptsAssumption DEF SaveTune, Base, Saving, AtWork, Idle, Ended
  <2>2. /\ tree' = With(tree, Destination, Edited[object]) /\ Complete
    BY <1>2 DEF SaveTune
  <2>3. Edited[object] \in Tune
    BY <2>1, EditedAssumption
  <2>4. WellFormed(tree')
    BY <1>1, <2>1, <2>2, <2>3, WithWellFormed, KindAssumption DEF IsDirectory, Destination
  <2>5. IndInv'
    BY <2>2, <2>4, EndsInv
  <2>6. pc' = Idle /\ main' = main /\ step' = step + 1 /\ errors' \in Nat
    BY <1>1, <2>2, OutcomeSteps DEF Complete, Forget, Idle
  <2> QED
    BY <1>1, <2>1, <2>4, <2>5, <2>6 DEF Base, AtWork, Saving, Copying, Idle, Ended
<1>3. CASE ~ SaveTune
  <2>1. NextFile \/ EndCommand \/ RemoveOld \/ OpenDestination \/ FillDestination
          \/ RemoveSource
    BY <1>3 DEF ContinueCommand
  <2>2. pc # "save" /\ pc \notin {Idle} \cup Ended
    BY <2>1 DEF NextFile, EndCommand, RemoveOld, OpenDestination, FillDestination,
                RemoveSource, Idle, Ended
  <2>3. IndInv /\ cmd # NoCommand /\ cmd = script[step] /\ step \in 1..Commands
        /\ Commands \in Nat
    BY <1>1, <2>2, ScriptsAssumption DEF Base, AtWork, IndInv, TypeOK
  <2>4. IndInv' /\ (Ends \/ (cmd' = cmd /\ Goes))
    BY <2>1, <2>3, ContinueInv, ContinueGoes
  <2>5. /\ Ends => pc' \in {Idle, "aborted"}
        /\ Goes => pc' \in {"next"} \cup Transferring
    BY DEF Ends, Goes, Abort, LogError, Complete, Forget
  <2>6. \/ pc' = "aborted" /\ main' = "aborted" /\ UNCHANGED <<step, errors>>
        \/ pc' \notin {Idle, "aborted"} /\ UNCHANGED <<main, step, errors>>
        \/ pc' = Idle /\ main' = main /\ step' = step + 1 /\ errors' \in Nat
    BY <1>1, OutcomeSteps
  <2>7. AtWork'
    BY <1>1, <2>3, <2>4, <2>5, <2>6 DEF AtWork, Idle, Ended, Transferring
  <2>8. pc' # "save" /\ WellFormed(tree')
    BY <2>4, <2>5 DEF Idle, Transferring, IndInv
  <2> QED
    BY <1>1, <2>3, <2>4, <2>6, <2>7, <2>8 DEF Base, Saving, Copying
<1> QED
  BY <1>2, <1>3

\* So do the archive, the pack and the end of the process.
LEMMA OtherBase ==
    ASSUME Base, Archive \/ FillCopy \/ DropScript \/ UnpackUpdate \/ KillProcess
    PROVE  Base'
<1>1. /\ script' = script /\ resumed' = resumed /\ expected' = expected
      /\ step' = step /\ errors' = errors /\ WellFormed(tree)
  BY DEF Archive, FillCopy, DropScript, UnpackUpdate, KillProcess, session, Base
<1>2. ASSUME WellFormed(tree'), UNCHANGED <<pc, cmd, job, logged, object>>,
             main \in {"idle", "archive", "copying", "removeScript"}
      PROVE  (pc # "save" => IndInv') /\ Saving'
  <2>1. pc \in {Idle} \cup Ended
    BY <1>2 DEF Base, AtWork
  <2> QED
    BY <1>2, <2>1 DEF Base, IndInv, TypeOK, SourceOutlivesCopy, Saving, Idle, Ended
<1>3. CASE Archive
  <2>1. UNCHANGED <<pc, cmd, job, logged, object>> /\ main = "archive"
        /\ main' \in {"copying", "aborted"}
    BY <1>3 DEF Archive, session
  <2>2. CASE UNCHANGED tree /\ main' = "aborted"
    BY <1>1, <1>2, <2>1, <2>2 DEF Base, AtWork, Copying, Fresh, Idle, Ended
  <2>3. CASE ~ (UNCHANGED tree /\ main' = "aborted")
    <3>1. /\ IsFile(tree, ScriptPath) /\ CanCreate(tree, ArchiveDir, LastName(ScriptPath))
          /\ tree' = With(tree, ArchivePath, Partial) /\ main' = "copying"
      BY <1>3, <2>3 DEF Archive
    <3>2. WellFormed(tree')
      BY <1>1, <3>1, Paths, CreateWellFormed DEF ArchivePath
    <3>3. ArchivePath \notin DOMAIN tree /\ ArchivePath # ScriptPath /\ ArchivePath # ArchiveDir
      BY <3>1, Paths, PackAssumption, AppendParent
         DEF CanCreate, ArchivePath, IsFile, IsDirectory, Exists
    <3>4. Copying'
      BY <3>1, <3>3 DEF Copying, CanCreate, With, IsFile, IsDirectory, Exists
    <3> QED
      BY <1>1, <1>2, <2>1, <3>1, <3>2, <3>4 DEF Base, AtWork, Fresh, Idle, Ended
  <2> QED
    BY <2>2, <2>3
<1>4. CASE FillCopy
  <2>1. UNCHANGED <<pc, cmd, job, logged, object>> /\ main = "copying" /\ main' = "removeScript"
        /\ tree' = With(tree, ArchivePath, tree[ScriptPath])
    BY <1>4 DEF FillCopy, session
  <2>2. /\ IsFile(tree, ScriptPath) /\ ArchivePath # ScriptPath
        /\ IsDirectory(tree, ArchiveDir) /\ tree[ArchivePath] = Partial
    BY <2>1 DEF Base, Copying
  <2>3. tree[ScriptPath] \in Tune \cup {Partial, Directory}
    BY <1>1, <2>2 DEF WellFormed, IsFile
  <2>4. WellFormed(tree')
    BY <1>1, <2>1, <2>2, <2>3, Paths, WithWellFormed, KindAssumption
       DEF ArchivePath, IsDirectory
  <2>5. IsFile(tree', ScriptPath)
    BY <2>1, <2>2 DEF With, IsFile
  <2> QED
    BY <1>1, <1>2, <2>1, <2>2, <2>4, <2>5 DEF Base, AtWork, Copying, Fresh, Idle, Ended
<1>5. CASE DropScript
  <2>1. UNCHANGED <<pc, cmd, job, logged, object>> /\ main = "removeScript"
        /\ main' = "removeErrors" /\ tree' = Without(tree, ScriptPath)
    BY <1>5 DEF DropScript, session
  <2>2. WellFormed(tree')
    BY <1>1, <2>1, WithoutWellFormed DEF Base, Copying, RemoveThrows, IsFile, IsDirectory
  <2> QED
    BY <1>1, <1>2, <2>1, <2>2 DEF Base, AtWork, Copying, Fresh, Idle, Ended
<1>6. CASE UnpackUpdate
  <2>1. UNCHANGED <<pc, cmd, job, logged, object>> /\ main = "idle" /\ main' = main
        /\ ~ Exists(tree, ScriptPath)
        /\ tree' = [p \in DOMAIN tree \cup DOMAIN Pack |->
                      IF p \in DOMAIN Pack THEN Pack[p] ELSE tree[p]]
    BY <1>6 DEF UnpackUpdate, session
  <2>2. tree = Original
    BY <2>1, Paths DEF Base, Fresh, Exists
  <2>3. tree' = Start
    BY <2>1, <2>2 DEF Start
  <2>4. WellFormed(tree')
    BY <2>3, PackAssumption
  <2> QED
    BY <1>1, <1>2, <2>1, <2>3, <2>4 DEF Base, AtWork, Copying, Idle, Ended
<1>7. CASE KillProcess
  <2>1. /\ tree' = tree /\ main' = "killed" /\ Forget("killed") /\ logged' = FALSE
        /\ main \notin {"idle", "exit0", "exit1", "aborted", "trapped", "killed"}
    BY <1>7 DEF KillProcess, Run!Stopped
  <2>2. IndInv'
    BY <1>1, <2>1, ForgetType DEF IndInv, SourceOutlivesCopy, Ended, Transferring
  <2> QED
    BY <1>1, <2>1, <2>2 DEF Base, AtWork, Saving, Copying, Fresh, Forget, Idle, Ended
<1> QED
  BY <1>3, <1>4, <1>5, <1>6, <1>7

\* Every step keeps it.
LEMMA BaseNext == Base /\ [SessionNext]_all => Base'
<1> SUFFICES ASSUME Base, [SessionNext]_all PROVE Base'
  OBVIOUS
<1>1. CASE UNCHANGED all
  BY <1>1 DEF all, files, session, Base, IndInv, TypeOK, WellFormed, SourceOutlivesCopy,
     IsFile, IsDirectory, Exists, Destination, AtWork, Saving, Copying, Fresh
<1>2. CASE SessionNext
  BY <1>2, MainBase, BeginBase, ContinueBase, OtherBase DEF SessionNext, Work
<1> QED
  BY <1>1, <1>2

\* What holds of every session.
LEMMA SessionBase == SessionSpec => []Base
<1> QED
  BY BaseInit, BaseNext, PTL DEF SessionSpec

-----------------------------------------------------------------------------
(* What the commands of a careful script do with exactly which entries.    *)

\* The collection has no entries but the known ones, and no other directories.
Contained ==
    /\ DOMAIN tree \subseteq Entries
    /\ \A p \in DOMAIN tree : tree[p] = Directory => p \in Folders

\* A command at work is on its way from what its source line names to what its
\* destination line names.
Aimed ==
    /\ pc = "save" => Destination = script[step].path.names
    /\ pc \in {"next"} \cup Transferring =>
         IF job.folder = NoPath THEN job.todo = {}
         ELSE /\ job.folder = cmd.src.names /\ job.dir = cmd.dst.names /\ cmd.dst.slash
              /\ \A n \in job.todo : Append(job.folder, n) \in Entries
    /\ pc \in Transferring =>
         /\ job.source = IF job.folder = NoPath THEN cmd.src.names
                         ELSE Append(job.folder, job.name)
         /\ job.source \in Entries /\ From(cmd, job.source)
         /\ job.name \notin job.todo
         /\ \/ Destination = To(cmd, job.source) /\ job.old \in {NoPath, Destination}
            \/ Astray

\* The lines of a careful script.
LEMMA CarefulLines ==
    ASSUME Careful, script \in Scripts, NEW i \in 1..Commands
    PROVE  /\ SpelledOneWay
           /\ script[i].op \in {"MOVE", "REPLACE"} =>
                /\ script[i].src.names \in Entries /\ script[i].dst.names \in Entries
                /\ \A p \in Entries : From(script[i], p) => To(script[i], p) \in Entries
                /\ script[i].dst.slash => script[i].dst.names \in Folders
                /\ ~ script[i].dst.slash => script[i].dst.names \notin Folders
           /\ script[i].op \notin {"MOVE", "REPLACE"} => script[i].path.names \in Entries
           /\ script[i].op = "MKDIR" => script[i].path.names \in Folders
BY EntriesAssumption DEF Careful, Folders

\* DELETE removes the entry it names, or logs, or throws.
LEMMA DeleteExact ==
    ASSUME SpelledOneWay, WellFormed(tree), DOMAIN tree \subseteq Entries,
           NEW command, command.path.names \in Entries, Delete(command)
    PROVE  \/ (Abort \/ LogError) /\ tree' = tree
           \/ /\ Complete
              /\ command.path.names \in DOMAIN tree
              /\ ~ RemoveThrows(tree, command.path.names)
              /\ tree' = Without(tree, command.path.names)
<1> DEFINE at == Resolve(tree, command.path.names)
<1>1. /\ at.status \in {"found", "missing", "throws"}
      /\ at.status = "found" <=> command.path.names \in DOMAIN tree
      /\ at.path = IF command.path.names \in DOMAIN tree THEN command.path.names ELSE NoPath
  BY ExactStatus
<1> HIDE DEF at
<1>2. /\ at.status = "throws" => Abort /\ UNCHANGED tree
      /\ at.status = "missing" => LogError /\ UNCHANGED tree
      /\ at.status = "found" => RemovePath(at.path)
  BY DEF Delete, at
<1> QED
  BY <1>1, <1>2 DEF RemovePath, Exists

\* MKDIR makes the directory it names, finds it made, logs, or throws.
LEMMA MakeDirectoryExact ==
    ASSUME SpelledOneWay, WellFormed(tree), DOMAIN tree \subseteq Entries,
           NEW command, command.path.names \in Entries, MakeDirectory(command)
    PROVE  \/ (Abort \/ LogError) /\ tree' = tree
           \/ Complete /\ IsDirectory(tree, command.path.names) /\ tree' = tree
           \/ /\ Complete
              /\ command.path.names # Root /\ command.path.names \notin DOMAIN tree
              /\ IsDirectory(tree, Parent(command.path.names))
              /\ tree' = With(tree, command.path.names, Directory)
<1> DEFINE names == command.path.names
           made == MakeDir(tree, names)
<1>1. \/ made.status \in {"logged", "throws"} /\ made.tree = tree
      \/ made.status = "made" /\ IsDirectory(tree, names) /\ made.tree = tree
      \/ /\ made.status = "made"
         /\ names # Root /\ names \notin DOMAIN tree /\ IsDirectory(tree, Parent(names))
         /\ made.tree = With(tree, names, Directory)
  BY ExactMakeDir
<1> HIDE DEF made
<1>2. /\ tree' = made.tree
      /\ made.status = "throws" => Abort
      /\ made.status = "logged" => LogError
      /\ made.status = "made" => Complete
  BY <1>1 DEF MakeDirectory, made
<1> QED
  BY <1>1, <1>2

\* A sidtune command truncates the file it names, or logs, or throws.
LEMMA EditExact ==
    ASSUME SpelledOneWay, WellFormed(tree), DOMAIN tree \subseteq Entries,
           NEW command \in EditCommand, command.path.names \in Entries, Edit(command)
    PROVE  \/ (Abort \/ LogError) /\ UNCHANGED <<tree, object>>
           \/ /\ IsFile(tree, command.path.names)
              /\ tree[command.path.names] \in DOMAIN Edited
              /\ object' = tree[command.path.names]
              /\ tree' = With(tree, command.path.names, Partial)
              /\ pc' = "save" /\ UNCHANGED <<cmd, logged>>
              /\ Destination' = command.path.names
<1>1. CASE (Abort \/ LogError) /\ UNCHANGED <<tree, object>>
  BY <1>1
<1>2. CASE ~ ((Abort \/ LogError) /\ UNCHANGED <<tree, object>>)
  <2>1. PICK p \in Path :
          /\ Resolve(tree, command.path.names) = Found(p)
          /\ IsFile(tree, p)
          /\ tree[p] \in DOMAIN Edited /\ object' = tree[p]
          /\ tree' = With(tree, p, Partial)
          /\ pc' = "save" /\ UNCHANGED <<cmd, logged>>
          /\ Destination' = p
    BY <1>2, EditSteps
  <2>2. p = command.path.names
    BY <2>1, ExactLookup DEF Found, Missing, Throws
  <2> QED
    BY <2>1, <2>2
<1> QED
  BY <1>1, <1>2

\* The next file of a directory is sent to the directory of the destination line.
LEMMA NextFileExact ==
    ASSUME SpelledOneWay, IndInv, DOMAIN tree \subseteq Entries, Aimed,
           \A p \in Entries : From(cmd, p) => To(cmd, p) \in Entries,
           NextFile
    PROVE  /\ tree' = tree /\ job.folder # NoPath
           /\ \/ Abort
              \/ /\ cmd' = cmd /\ logged' = FALSE
                 /\ job'.folder = job.folder /\ job'.dir = job.dir
                 /\ job'.name \in job.todo /\ job'.todo = job.todo \ {job'.name}
                 /\ job'.source = Append(job.folder, job'.name)
                 /\ job'.source \in Entries /\ From(cmd, job'.source)
                 /\ Destination' = To(cmd, job'.source)
                 /\ job'.old \in {NoPath, Destination'}
                 /\ pc' \in {"removeOld", "open"} /\ (pc' = "open" <=> job'.old = NoPath)
<1> DEFINE file(name) == [job EXCEPT !.source = Append(job.folder, name), !.name = name,
                                     !.todo = @ \ {name}]
           previous(name) == IF cmd.op = "REPLACE"
                             THEN Resolve(tree, ReplaceFilename(cmd.dst, name))
                             ELSE Missing
           old(name) == IF cmd.op = "REPLACE" THEN previous(name).path ELSE NoPath
           sent(name) == [file(name) EXCEPT !.old = old(name)]
<1>1. /\ pc = "next" /\ tree' = tree
      /\ \E name \in job.todo : Transfer(cmd, file(name), previous(name))
  BY DEF NextFile
<1>2. PICK name \in job.todo : Transfer(cmd, file(name), previous(name))
  BY <1>1
<1>3. /\ job.folder # NoPath
      /\ job.folder = cmd.src.names /\ job.dir = cmd.dst.names /\ cmd.dst.slash
      /\ Append(job.folder, name) \in Entries
      /\ job \in Job /\ job.folder \in Path /\ name \in Name
  BY <1>1, <1>2 DEF Aimed, IndInv, TypeOK, Job
<1>4. From(cmd, Append(job.folder, name))
  BY <1>3, AppendParent DEF From
<1>5. To(cmd, Append(job.folder, name)) = Append(job.dir, name)
  BY <1>3 DEF To, LastName, Path
<1>6. Append(job.dir, name) \in Entries /\ ReplaceFilename(cmd.dst, name) = Append(job.dir, name)
  BY <1>3, <1>4, <1>5 DEF ReplaceFilename
<1>7. old(name) \in {NoPath, Append(job.dir, name)}
  BY <1>6, ExactStatus DEF IndInv
<1>8. CASE Abort
  BY <1>1, <1>3, <1>8
<1>9. CASE ~ Abort
  <2>1. /\ sent(name).folder = job.folder /\ sent(name).dir = job.dir
        /\ sent(name).name = name /\ sent(name).todo = job.todo \ {name}
        /\ sent(name).source = Append(job.folder, name) /\ sent(name).old = old(name)
    BY <1>3 DEF Job
  <2> HIDE DEF file, previous
  <2>2. cmd' = cmd /\ logged' = FALSE /\ job' = sent(name)
        /\ pc' = (IF job'.old = NoPath THEN "open" ELSE "removeOld")
    BY <1>2, <1>9 DEF Transfer
  <2> HIDE DEF sent, old
  <2>3. Destination' = Append(job.dir, name)
    BY <2>1, <2>2 DEF Destination
  <2> QED
    BY <1>1, <1>2, <1>3, <1>4, <1>5, <1>7, <2>1, <2>2, <2>3
<1> QED
  BY <1>8, <1>9

\* A step leaves alone what the command at work is not about.
Spares == \A p \in DOMAIN tree : ~ About(script[step], p) => p \in DOMAIN tree' /\ tree'[p] = tree[p]

\* A tree with a directory of the script more is contained.
LEMMA WithContained ==
    ASSUME Contained, NEW p \in Entries, NEW node, tree' = With(tree, p, node),
           node = Directory => p \in Folders, script' = script
    PROVE  Contained'
BY DEF Contained, With, Folders

\* So is a tree with an entry less.
LEMMA WithoutContained ==
    ASSUME Contained, NEW p, tree' = Without(tree, p), script' = script
    PROVE  Contained'
BY DEF Contained, Without, Folders

\* And the same tree.
LEMMA SameContained == Contained /\ tree' = tree /\ script' = script => Contained'
BY DEF Contained, Folders

\* A command that has ended is on its way nowhere.
LEMMA EndedAimed == pc' \in {Idle} \cup Ended => Aimed'
BY DEF Aimed, Idle, Ended, Transferring

\* A command begins on its way and on its own entries.
LEMMA BeginSafe ==
    ASSUME Base, Careful, Contained, BeginCommand
    PROVE  Contained' /\ Aimed' /\ Spares
<1> DEFINE command == script[step]
<1>1. /\ step \in 1..Commands /\ pc = Idle /\ script' = script /\ script \in Scripts
      /\ WellFormed(tree) /\ DOMAIN tree \subseteq Entries /\ Outcome /\ errors \in Nat
  BY ScriptsAssumption DEF BeginCommand, Base, AtWork, Contained, Idle, Ended
<1>2. /\ command.op \in {"MOVE", "REPLACE", "DELETE", "MKDIR", "EDIT"}
      /\ command.op \in {"MOVE", "REPLACE"} => command \in MoveCommand
      /\ command.op = "EDIT" => command \in EditCommand
  BY <1>1, ScriptCommand
<1>3. /\ SpelledOneWay
      /\ command.op \in {"MOVE", "REPLACE"} =>
           /\ command.src.names \in Entries /\ command.dst.names \in Entries
           /\ \A p \in Entries : From(command, p) => To(command, p) \in Entries
           /\ command.dst.slash => command.dst.names \in Folders
           /\ ~ command.dst.slash => command.dst.names \notin Folders
      /\ command.op \notin {"MOVE", "REPLACE"} => command.path.names \in Entries
      /\ command.op = "MKDIR" => command.path.names \in Folders
  BY <1>1, CarefulLines
<1>4. Ends => pc' \in {Idle} \cup Ended
  BY DEF Ends, Abort, LogError, Complete, Forget, Ended
<1>5. tree' = tree => Spares
  BY DEF Spares
<1>6. ASSUME NEW p, NEW node, tree' = With(tree, p, node), p \in DOMAIN tree => About(command, p)
      PROVE  Spares
  BY <1>6 DEF Spares, With
<1>7. CASE command.op \in {"MOVE", "REPLACE"}
  <2>1. Begin(command) /\ command \in MoveCommand
    BY <1>2, <1>7 DEF BeginCommand
  <2>2. ~ command.dst.slash => ~ IsDirectory(tree, command.dst.names)
    BY <1>3, <1>7 DEF Contained, IsDirectory
  <2>3. /\ \/ tree' = tree
           \/ /\ command.dst.slash /\ command.dst.names # Root
              /\ command.dst.names \notin DOMAIN tree
              /\ IsDirectory(tree, Parent(command.dst.names))
              /\ tree' = With(tree, command.dst.names, Directory)
        /\ Abort \/ LogError \/ TurnsToFolder(command) \/ TurnsToFile(command)
    BY <1>1, <1>3, <1>7, <2>1, <2>2, BeginExact
  <2>4. Contained' /\ Spares
    BY <1>1, <1>3, <1>5, <1>6, <1>7, <2>3, WithContained, SameContained
  <2>5. CASE Abort \/ LogError
    BY <1>4, <2>4, <2>5, EndedAimed DEF Ends
  <2>6. CASE TurnsToFolder(command)
    <3>1. \A n \in job'.todo : Append(job'.folder, n) \in Entries
      BY <2>4, <2>6 DEF TurnsToFolder, FileNames, IsFile, Contained
    <3>2. pc' = "next" /\ job'.folder = cmd'.src.names /\ job'.dir = cmd'.dst.names
          /\ cmd'.dst.slash
      BY <2>6 DEF TurnsToFolder
    <3>3. command.src.names # NoPath
      BY <1>3, <1>7, EntriesAssumption, NoPathIsNoPath
    <3>4. job'.folder # NoPath
      BY <2>6, <3>3 DEF TurnsToFolder
    <3> QED
      BY <2>4, <3>1, <3>2, <3>4 DEF Aimed, Transferring
  <2>7. CASE TurnsToFile(command)
    <3>1. command.src.names # Root /\ From(command, command.src.names)
      BY <1>1, <2>7 DEF TurnsToFile, IsFile, WellFormed, IsDirectory, From
    <3>2. Aimed'
      BY <1>3, <1>7, <2>7, <3>1 DEF TurnsToFile, Aimed, Transferring
    <3> QED
      BY <2>4, <3>2
  <2> QED
    BY <2>3, <2>5, <2>6, <2>7
<1>8. CASE command.op = "DELETE"
  <2>1. \/ (Abort \/ LogError) /\ tree' = tree
        \/ Complete /\ tree' = Without(tree, command.path.names)
    BY <1>1, <1>3, <1>8, DeleteExact DEF BeginCommand
  <2>2. About(command, command.path.names)
    BY <1>8 DEF About
  <2>3. Spares
    BY <1>5, <2>1, <2>2 DEF Spares, Without
  <2> QED
    BY <1>1, <1>4, <2>1, <2>3, WithoutContained, SameContained, EndedAimed DEF Ends
<1>9. CASE command.op = "MKDIR"
  <2>1. \/ (Abort \/ LogError \/ Complete) /\ tree' = tree
        \/ Complete /\ tree' = With(tree, command.path.names, Directory)
    BY <1>1, <1>3, <1>9, MakeDirectoryExact DEF BeginCommand
  <2>2. About(command, command.path.names)
    BY <1>9 DEF About
  <2> QED
    BY <1>1, <1>3, <1>4, <1>5, <1>6, <1>9, <2>1, <2>2, WithContained, SameContained, EndedAimed
       DEF Ends
<1>10. CASE command.op = "EDIT"
  <2>1. \/ (Abort \/ LogError) /\ tree' = tree
        \/ /\ tree' = With(tree, command.path.names, Partial)
           /\ pc' = "save" /\ Destination' = command.path.names
    BY <1>1, <1>2, <1>3, <1>10, EditExact DEF BeginCommand
  <2>2. About(command, command.path.names)
    BY <1>10 DEF About
  <2>3. pc' = "save" => step' = step
    BY <1>1, OutcomeSteps DEF Idle
  <2>4. pc' = "save" => Aimed' \/ Destination' # command.path.names
    BY <1>1, <2>3 DEF Aimed, Transferring
  <2> QED
    BY <1>1, <1>3, <1>4, <1>5, <1>6, <1>10, <2>1, <2>2, <2>4, WithContained, SameContained,
       EndedAimed, KindAssumption DEF Ends
<1> QED
  BY <1>2, <1>7, <1>8, <1>9, <1>10

\* A command at work stays on its way and on its own entries.
LEMMA ContinueSafe ==
    ASSUME Base, Careful, Contained, Aimed, ContinueCommand
    PROVE  Contained' /\ Aimed' /\ Spares
<1>1. /\ script' = script /\ script \in Scripts /\ WellFormed(tree) /\ DOMAIN tree \subseteq Entries
      /\ main = "commands" /\ Outcome /\ errors \in Nat
  BY DEF ContinueCommand, Base, Contained
<1>2. Ends => pc' \in {Idle} \cup Ended
  BY DEF Ends, Abort, LogError, Complete, Forget, Ended
<1>3. tree' = tree => Spares
  BY DEF Spares
<1>4. CASE SaveTune
  <2>1. /\ pc = "save" /\ Destination = script[step].path.names /\ Destination \in DOMAIN tree
        /\ object \in DOMAIN Edited /\ script[step].op = "EDIT"
        /\ tree' = With(tree, Destination, Edited[object]) /\ Complete
    BY <1>4 DEF SaveTune, Aimed, Base, Saving, Exists
  <2>2. Edited[object] # Directory
    BY <2>1, EditedAssumption, KindAssumption
  <2>3. Spares
    BY <2>1 DEF Spares, About, With
  <2> QED
    BY <1>1, <1>2, <2>1, <2>2, <2>3, WithContained, EndedAimed DEF Ends
<1>5. CASE ~ SaveTune
  <2>1. NextFile \/ EndCommand \/ RemoveOld \/ OpenDestination \/ FillDestination
          \/ RemoveSource
    BY <1>5 DEF ContinueCommand
  <2>2. pc # "save" /\ pc \notin {Idle} \cup Ended
    BY <2>1 DEF NextFile, EndCommand, RemoveOld, OpenDestination, FillDestination,
                RemoveSource, Idle, Ended
  <2>3. IndInv /\ cmd = script[step] /\ step \in 1..Commands /\ cmd # NoCommand
    BY <1>1, <2>2, ScriptsAssumption DEF Base, AtWork, IndInv, TypeOK
  <2>4. cmd.op \in {"MOVE", "REPLACE"} /\ cmd \in MoveCommand
    BY <2>3 DEF IndInv, TypeOK, MoveCommand
  <2>5. /\ SpelledOneWay
        /\ cmd.src.names \in Entries /\ cmd.dst.names \in Entries
        /\ \A p \in Entries : From(cmd, p) => To(cmd, p) \in Entries
    BY <1>1, <2>3, <2>4, CarefulLines
  <2>6. \A p \in Entries : From(cmd, p) => About(cmd, p) /\ About(cmd, To(cmd, p))
    BY <2>4 DEF About
  <2>7. About(cmd, cmd.dst.names)
    BY <2>4 DEF About
  <2>8. CASE Ends /\ tree' = tree
    BY <1>1, <1>2, <1>3, <2>8, SameContained, EndedAimed
  <2>9. CASE NextFile
    <3>1. /\ tree' = tree /\ job.folder # NoPath
          /\ \/ Abort
             \/ /\ cmd' = cmd
                /\ job'.folder = job.folder /\ job'.dir = job.dir
                /\ job'.name \in job.todo /\ job'.todo = job.todo \ {job'.name}
                /\ job'.source = Append(job.folder, job'.name)
                /\ job'.source \in Entries /\ From(cmd, job'.source)
                /\ Destination' = To(cmd, job'.source)
                /\ job'.old \in {NoPath, Destination'}
                /\ pc' \in {"removeOld", "open"}
      BY <2>3, <2>5, <2>9, NextFileExact, <1>1
    <3>2. pc = "next"
      BY <2>9 DEF NextFile
    <3>3. CASE ~ Abort
      <4>1. Aimed'
        BY <3>1, <3>2, <3>3 DEF Aimed, Transferring
      <4> QED
        BY <1>1, <1>3, <3>1, <4>1, SameContained
    <3> QED
      BY <2>8, <3>1, <3>3 DEF Ends
  <2>10. CASE EndCommand
    BY <2>8, <2>10 DEF EndCommand, Ends
  <2>11. pc \in Transferring =>
           /\ job.source = IF job.folder = NoPath THEN cmd.src.names
                           ELSE Append(job.folder, job.name)
           /\ job.source \in Entries /\ From(cmd, job.source)
           /\ job.name \notin job.todo
           /\ \/ Destination = To(cmd, job.source) /\ job.old \in {NoPath, Destination}
              \/ Astray
    BY DEF Aimed
  <2>12. CASE RemoveOld /\ ~ Abort
    <3>1. pc = "removeOld" /\ pc' = "open" /\ UNCHANGED <<cmd, job, logged>>
          /\ tree' = Without(tree, job.old)
      BY <2>12 DEF RemoveOld
    <3>2. job.old \in {NoPath, To(cmd, job.source), cmd.dst.names}
      BY <2>11, <3>1 DEF Astray, Transferring
    <3>3. NoPath \notin DOMAIN tree
      BY <1>1, NoPathIsNoPath DEF WellFormed
    <3>4. Spares
      BY <2>3, <2>6, <2>7, <2>11, <3>1, <3>2, <3>3 DEF Spares, Without, Transferring
    <3>5. Astray => Astray'
      BY <3>1 DEF Astray, IsDirectory, Without
    <3>6. Aimed'
      BY <2>11, <3>1, <3>5 DEF Aimed, Transferring, Destination
    <3> QED
      BY <1>1, <3>1, <3>4, <3>6, WithoutContained
  <2>13. CASE OpenDestination /\ ~ Abort
    <3>1. pc = "open" /\ pc' = "fill" /\ UNCHANGED <<cmd, job, logged>>
          /\ CanCreate(tree, job.dir, job.name) /\ tree' = With(tree, Destination, Partial)
      BY <2>13 DEF OpenDestination
    <3>2. ~ Astray
      BY <3>1 DEF Astray, CanCreate
    <3>3. Destination = To(cmd, job.source) /\ job.old \in {NoPath, Destination}
          /\ Destination \in Entries
      BY <2>5, <2>11, <3>1, <3>2 DEF Transferring
    <3>4. Spares
      BY <3>1 DEF Spares, With, CanCreate, Destination, Exists
    <3>5. Aimed'
      BY <2>11, <3>1, <3>3 DEF Aimed, Transferring, Destination
    <3> QED
      BY <1>1, <3>1, <3>3, <3>4, <3>5, WithContained, KindAssumption
  <2>14. CASE FillDestination
    <3>1. pc = "fill" /\ pc' = "removeSource" /\ UNCHANGED <<cmd, job, logged>>
          /\ tree' = With(tree, Destination, tree[job.source])
      BY <2>14 DEF FillDestination
    <3>2. ~ Astray
      BY <3>1 DEF Astray
    <3>3. Destination = To(cmd, job.source) /\ job.old \in {NoPath, Destination}
          /\ Destination \in Entries
      BY <2>5, <2>11, <3>1, <3>2 DEF Transferring
    <3>4. tree[job.source] # Directory
      BY <2>3, <3>1 DEF IndInv, SourceOutlivesCopy, IsFile
    <3>5. Spares
      BY <2>3, <2>6, <2>11, <3>1, <3>3 DEF Spares, With, Transferring
    <3>6. Aimed'
      BY <2>11, <3>1, <3>3 DEF Aimed, Transferring, Destination
    <3> QED
      BY <1>1, <3>1, <3>3, <3>4, <3>5, <3>6, WithContained
  <2>15. CASE RemoveSource
    <3>1. pc = "removeSource" /\ pc' = "next" /\ UNCHANGED <<cmd, job, logged>>
          /\ tree' = Without(tree, job.source)
      BY <2>15 DEF RemoveSource
    <3>2. Spares
      BY <2>3, <2>6, <2>11, <3>1 DEF Spares, Without, Transferring
    <3>3. Aimed'
      BY <3>1 DEF Aimed, Transferring
    <3> QED
      BY <1>1, <3>1, <3>2, <3>3, WithoutContained
  <2>16. Abort /\ ~ NextFile => tree' = tree
    BY <2>1, <2>2 DEF RemoveOld, OpenDestination, FillDestination, RemoveSource, EndCommand,
       Abort, Forget
  <2> QED
    BY <2>1, <2>8, <2>9, <2>10, <2>12, <2>13, <2>14, <2>15, <2>16 DEF Ends
<1> QED
  BY <1>4, <1>5

\* Before and after the commands nothing is on its way.
LEMMA OtherSafe ==
    ASSUME Base, Contained, Aimed, [SessionNext]_all, ~ BeginCommand, ~ ContinueCommand
    PROVE  Contained' /\ Aimed'
<1>1. CASE UNCHANGED all
  BY <1>1 DEF all, files, session, Contained, Folders, Aimed, Destination, Astray, IsDirectory
<1>2. CASE Check
  <2>1. UNCHANGED <<files, session, step>>
    BY <1>2, CheckSteps
  <2> QED
    BY <2>1 DEF files, session, Contained, Folders, Aimed, Destination, Astray, IsDirectory
<1>3. CASE OpenErrors \/ DropErrors
  <2>1. UNCHANGED <<files, session>> /\ main \in {"open", "removeErrors"}
    BY <1>3 DEF OpenErrors, DropErrors
  <2>2. pc' \in {Idle} \cup Ended
    BY <2>1 DEF Base, AtWork, files
  <2> QED
    BY <2>1, <2>2, EndedAimed, SameContained DEF files, session
<1>4. CASE StartSession \/ KillProcess
  <2>1. UNCHANGED <<tree, script>> /\ pc' \in {Idle} \cup Ended
    BY <1>4, StartSteps DEF KillProcess, Forget, Ended
  <2> QED
    BY <2>1, EndedAimed, SameContained
<1>5. CASE UnpackUpdate
  <2>1. /\ tree' = [p \in DOMAIN tree \cup DOMAIN Pack |->
                      IF p \in DOMAIN Pack THEN Pack[p] ELSE tree[p]]
        /\ UNCHANGED <<pc, script>> /\ main = "idle" /\ ~ Exists(tree, ScriptPath)
    BY <1>5 DEF UnpackUpdate, session
  <2>2. tree = Original
    BY <2>1, Paths DEF Base, Fresh, Exists
  <2>3. tree' = Start
    BY <2>1, <2>2 DEF Start
  <2>4. Contained'
    BY <2>1, <2>3, EntriesAssumption DEF Contained, Folders
  <2> QED
    BY <2>1, <2>4, EndedAimed DEF Base, AtWork
<1>6. CASE Archive \/ FillCopy \/ DropScript
  <2>1. UNCHANGED <<pc, script>> /\ main \in {"archive", "copying", "removeScript"}
        /\ \/ tree' = tree
           \/ tree' = With(tree, ArchivePath, Partial)
           \/ tree' = With(tree, ArchivePath, tree[ScriptPath]) /\ main = "copying"
           \/ tree' = Without(tree, ScriptPath)
    BY <1>6 DEF Archive, FillCopy, DropScript, session
  <2>2. main = "copying" => tree[ScriptPath] # Directory
    BY DEF Base, Copying, IsFile
  <2>3. Contained'
    BY <2>1, <2>2, WithContained, WithoutContained, SameContained, EntriesAssumption,
       KindAssumption
  <2> QED
    BY <2>1, <2>3, EndedAimed DEF Base, AtWork
<1> QED
  BY <1>1, <1>2, <1>3, <1>4, <1>5, <1>6 DEF SessionNext, Work

\* A session of a careful script.
Kept == Base /\ Careful /\ Contained /\ Aimed

LEMMA KeptInit == SessionInit /\ Careful => Kept
<1> SUFFICES ASSUME SessionInit, Careful PROVE Kept
  OBVIOUS
<1>1. tree = Original /\ pc = Idle
  BY DEF SessionInit
<1>2. DOMAIN Original \subseteq DOMAIN Start
  BY DEF Start
<1>3. \A p \in DOMAIN Original : Original[p] = Directory => Start[p] = Directory
  BY PackAssumption DEF IsDirectory
<1>4. Contained
  BY <1>1, <1>2, <1>3, EntriesAssumption DEF Contained, Folders
<1>5. Aimed
  BY <1>1 DEF Aimed, Idle, Transferring
<1> QED
  BY <1>4, <1>5, BaseInit DEF Kept

LEMMA ScriptStays == [SessionNext]_all => script' = script /\ expected' = expected
<1> SUFFICES ASSUME [SessionNext]_all PROVE script' = script /\ expected' = expected
  OBVIOUS
<1>1. Check => UNCHANGED session
  BY CheckSteps
<1>2. StartSession => UNCHANGED <<script, expected>>
  BY StartSteps
<1> QED
  BY <1>1, <1>2 DEF SessionNext, Work, OpenErrors, BeginCommand, ContinueCommand, Archive,
     FillCopy, DropScript, DropErrors, UnpackUpdate, KillProcess, all, session

LEMMA KeptNext == Kept /\ [SessionNext]_all => Kept'
<1> SUFFICES ASSUME Kept, [SessionNext]_all PROVE Kept'
  OBVIOUS
<1>1. Base' /\ script' = script
  BY BaseNext, ScriptStays DEF Kept
<1>2. Careful'
  BY <1>1 DEF Kept, Careful, Folders
<1>3. Contained' /\ Aimed'
  BY BeginSafe, ContinueSafe, OtherSafe DEF Kept
<1> QED
  BY <1>1, <1>2, <1>3 DEF Kept

\* A path of the collection that the update is not about.
Bystander(p) ==
    p \in DOMAIN Original \ DOMAIN Pack /\ \A i \in 1..Commands : ~ About(script[i], p)

\* Bystanders are in the tree as they were; the copy of the script is none.
BystandersSafe ==
    \A p \in Path : Bystander(p) =>
      /\ p \in DOMAIN tree /\ tree[p] = Original[p]
      /\ main = "copying" => p # ArchivePath

LEMMA BystandersNext == Kept /\ BystandersSafe /\ [SessionNext]_all => BystandersSafe'
<1> SUFFICES ASSUME Kept, BystandersSafe, [SessionNext]_all, NEW p \in Path, Bystander(p)'
             PROVE  /\ p \in DOMAIN tree' /\ tree'[p] = Original[p]
                    /\ main' = "copying" => p # ArchivePath
  BY DEF BystandersSafe
<1>1. script' = script
  BY ScriptStays
<1>2. Bystander(p) /\ p \in DOMAIN tree /\ tree[p] = Original[p]
      /\ (main = "copying" => p # ArchivePath)
  BY <1>1 DEF Bystander, About, BystandersSafe
<1>3. CASE UNCHANGED <<tree, main>>
  BY <1>2, <1>3
<1>4. CASE BeginCommand \/ ContinueCommand
  <2>1. Spares /\ step \in 1..Commands /\ main = "commands"
    <3>1. CASE BeginCommand
      BY <3>1, BeginSafe, ScriptsAssumption DEF Kept, BeginCommand, Base, AtWork
    <3>2. CASE ContinueCommand
      <4>1. pc \notin {Idle} \cup Ended
        BY <3>2 DEF ContinueCommand, NextFile, EndCommand, RemoveOld, OpenDestination,
           FillDestination, RemoveSource, SaveTune, Idle, Ended
      <4> QED
        BY <3>2, <4>1, ContinueSafe, ScriptsAssumption DEF Kept, ContinueCommand, Base, AtWork
    <3> QED
      BY <1>4, <3>1, <3>2
  <2>2. ~ About(script[step], p)
    BY <1>2, <2>1 DEF Bystander
  <2>3. main' # "copying"
    BY <1>4, <2>1 DEF BeginCommand, ContinueCommand, Outcome
  <2> QED
    BY <1>2, <2>1, <2>2, <2>3 DEF Spares
<1>5. CASE Check \/ OpenErrors \/ DropErrors \/ StartSession \/ KillProcess
  <2>1. tree' = tree /\ main' # "copying"
    BY <1>5, CheckSteps, StartSteps DEF OpenErrors, DropErrors, KillProcess, files
  <2> QED
    BY <1>2, <2>1
<1>6. CASE UnpackUpdate
  BY <1>2, <1>6 DEF UnpackUpdate, Bystander
<1>7. CASE Archive
  BY <1>2, <1>7 DEF Archive, With, CanCreate, Exists, ArchivePath
<1>8. CASE FillCopy
  BY <1>2, <1>8 DEF FillCopy, With
<1>9. CASE DropScript
  <2>1. p # ScriptPath
    BY <1>2, PackAssumption DEF Bystander, Exists
  <2> QED
    BY <1>2, <1>9, <2>1 DEF DropScript, Without
<1> QED
  BY <1>3, <1>4, <1>5, <1>6, <1>7, <1>8, <1>9 DEF SessionNext, Work, all, files

\* What neither the pack nor a command is about stays as it is at every moment
\* of every session, through errors, exceptions, kills and reruns, whatever the
\* collection, the pack and the (careful) script are.
THEOREM SessionSparesBystanders == SessionSpec => [](Careful => BystandersUntouched)
<1>1. SessionInit /\ Careful => Kept /\ BystandersSafe
  BY KeptInit DEF SessionInit, BystandersSafe, Bystander
<1>2. Kept /\ BystandersSafe /\ [SessionNext]_all => (Kept /\ BystandersSafe)'
  BY KeptNext, BystandersNext
<1>3. Kept /\ BystandersSafe => BystandersUntouched
  <2>1. DOMAIN Original \subseteq Path
    BY PackAssumption DEF WellFormed
  <2> QED
    BY <2>1 DEF BystandersSafe, Bystander, BystandersUntouched, Exists
<1>4. ~ Careful /\ [SessionNext]_all => ~ Careful'
  BY ScriptStays DEF Careful, Folders
<1>5. (Careful => Kept /\ BystandersSafe) /\ [SessionNext]_all
        => (Careful => Kept /\ BystandersSafe)'
  BY <1>2, <1>4
<1>6. SessionInit => (Careful => Kept /\ BystandersSafe)
  BY <1>1
<1>7. (Careful => Kept /\ BystandersSafe) => (Careful => BystandersUntouched)
  BY <1>3
<1> QED
  BY <1>5, <1>6, <1>7, PTL DEF SessionSpec

-----------------------------------------------------------------------------
(* What the documented commands make of a tree.                            *)

Unrolled(s, f, i) == IF i = 0 THEN Start ELSE Effect(f[i - 1], s[i])

LEMMA TreesExist ==
    ASSUME NEW s, NEW n \in Nat
    PROVE  \E f : f = [i \in 0..n |-> Unrolled(s, f, i)]
<1> DEFINE Has(m) == \E f : f = [i \in 0..m |-> Unrolled(s, f, i)]
           Bad == {m \in Nat : ~ Has(m)}
<1>1. SUFFICES ASSUME Bad # {} PROVE FALSE
  OBVIOUS
<1>2. PICK m \in Bad : \A k \in Bad : ~ (k < m)
  BY <1>1, LeastNatural
<1>3. CASE m = 0
  <2> DEFINE f == [i \in 0..0 |-> Start]
  <2>1. f = [i \in 0..0 |-> Unrolled(s, f, i)]
    BY DEF Unrolled
  <2> QED
    BY <2>1, <1>3
<1>4. CASE m # 0
  <2>1. Has(m - 1)
    BY <1>2, <1>4
  <2>2. PICK g : g = [i \in 0..(m - 1) |-> Unrolled(s, g, i)]
    BY <2>1
  <2> DEFINE h == [i \in 0..m |-> IF i < m THEN g[i] ELSE Unrolled(s, g, m)]
  <2>3. \A i \in 0..m : h[i] = Unrolled(s, h, i)
    <3> SUFFICES ASSUME NEW i \in 0..m PROVE h[i] = Unrolled(s, h, i)
      OBVIOUS
    <3>1. m \in Nat /\ i \in Int /\ 0 <= i /\ i <= m
      OBVIOUS
    <3>2. i # 0 => h[i - 1] = g[i - 1]
      BY <3>1
    <3>3. Unrolled(s, h, i) = Unrolled(s, g, i)
      BY <3>2 DEF Unrolled
    <3>4. h[i] = Unrolled(s, g, i)
      <4>1. CASE i < m
        <5>1. i \in 0..(m - 1)
          BY <3>1, <4>1
        <5>2. g[i] = Unrolled(s, g, i)
          BY <2>2, <5>1
        <5> QED
          BY <5>2, <4>1
      <4>2. CASE i = m
        BY <4>2
      <4> QED
        BY <4>1, <4>2, <3>1
    <3> HIDE DEF h
    <3> QED
      BY <3>3, <3>4
  <2>4. h = [i \in 0..m |-> h[i]]
    OBVIOUS
  <2>5. h = [i \in 0..m |-> Unrolled(s, h, i)]
    BY <2>3, <2>4
  <2> QED
    BY <2>5
<1> QED
  BY <1>3, <1>4

\* Each command has its effect on what the ones before it have made.
LEMMA AfterSteps ==
    ASSUME NEW s
    PROVE  /\ After(s)[0] = Start
           /\ \A i \in 1..Commands : After(s)[i] = Effect(After(s)[i - 1], s[i])
<1> DEFINE t == CHOOSE f : f = [i \in 0..Commands |-> Unrolled(s, f, i)]
<1>1. Commands \in Nat
  BY ScriptsAssumption
<1>2. t = [i \in 0..Commands |-> Unrolled(s, t, i)]
  BY <1>1, TreesExist
<1>3. After(s) = [i \in 0..Commands |-> t[i]]
  BY DEF After, Unrolled
<1> HIDE DEF t
<1>4. \A i \in 0..Commands : After(s)[i] = Unrolled(s, t, i)
  BY <1>2, <1>3
<1>5. \A i \in 1..Commands : i \in 0..Commands /\ i - 1 \in 0..Commands /\ i # 0
  BY <1>1
<1>6. \A i \in 1..Commands : After(s)[i] = Effect(t[i - 1], s[i])
  BY <1>4, <1>5 DEF Unrolled
<1>7. After(s)[0] = Start
  BY <1>1, <1>4 DEF Unrolled
<1> QED
  BY <1>3, <1>5, <1>6, <1>7

\* What each entry of a tree is after some files of it have been moved.
IsMoved(u, t, moves, made) ==
    /\ DOMAIN u = (DOMAIN t \ {m[1] : m \in moves}) \cup {m[2] : m \in moves} \cup made
    /\ \A m \in moves : u[m[2]] = t[m[1]]
    /\ \A p \in DOMAIN u : (\A m \in moves : m[2] # p) =>
         u[p] = IF p \in DOMAIN t THEN t[p] ELSE Directory

LEMMA MovedAt ==
    ASSUME NEW t, NEW moves, NEW made,
           \A m, k \in moves : m[2] = k[2] => m = k
    PROVE  IsMoved(Moved(t, moves, made), t, moves, made)
<1>1. DOMAIN Moved(t, moves, made) =
        (DOMAIN t \ {m[1] : m \in moves}) \cup {m[2] : m \in moves} \cup made
  BY DEF Moved
<1>2. ASSUME NEW m \in moves PROVE Moved(t, moves, made)[m[2]] = t[m[1]]
  <2> DEFINE p == m[2]
             c == CHOOSE k \in moves : k[2] = p
  <2>1. c \in moves /\ c[2] = p
    OBVIOUS
  <2>2. c = m
    BY <2>1
  <2>3. p \in DOMAIN Moved(t, moves, made)
    BY <1>1
  <2>4. Moved(t, moves, made)[p] = t[c[1]]
    BY <2>3 DEF Moved
  <2> QED
    BY <2>2, <2>4
<1>3. ASSUME NEW p \in DOMAIN Moved(t, moves, made), \A m \in moves : m[2] # p
      PROVE  Moved(t, moves, made)[p] = IF p \in DOMAIN t THEN t[p] ELSE Directory
  BY <1>1, <1>3 DEF Moved, Exists
<1> QED
  BY <1>1, <1>2, <1>3 DEF IsMoved

\* Nothing moved: at most a directory has been made.
LEMMA MovedNone ==
    ASSUME NEW t, t = [p \in DOMAIN t |-> t[p]], NEW d
    PROVE  /\ Moved(t, {}, {}) = t
           /\ d \in DOMAIN t => Moved(t, {}, {d}) = t
           /\ d \notin DOMAIN t => Moved(t, {}, {d}) = With(t, d, Directory)
BY DEF Moved, With, Exists

\* One more file moved.
LEMMA MovedOne ==
    ASSUME NEW t, NEW moves, NEW made, NEW from, NEW to,
           \A m, k \in moves \cup {<<from, to>>} : m[2] = k[2] => m = k,
           <<from, to>> \notin moves, from \notin made, from # to,
           \A m \in moves : m[2] # from
    PROVE  Without(With(Moved(t, moves, made), to, t[from]), from)
             = Moved(t, moves \cup {<<from, to>>}, made)
<1> DEFINE more == moves \cup {<<from, to>>}
           before == Moved(t, moves, made)
           after == Moved(t, more, made)
           step1 == Without(With(before, to, t[from]), from)
<1>1. IsMoved(before, t, moves, made)
  BY MovedAt
<1>2. IsMoved(after, t, more, made)
  <2>1. \A m, k \in more : m[2] = k[2] => m = k
    OBVIOUS
  <2> HIDE DEF more
  <2> QED
    BY <2>1, MovedAt
<1>3. step1 = [p \in (DOMAIN before \cup {to}) \ {from} |-> IF p = to THEN t[from] ELSE before[p]]
  BY DEF Without, With
<1>4. after = [p \in DOMAIN after |-> after[p]]
  BY DEF Moved
<1> HIDE DEF before, after, step1
<1>5. {m[1] : m \in more} = {m[1] : m \in moves} \cup {from}
      /\ {m[2] : m \in more} = {m[2] : m \in moves} \cup {to}
  OBVIOUS
<1>6. from \notin {m[2] : m \in moves}
  OBVIOUS
<1>7. DOMAIN after = (DOMAIN before \cup {to}) \ {from}
  BY <1>1, <1>2, <1>5, <1>6 DEF IsMoved
<1>8. ASSUME NEW p \in DOMAIN after
      PROVE  after[p] = IF p = to THEN t[from] ELSE before[p]
  <2>1. CASE p = to
    <3>1. <<from, to>> \in more /\ <<from, to>>[1] = from /\ <<from, to>>[2] = to
      OBVIOUS
    <3> QED
      BY <1>2, <2>1, <3>1 DEF IsMoved
  <2>2. CASE p # to /\ \E m \in moves : m[2] = p
    BY <1>1, <1>2, <2>2 DEF IsMoved
  <2>3. CASE p # to /\ ~ \E m \in moves : m[2] = p
    <3>1. \A m \in more : m[2] # p
      BY <2>3
    <3>2. p \in DOMAIN before
      BY <1>7, <2>3
    <3> QED
      BY <1>1, <1>2, <2>3, <3>1, <3>2 DEF IsMoved
  <2> QED
    BY <2>1, <2>2, <2>3
<1> QED
  BY <1>3, <1>4, <1>7, <1>8 DEF step1, before, after

\* The files a command takes, each with where it goes.
LEMMA TransferForm ==
    ASSUME NEW t, NEW c \in MoveCommand
    PROVE  /\ ~ IsDirectory(t, c.src.names) =>
                Transfers(t, c) = {<<c.src.names, To(c, c.src.names)>>}
           /\ IsDirectory(t, c.src.names) => \A m :
                m \in Transfers(t, c) <=>
                  \E n \in FileNames(t, c.src.names) :
                    m = <<Append(c.src.names, n), To(c, Append(c.src.names, n))>>
BY DEF Transfers

LEMMA AppendLast ==
    ASSUME NEW d \in Path, NEW n \in Name
    PROVE  LastName(Append(d, n)) = n
BY DEF LastName, Path

\* Each to a place of its own.
LEMMA TransfersDistinct ==
    ASSUME NEW t, WellFormed(t), NEW c \in MoveCommand,
           IsDirectory(t, c.src.names) => c.dst.slash
    PROVE  \A m, k \in Transfers(t, c) : m[2] = k[2] => m = k
<1>1. CASE ~ IsDirectory(t, c.src.names)
  BY <1>1, TransferForm
<1>2. CASE IsDirectory(t, c.src.names)
  <2> SUFFICES ASSUME NEW m \in Transfers(t, c), NEW k \in Transfers(t, c), m[2] = k[2]
               PROVE  m = k
    OBVIOUS
  <2>1. c.src.names \in Path /\ c.dst.names \in Path
    BY DEF MoveCommand, Line
  <2>2. PICK n \in FileNames(t, c.src.names) :
          m = <<Append(c.src.names, n), To(c, Append(c.src.names, n))>>
    BY <1>2, TransferForm
  <2>3. PICK l \in FileNames(t, c.src.names) :
          k = <<Append(c.src.names, l), To(c, Append(c.src.names, l))>>
    BY <1>2, TransferForm
  <2>4. n \in Name /\ l \in Name
    BY DEF FileNames
  <2>5. m[2] = Append(c.dst.names, n) /\ k[2] = Append(c.dst.names, l)
    BY <1>2, <2>1, <2>2, <2>3, <2>4, AppendLast DEF To
  <2>6. n = l
    BY <2>1, <2>4, <2>5, AppendLast
  <2> QED
    BY <2>2, <2>3, <2>6
<1> QED
  BY <1>1, <1>2

-----------------------------------------------------------------------------
(* A command at work on the tree T that it found.                          *)

NewFolder(command) == IF command.dst.slash THEN {command.dst.names} ELSE {}

\* The files it has moved.
DoneFiles(T) ==
    {m \in Transfers(T, cmd) :
       LastName(m[1]) \notin job.todo /\ (pc \in Transferring => m[1] # job.source)}

\* The tree when it is between two files.
SoFar(T) == Moved(T, DoneFiles(T), NewFolder(cmd))

\* The source is in T, and what is to be done is what T has there.
OnCourse(T) ==
    /\ WellFormed(T) /\ cmd.src.names \in DOMAIN T
    /\ IsDirectory(T, cmd.src.names) <=> job.folder # NoPath
    /\ \A n \in job.todo : n \in FileNames(T, cmd.src.names)
    /\ \A m \in DoneFiles(T) : m[1] # m[2]
    /\ pc \in Transferring =>
         /\ <<job.source, To(cmd, job.source)>> \in Transfers(T, cmd)
         /\ job.source \in DOMAIN T

Midway(T) ==
    /\ pc = "save" =>
         LET path == script[step].path.names
         IN  path \in DOMAIN T /\ object = T[path] /\ tree = With(T, path, Partial)
    /\ pc \in {"next"} \cup Transferring /\ ~ Astray =>
         /\ OnCourse(T)
         /\ pc \in {"next", "removeOld"} => tree = SoFar(T)
         /\ pc = "open" => tree \in {SoFar(T), Without(SoFar(T), Destination)}
         /\ pc = "fill" => tree = With(SoFar(T), Destination, Partial)
         /\ pc = "removeSource" => tree = With(SoFar(T), Destination, T[job.source])

\* The command turns to a directory.
LEMMA FolderBegins ==
    ASSUME NEW T, T = tree, WellFormed(T), NEW command \in MoveCommand,
           TurnsToFolder(command),
           tree' = tree \/ (command.dst.names \notin DOMAIN tree
                              /\ tree' = With(tree, command.dst.names, Directory))
    PROVE  Midway(T)'
<1> DEFINE src == command.src.names
           dst == command.dst.names
<1>1. /\ pc' = "next" /\ cmd' = command /\ IsDirectory(T, src)
      /\ command.dst.slash /\ IsDirectory(tree', dst)
      /\ job'.folder = src /\ job'.todo = FileNames(tree', src)
  BY DEF TurnsToFolder
<1>2. src \in Path /\ dst \in Path /\ src # NoPath
  BY NoPathIsNoPath DEF MoveCommand, Line
<1>3. FileNames(tree', src) = FileNames(T, src)
  BY DEF FileNames, IsFile, With
<1>4. DoneFiles(T)' = {}
  <2> SUFFICES ASSUME NEW m \in Transfers(T, command), LastName(m[1]) \notin job'.todo
               PROVE  FALSE
    BY <1>1 DEF DoneFiles
  <2>1. PICK n \in FileNames(T, src) : m = <<Append(src, n), To(command, Append(src, n))>>
    BY <1>1, TransferForm
  <2>2. LastName(m[1]) = n
    BY <1>2, <2>1, AppendLast DEF FileNames
  <2> QED
    BY <1>1, <1>3, <2>2
<1>5. OnCourse(T)'
  BY <1>1, <1>2, <1>3, <1>4 DEF OnCourse, Transferring, IsDirectory
<1>6. T = [p \in DOMAIN T |-> T[p]]
  BY DEF WellFormed
<1>7. tree' = Moved(T, {}, {dst})
  BY <1>1, <1>6, MovedNone DEF IsDirectory
<1>8. tree' = SoFar(T)'
  BY <1>1, <1>4, <1>7 DEF SoFar, NewFolder
<1> QED
  BY <1>1, <1>5, <1>8 DEF Midway, Transferring

\* The command turns to a single file.
LEMMA FileBegins ==
    ASSUME NEW T, T = tree, WellFormed(T), NEW command \in MoveCommand,
           TurnsToFile(command),
           tree' = tree \/ (command.dst.slash /\ command.dst.names \notin DOMAIN tree
                              /\ tree' = With(tree, command.dst.names, Directory))
    PROVE  Midway(T)'
<1> DEFINE src == command.src.names
           dst == command.dst.names
<1>1. /\ pc' \in {"removeOld", "open"} /\ cmd' = command /\ IsFile(T, src)
      /\ job'.folder = NoPath /\ job'.todo = {} /\ job'.source = src
      /\ ~ Astray' => (command.dst.slash => IsDirectory(tree', dst))
  BY DEF TurnsToFile
<1>2. ~ IsDirectory(T, src) /\ src \in DOMAIN T
  BY <1>1 DEF IsFile, IsDirectory
<1>3. Transfers(T, command) = {<<src, To(command, src)>>}
  BY <1>2, TransferForm
<1>4. DoneFiles(T)' = {}
  BY <1>1, <1>3 DEF DoneFiles, Transferring
<1>5. OnCourse(T)'
  BY <1>1, <1>2, <1>3, <1>4 DEF OnCourse, Transferring
<1>6. T = [p \in DOMAIN T |-> T[p]]
  BY DEF WellFormed
<1>7. ASSUME ~ Astray' PROVE tree' = Moved(T, {}, NewFolder(command))
  <2>1. CASE command.dst.slash
    <3>1. NewFolder(command) = {dst}
      BY <2>1 DEF NewFolder
    <3> QED
      BY <1>1, <1>6, <1>7, <2>1, <3>1, MovedNone DEF IsDirectory
  <2>2. CASE ~ command.dst.slash
    <3>1. NewFolder(command) = {}
      BY <2>2 DEF NewFolder
    <3> QED
      BY <1>6, <2>2, <3>1, MovedNone
  <2> QED
    BY <2>1, <2>2
<1>8. ~ Astray' => tree' = SoFar(T)'
  BY <1>1, <1>4, <1>7 DEF SoFar
<1> QED
  BY <1>1, <1>5, <1>8 DEF Midway, Transferring

\* A command that begins is done as documented, or it is under way to it, or it
\* has failed.
LEMMA BeginMidway ==
    ASSUME Kept, BeginCommand, NEW T, T = tree
    PROVE  \/ Abort \/ LogError
           \/ /\ Complete /\ tree' = Effect(T, script[step])
              /\ script[step].op \in {"DELETE", "MKDIR"}
           \/ pc' \in {"save", "next"} \cup Transferring /\ Midway(T)'
<1> DEFINE command == script[step]
<1>1. /\ step \in 1..Commands /\ pc = Idle /\ script' = script /\ script \in Scripts
      /\ WellFormed(tree) /\ DOMAIN tree \subseteq Entries /\ Outcome /\ errors \in Nat
      /\ Careful /\ Contained
  BY ScriptsAssumption DEF BeginCommand, Kept, Base, AtWork, Contained, Idle, Ended
<1>2. /\ command.op \in {"MOVE", "REPLACE", "DELETE", "MKDIR", "EDIT"}
      /\ command.op \in {"MOVE", "REPLACE"} => command \in MoveCommand
      /\ command.op = "EDIT" => command \in EditCommand
  BY <1>1, ScriptCommand
<1>3. /\ SpelledOneWay
      /\ command.op \in {"MOVE", "REPLACE"} =>
           /\ command.src.names \in Entries /\ command.dst.names \in Entries
           /\ \A p \in Entries : From(command, p) => To(command, p) \in Entries
           /\ ~ command.dst.slash => command.dst.names \notin Folders
      /\ command.op \notin {"MOVE", "REPLACE"} => command.path.names \in Entries
  BY <1>1, CarefulLines
<1>4. CASE command.op \in {"MOVE", "REPLACE"}
  <2>1. Begin(command) /\ command \in MoveCommand
    BY <1>2, <1>4 DEF BeginCommand
  <2>2. ~ command.dst.slash => ~ IsDirectory(tree, command.dst.names)
    BY <1>1, <1>3, <1>4 DEF Contained, IsDirectory
  <2>3. /\ \/ tree' = tree
           \/ /\ command.dst.slash /\ command.dst.names \notin DOMAIN tree
              /\ tree' = With(tree, command.dst.names, Directory)
        /\ Abort \/ LogError \/ TurnsToFolder(command) \/ TurnsToFile(command)
    BY <1>1, <1>3, <1>4, <2>1, <2>2, BeginExact
  <2>4. CASE TurnsToFolder(command)
    BY <1>1, <2>1, <2>3, <2>4, FolderBegins DEF TurnsToFolder
  <2>5. CASE TurnsToFile(command)
    BY <1>1, <2>1, <2>3, <2>5, FileBegins DEF TurnsToFile, Transferring
  <2> QED
    BY <2>3, <2>4, <2>5
<1>5. CASE command.op = "DELETE"
  BY <1>1, <1>3, <1>5, DeleteExact DEF BeginCommand, Effect
<1>6. CASE command.op = "MKDIR"
  <2>1. \/ Abort \/ LogError
        \/ Complete /\ IsDirectory(tree, command.path.names) /\ tree' = tree
        \/ Complete /\ tree' = With(tree, command.path.names, Directory)
    BY <1>1, <1>3, <1>6, MakeDirectoryExact DEF BeginCommand
  <2>2. IsDirectory(tree, command.path.names) =>
          With(tree, command.path.names, Directory) = tree
    BY <1>1 DEF With, WellFormed, IsDirectory
  <2> QED
    BY <1>6, <2>1, <2>2 DEF Effect
<1>7. CASE command.op = "EDIT"
  <2>1. \/ Abort \/ LogError
        \/ /\ IsFile(tree, command.path.names)
           /\ object' = tree[command.path.names]
           /\ tree' = With(tree, command.path.names, Partial)
           /\ pc' = "save"
    BY <1>1, <1>2, <1>3, <1>7, EditExact DEF BeginCommand
  <2>2. pc' = "save" => step' = step
    BY <1>1, OutcomeSteps DEF Idle
  <2>3. ASSUME pc' = "save", IsFile(tree, command.path.names),
               object' = tree[command.path.names],
               tree' = With(tree, command.path.names, Partial)
        PROVE  Midway(T)'
    <3>1. script'[step'] = command
      BY <1>1, <2>2, <2>3
    <3> QED
      BY <2>3, <3>1 DEF Midway, Transferring, IsFile
  <2> QED
    BY <2>1, <2>3
<1> QED
  BY <1>2, <1>4, <1>5, <1>6, <1>7

\* The file being moved is still what it was in T, and nothing is put over it.
LEMMA SourceIntact ==
    ASSUME Kept, NEW T, Midway(T), pc \in {"fill", "removeSource"}
    PROVE  LET to == To(cmd, job.source)
           IN  /\ ~ Astray /\ OnCourse(T) /\ Destination = to /\ cmd \in MoveCommand
               /\ job.source # to /\ job.source \notin NewFolder(cmd)
               /\ \A m \in DoneFiles(T) : m[2] # job.source
               /\ \A m, k \in Transfers(T, cmd) : m[2] = k[2] => m = k
               /\ tree[job.source] = T[job.source]
<1> DEFINE to == To(cmd, job.source)
           s == job.source
           src == cmd.src.names
           dst == cmd.dst.names
<1>1. ~ Astray /\ OnCourse(T)
  BY DEF Midway, Astray, Transferring
<1>2. /\ Destination = to /\ s \in Entries
      /\ s = IF job.folder = NoPath THEN src ELSE Append(src, job.name)
      /\ job.folder # NoPath => cmd.dst.slash
      /\ job.folder = NoPath => job.todo = {}
      /\ job.name \in Name
  BY <1>1 DEF Kept, Aimed, Base, IndInv, TypeOK, Transferring
<1>3. /\ IsFile(tree, s) /\ IsFile(tree, to) /\ s # to /\ WellFormed(tree)
      /\ cmd \in MoveCommand
  <2>1. cmd # NoCommand
    BY DEF Kept, Base, IndInv, TypeOK, Idle, Ended
  <2> QED
    BY <1>2, <2>1 DEF Kept, Base, IndInv, TypeOK, SourceOutlivesCopy
<1>4. src \in Path /\ dst \in Path /\ s \in Path /\ s # Root
  BY <1>2, <1>3, EntriesAssumption DEF MoveCommand, Line, IsFile, IsDirectory, WellFormed
<1>5. s \notin NewFolder(cmd)
  <2> SUFFICES ASSUME cmd.dst.slash PROVE s # dst
    BY DEF NewFolder
  <2>1. to = Append(dst, LastName(s)) /\ LastName(s) \in Name
    BY <1>4, ParentType DEF To
  <2>2. to # Root /\ Parent(to) = dst
    BY <1>4, <2>1, AppendParent
  <2>3. IsDirectory(tree, dst)
    BY <1>3, <2>2 DEF WellFormed, IsFile
  <2> QED
    BY <1>3, <2>3 DEF IsFile, IsDirectory
<1>6. \A m, k \in Transfers(T, cmd) : m[2] = k[2] => m = k
  BY <1>1, <1>2, <1>3, TransfersDistinct DEF OnCourse
<1>7. ASSUME NEW m \in DoneFiles(T) PROVE m[2] # s
  <2>1. m \in Transfers(T, cmd) /\ m[1] # s /\ m[1] # m[2]
    BY <1>1 DEF DoneFiles, OnCourse, Transferring
  <2>2. CASE job.folder = NoPath
    <3>1. m = <<src, To(cmd, src)>>
      BY <1>1, <1>3, <2>1, <2>2, TransferForm DEF OnCourse
    <3> QED
      BY <1>2, <2>1, <2>2, <3>1
  <2>3. CASE job.folder # NoPath
    <3>1. PICK n \in FileNames(T, src) : m = <<Append(src, n), To(cmd, Append(src, n))>>
      BY <1>1, <1>3, <2>1, <2>3, TransferForm DEF OnCourse
    <3>2. n \in Name
      BY DEF FileNames
    <3>3. m[2] = Append(dst, n)
      BY <1>2, <1>4, <2>3, <3>1, <3>2, AppendLast DEF To
    <3>4. ASSUME m[2] = s PROVE FALSE
      <4>1. Append(dst, n) = Append(src, job.name)
        BY <1>2, <2>3, <3>3, <3>4
      <4>2. Parent(Append(dst, n)) = dst /\ Parent(Append(src, job.name)) = src
        BY <1>2, <1>4, <3>2, AppendParent
      <4>3. LastName(Append(dst, n)) = n /\ LastName(Append(src, job.name)) = job.name
        BY <1>2, <1>4, <3>2, AppendLast
      <4>4. dst = src /\ n = job.name
        BY <4>1, <4>2, <4>3
      <4> QED
        BY <2>1, <3>1, <3>3, <4>4
    <3> QED
      BY <3>4
  <2> QED
    BY <2>2, <2>3
<1>8. tree[s] = T[s]
  <2>1. s \in DOMAIN T
    BY <1>1 DEF OnCourse, Transferring
  <2>2. tree = With(SoFar(T), to, Partial) \/ tree = With(SoFar(T), to, T[s])
    BY <1>1, <1>2 DEF Midway, Transferring
  <2>3. s \in DOMAIN SoFar(T) /\ tree[s] = SoFar(T)[s]
    BY <1>3, <2>2 DEF With, IsFile
  <2>4. \A m, k \in DoneFiles(T) : m[2] = k[2] => m = k
    BY <1>6 DEF DoneFiles
  <2>5. IsMoved(SoFar(T), T, DoneFiles(T), NewFolder(cmd))
    BY <2>4, MovedAt DEF SoFar
  <2>6. SoFar(T)[s] = T[s]
    BY <1>7, <2>1, <2>3, <2>5 DEF IsMoved
  <2> QED
    BY <2>3, <2>6
<1> QED
  BY <1>1, <1>2, <1>3, <1>5, <1>6, <1>7, <1>8

\* Taking an entry away first makes no difference to putting it there.
LEMMA WithTwice ==
    ASSUME NEW t, NEW p, NEW n, NEW k
    PROVE  With(Without(t, p), p, n) = With(t, p, n) /\ With(With(t, p, k), p, n) = With(t, p, n)
BY DEF With, Without

\* The next file is one of those to be taken.
LEMMA NextFileMidway ==
    ASSUME Kept, NEW T, Midway(T), cmd = script[step], step \in 1..Commands, NextFile
    PROVE  Abort \/ (pc' \in Transferring /\ Midway(T)')
<1>1. pc = "next"
  BY DEF NextFile
<1>2. cmd \in MoveCommand /\ IndInv
  BY <1>1 DEF Kept, Base, IndInv, TypeOK, Idle, Ended
<1>3. \A p \in Entries : From(cmd, p) => To(cmd, p) \in Entries
  BY <1>2, CarefulLines DEF Kept, Base, MoveCommand
<1>4. /\ tree' = tree /\ job.folder # NoPath
      /\ \/ Abort
         \/ /\ cmd' = cmd
            /\ job'.folder = job.folder
            /\ job'.name \in job.todo /\ job'.todo = job.todo \ {job'.name}
            /\ job'.source = Append(job.folder, job'.name)
            /\ pc' \in {"removeOld", "open"} /\ (pc' = "open" <=> job'.old = NoPath)
  BY <1>2, <1>3, NextFileExact DEF Kept, Contained, Careful
<1>5. SUFFICES ASSUME ~ Abort PROVE pc' \in Transferring /\ Midway(T)'
  OBVIOUS
<1>6. OnCourse(T) /\ tree = SoFar(T)
  BY <1>1 DEF Midway, Astray
<1>7. /\ job.folder = cmd.src.names /\ job'.name \in FileNames(T, cmd.src.names)
      /\ cmd.src.names \in Path /\ job'.name \in Name
  BY <1>1, <1>2, <1>4, <1>5, <1>6 DEF Kept, Aimed, OnCourse, MoveCommand, Line, FileNames
<1>8. <<job'.source, To(cmd, job'.source)>> \in Transfers(T, cmd) /\ job'.source \in DOMAIN T
  <2>1. job'.source = Append(cmd.src.names, job'.name)
    BY <1>4, <1>5, <1>7
  <2>2. IsDirectory(T, cmd.src.names) /\ WellFormed(T)
    BY <1>4, <1>6 DEF OnCourse
  <2>3. \A m : m \in Transfers(T, cmd) <=>
          \E n \in FileNames(T, cmd.src.names) :
            m = <<Append(cmd.src.names, n), To(cmd, Append(cmd.src.names, n))>>
    BY <1>2, <2>2, TransferForm
  <2>4. <<Append(cmd.src.names, job'.name), To(cmd, Append(cmd.src.names, job'.name))>>
          \in Transfers(T, cmd)
    BY <1>7, <2>3
  <2> QED
    BY <1>7, <2>1, <2>4 DEF FileNames, IsFile
<1>9. DoneFiles(T)' = DoneFiles(T)
  <2>1. pc' \in Transferring /\ pc \notin Transferring
    BY <1>1, <1>4, <1>5 DEF Transferring
  <2>2. \A m \in Transfers(T, cmd) :
          LastName(m[1]) \notin job.todo <=> LastName(m[1]) \notin job'.todo /\ m[1] # job'.source
    <3> SUFFICES ASSUME NEW m \in Transfers(T, cmd)
                 PROVE  LastName(m[1]) \notin job.todo <=>
                          LastName(m[1]) \notin job'.todo /\ m[1] # job'.source
      OBVIOUS
    <3>1. PICK n \in FileNames(T, cmd.src.names) :
            m = <<Append(cmd.src.names, n), To(cmd, Append(cmd.src.names, n))>>
      BY <1>2, <1>4, <1>6, TransferForm DEF OnCourse
    <3>2. LastName(m[1]) = n /\ LastName(job'.source) = job'.name
      BY <1>4, <1>5, <1>7, <3>1, AppendLast DEF FileNames
    <3> QED
      BY <1>4, <1>5, <1>7, <3>1, <3>2
  <2> QED
    BY <1>4, <1>5, <2>1, <2>2 DEF DoneFiles
<1>10. OnCourse(T)'
  BY <1>4, <1>5, <1>6, <1>8, <1>9 DEF OnCourse
<1>11. tree' = SoFar(T)'
  BY <1>4, <1>5, <1>6, <1>9 DEF SoFar
<1> QED
  BY <1>4, <1>5, <1>10, <1>11 DEF Midway, Transferring

\* A command at work goes on as documented, or fails.
LEMMA ContinueMidway ==
    ASSUME Kept, NEW T, Midway(T), ContinueCommand
    PROVE  \/ Abort
           \/ Complete /\ tree' = Effect(T, script[step])
           \/ pc' \in {"next"} \cup Transferring /\ Midway(T)'
<1>1. /\ main = "commands" /\ step \in 1..Commands
      /\ pc \in {"save", "next"} \cup Transferring
      /\ pc # "save" => cmd = script[step] /\ cmd \in MoveCommand /\ IndInv /\ cmd # NoCommand
  <2>1. pc \in {"save", "next"} \cup Transferring
    BY DEF ContinueCommand, SaveTune, NextFile, EndCommand, RemoveOld, OpenDestination,
       FillDestination, RemoveSource, Transferring
  <2> QED
    BY <2>1, ScriptsAssumption DEF ContinueCommand, Kept, Base, AtWork, IndInv, TypeOK, Idle,
       Ended, Transferring
<1>2. CASE SaveTune
  <2>1. /\ pc = "save" /\ tree' = With(tree, Destination, Edited[object]) /\ Complete
        /\ Destination = script[step].path.names /\ script[step].op = "EDIT"
    BY <1>2 DEF SaveTune, Kept, Aimed, Base, Saving
  <2> DEFINE path == script[step].path.names
  <2>2. object = T[path] /\ tree = With(T, path, Partial)
    BY <2>1 DEF Midway
  <2>3. tree' = With(T, path, Edited[T[path]])
    BY <2>1, <2>2, WithTwice
  <2> QED
    BY <2>1, <2>3 DEF Effect
<1>3. CASE NextFile
  BY <1>1, <1>3, NextFileMidway DEF NextFile
<1>4. CASE EndCommand
  <2>1. pc = "next" /\ job.todo = {} /\ Complete /\ tree' = tree
    BY <1>4 DEF EndCommand
  <2>2. tree = SoFar(T)
    BY <2>1 DEF Midway, Astray
  <2>3. DoneFiles(T) = Transfers(T, cmd)
    BY <2>1 DEF DoneFiles, Transferring
  <2>4. cmd = script[step] /\ cmd.op \in {"MOVE", "REPLACE"}
    BY <1>1, <2>1 DEF MoveCommand
  <2>5. SoFar(T) = Effect(T, script[step])
    BY <2>3, <2>4 DEF SoFar, NewFolder, Effect
  <2> QED
    BY <2>1, <2>2, <2>5
<1>5. CASE RemoveOld /\ ~ Abort
  <2>1. pc = "removeOld" /\ pc' = "open" /\ UNCHANGED <<cmd, job, logged>>
        /\ tree' = Without(tree, job.old)
    BY <1>5 DEF RemoveOld
  <2>2. Astray => Astray'
    BY <2>1 DEF Astray, IsDirectory, Without
  <2>3. CASE ~ Astray'
    <3>1. ~ Astray /\ OnCourse(T) /\ tree = SoFar(T)
      BY <2>1, <2>2, <2>3 DEF Midway, Transferring
    <3>2. job.old \in {NoPath, Destination}
      BY <2>1, <3>1 DEF Kept, Aimed, Transferring
    <3>3. NoPath \notin DOMAIN tree /\ tree = [p \in DOMAIN tree |-> tree[p]]
      BY NoPathIsNoPath DEF Kept, Base, WellFormed
    <3>4. Without(tree, NoPath) = tree
      BY <3>3 DEF Without
    <3>5. DoneFiles(T)' = DoneFiles(T) /\ Destination' = Destination
      BY <2>1 DEF DoneFiles, Transferring, Destination
    <3>6. OnCourse(T)' /\ SoFar(T)' = SoFar(T)
      BY <2>1, <3>1, <3>5 DEF OnCourse, SoFar, Transferring
    <3> QED
      BY <2>1, <3>1, <3>2, <3>4, <3>5, <3>6 DEF Midway, Transferring
  <2> QED
    BY <2>1, <2>3 DEF Midway, Transferring
<1>6. CASE OpenDestination /\ ~ Abort
  <2>1. pc = "open" /\ pc' = "fill" /\ UNCHANGED <<cmd, job, logged>>
        /\ CanCreate(tree, job.dir, job.name) /\ tree' = With(tree, Destination, Partial)
    BY <1>6 DEF OpenDestination
  <2>2. ~ Astray
    BY <2>1 DEF Astray, CanCreate
  <2>3. OnCourse(T) /\ tree \in {SoFar(T), Without(SoFar(T), Destination)}
    BY <2>1, <2>2 DEF Midway, Transferring
  <2>4. DoneFiles(T)' = DoneFiles(T) /\ Destination' = Destination
    BY <2>1 DEF DoneFiles, Transferring, Destination
  <2>5. OnCourse(T)' /\ SoFar(T)' = SoFar(T)
    BY <2>1, <2>3, <2>4 DEF OnCourse, SoFar, Transferring
  <2>6. tree' = With(SoFar(T), Destination, Partial)
    BY <2>1, <2>3, WithTwice
  <2> QED
    BY <2>1, <2>4, <2>5, <2>6 DEF Midway, Transferring
<1>7. CASE FillDestination
  <2>1. pc = "fill" /\ pc' = "removeSource" /\ UNCHANGED <<cmd, job, logged>>
        /\ tree' = With(tree, Destination, tree[job.source])
    BY <1>7 DEF FillDestination
  <2>2. OnCourse(T) /\ tree = With(SoFar(T), Destination, Partial)
    BY <2>1 DEF Midway, Transferring, Astray
  <2>3. tree[job.source] = T[job.source]
    BY <2>1, SourceIntact
  <2>4. DoneFiles(T)' = DoneFiles(T) /\ Destination' = Destination
    BY <2>1 DEF DoneFiles, Transferring, Destination
  <2>5. OnCourse(T)' /\ SoFar(T)' = SoFar(T)
    BY <2>1, <2>2, <2>4 DEF OnCourse, SoFar, Transferring
  <2>6. tree' = With(SoFar(T), Destination, T[job.source])
    BY <2>1, <2>2, <2>3, WithTwice
  <2> QED
    BY <2>1, <2>4, <2>5, <2>6 DEF Midway, Transferring
<1>8. CASE RemoveSource
  <2> DEFINE s == job.source
             to == To(cmd, job.source)
             more == DoneFiles(T) \cup {<<s, to>>}
  <2>1. pc = "removeSource" /\ pc' = "next" /\ UNCHANGED <<cmd, job, logged>>
        /\ tree' = Without(tree, s)
    BY <1>8 DEF RemoveSource
  <2>2. /\ OnCourse(T) /\ Destination = to /\ s # to /\ s \notin NewFolder(cmd)
        /\ \A m \in DoneFiles(T) : m[2] # s
        /\ \A m, k \in Transfers(T, cmd) : m[2] = k[2] => m = k
    BY <2>1, SourceIntact
  <2>3. tree = With(SoFar(T), to, T[s])
    BY <2>1, <2>2 DEF Midway, Transferring, Astray
  <2>4. <<s, to>> \in Transfers(T, cmd) /\ <<s, to>> \notin DoneFiles(T)
    BY <2>1, <2>2 DEF OnCourse, DoneFiles, Transferring
  <2>5. \A m, k \in more : m[2] = k[2] => m = k
    BY <2>2, <2>4 DEF DoneFiles
  <2>6. tree' = Moved(T, more, NewFolder(cmd))
    BY <2>1, <2>2, <2>3, <2>4, <2>5, MovedOne DEF SoFar
  <2>7. LastName(s) \notin job.todo
    <3>1. /\ s = IF job.folder = NoPath THEN cmd.src.names ELSE Append(job.folder, job.name)
          /\ job.name \notin job.todo /\ (job.folder = NoPath => job.todo = {})
      BY <2>1 DEF Kept, Aimed, Transferring
    <3>2. job.folder # NoPath => job.folder = cmd.src.names
      BY <2>1 DEF Kept, Aimed, Transferring
    <3>3. job.name \in Name /\ cmd.src.names \in Path
      BY <1>1, <2>1 DEF IndInv, TypeOK, Transferring, MoveCommand, Line
    <3> QED
      BY <3>1, <3>2, <3>3, AppendLast
  <2>8. DoneFiles(T)' = more
    <3>1. DoneFiles(T)' = {m \in Transfers(T, cmd) : LastName(m[1]) \notin job.todo}
      BY <2>1 DEF DoneFiles, Transferring
    <3>2. DoneFiles(T) = {m \in Transfers(T, cmd) : LastName(m[1]) \notin job.todo /\ m[1] # s}
      BY <2>1 DEF DoneFiles, Transferring
    <3>3. ASSUME NEW m \in Transfers(T, cmd), m[1] = s PROVE m = <<s, to>>
      <4>1. CASE IsDirectory(T, cmd.src.names)
        <5>1. PICK n \in FileNames(T, cmd.src.names) :
                m = <<Append(cmd.src.names, n), To(cmd, Append(cmd.src.names, n))>>
          BY <1>1, <2>1, <2>2, <4>1, TransferForm DEF OnCourse
        <5> QED
          BY <3>3, <5>1
      <4>2. CASE ~ IsDirectory(T, cmd.src.names)
        <5>1. m = <<cmd.src.names, To(cmd, cmd.src.names)>>
          BY <1>1, <2>1, <2>2, <4>2, TransferForm DEF OnCourse
        <5> QED
          BY <3>3, <5>1
      <4> QED
        BY <4>1, <4>2
    <3>4. <<s, to>>[1] = s
      OBVIOUS
    <3> QED
      BY <2>4, <2>7, <3>1, <3>2, <3>3, <3>4
  <2>9. \A m \in more : m[1] # m[2]
    BY <2>2 DEF OnCourse
  <2>10. OnCourse(T)'
    BY <2>1, <2>2, <2>8, <2>9 DEF OnCourse, Transferring
  <2>11. tree' = SoFar(T)'
    BY <2>1, <2>6, <2>8 DEF SoFar
  <2> QED
    BY <2>1, <2>10, <2>11 DEF Midway, Transferring
<1> QED
  BY <1>2, <1>3, <1>4, <1>5, <1>6, <1>7, <1>8 DEF ContinueCommand

-----------------------------------------------------------------------------
(* A run that is the first to get to the commands.                         *)

\* The same but for the script and its copy.
Aside == {ScriptPath, ArchivePath}

SameCollection(t, u) ==
    /\ DOMAIN t \ Aside = DOMAIN u \ Aside
    /\ \A p \in DOMAIN t \ Aside : t[p] = u[p]

Finished == {"archive", "copying", "removeScript", "removeErrors", "exit0"}

\* As long as no error has been logged, the tree is what the commands so far
\* should have made of it, or the command at work is on its way there.
FirstRun ==
    ~ resumed =>
      /\ step = 0 => tree \in {Original, Start} /\ main \notin Finished
      /\ main \in {"directories", "version", "script"} => step = 0
      /\ main \in {"hubbard", "header", "check", "open"} => step = 0 /\ tree = Start
      /\ main = "commands" /\ errors = 0 => \A T : T = expected[step - 1] =>
           IF pc = Idle THEN tree = T ELSE Midway(T)
      /\ main \in Finished => SameCollection(tree, expected[Commands])

LEMMA SameTwice ==
    ASSUME NEW t, NEW u, SameCollection(t, u), NEW node
    PROVE  /\ SameCollection(With(t, ArchivePath, node), u)
           /\ SameCollection(Without(t, ScriptPath), u)
BY DEF SameCollection, Aside, With, Without

\* The commands keep to it.
LEMMA FirstRunCommands ==
    ASSUME Kept, FirstRun, ~ resumed, BeginCommand \/ ContinueCommand
    PROVE  FirstRun'
<1>1. /\ main = "commands" /\ step \in 1..Commands /\ Outcome /\ errors \in Nat
      /\ BeginCommand => pc = Idle
      /\ ContinueCommand => pc # Idle
      /\ UNCHANGED <<script, resumed, expected>>
  <2>1. CASE BeginCommand
    <3>1. pc \notin {"save", "next"} \cup Transferring
      BY <2>1 DEF BeginCommand, Idle, Transferring
    <3>2. ~ ContinueCommand
      BY <3>1 DEF ContinueCommand, SaveTune, NextFile, EndCommand, RemoveOld, OpenDestination,
         FillDestination, RemoveSource, Transferring
    <3> QED
      BY <2>1, <3>2, ScriptsAssumption DEF BeginCommand, Kept, Base, AtWork
  <2>2. CASE ContinueCommand
    <3>1. pc \in {"save", "next"} \cup Transferring
      BY <2>2 DEF ContinueCommand, SaveTune, NextFile, EndCommand, RemoveOld, OpenDestination,
         FillDestination, RemoveSource, Transferring
    <3> QED
      BY <2>2, <3>1, ScriptsAssumption
         DEF BeginCommand, ContinueCommand, Kept, Base, AtWork, Idle, Ended, Transferring
  <2> QED
    BY <2>1, <2>2
<1>2. \/ pc' = "aborted" /\ main' = "aborted" /\ UNCHANGED step
      \/ pc' \notin {Idle, "aborted"} /\ UNCHANGED <<main, step, errors>>
      \/ pc' = Idle /\ main' = main /\ step' = step + 1
         /\ (errors' = 0 => errors = 0 /\ ~ logged')
  BY <1>1, OutcomeSteps
<1>3. PICK T : T = expected[step - 1]
  OBVIOUS
<1>4. ASSUME errors = 0
      PROVE  \/ Abort \/ LogError
             \/ Complete /\ tree' = Effect(T, script[step])
             \/ pc' \in {"save", "next"} \cup Transferring /\ Midway(T)'
  <2>1. CASE BeginCommand
    <3>1. tree = T
      BY <1>1, <1>3, <1>4, <2>1 DEF FirstRun
    <3> QED
      BY <2>1, <3>1, BeginMidway
  <2>2. CASE ContinueCommand
    <3>1. Midway(T)
      BY <1>1, <1>3, <1>4, <2>2 DEF FirstRun
    <3> QED
      BY <2>2, <3>1, ContinueMidway
  <2> QED
    BY <2>1, <2>2
<1>5. expected[step] = Effect(T, script[step])
  BY <1>1, <1>3, AfterSteps DEF Kept, Base
<1>6. step' > 0 /\ main' \in {"commands", "aborted"} /\ step + 1 - 1 = step
  BY <1>1, <1>2, ScriptsAssumption
<1>7. ASSUME main' = "commands", errors' = 0, NEW U, U = expected'[step' - 1]
      PROVE  IF pc' = Idle THEN tree' = U ELSE Midway(U)'
  <2>1. errors = 0 /\ ~ Abort /\ ~ LogError
    BY <1>2, <1>7 DEF Abort, LogError, Forget, Idle
  <2>2. CASE Complete /\ tree' = Effect(T, script[step])
    BY <1>1, <1>2, <1>5, <1>6, <1>7, <2>2 DEF Complete, Forget, Idle
  <2>3. CASE pc' \in {"save", "next"} \cup Transferring /\ Midway(T)'
    <3>1. pc' \notin {Idle, "aborted"}
      BY <2>3 DEF Idle, Transferring
    <3>2. U = T
      BY <1>1, <1>2, <1>3, <1>7, <3>1
    <3> QED
      BY <2>3, <3>1, <3>2
  <2> QED
    BY <1>4, <2>1, <2>2, <2>3
<1> QED
  BY <1>6, <1>7 DEF FirstRun, Finished

\* main around the commands too.
LEMMA FirstRunNext == Kept /\ FirstRun /\ [SessionNext]_all => FirstRun'
<1> SUFFICES ASSUME Kept, FirstRun, [SessionNext]_all PROVE FirstRun'
  OBVIOUS
<1>1. CASE UNCHANGED all
  BY <1>1 DEF all, files, session, FirstRun, Midway, OnCourse, SoFar, DoneFiles, Astray,
     Destination, IsDirectory
<1>2. CASE BeginCommand \/ ContinueCommand
  <2>1. CASE ~ resumed
    BY <1>2, <2>1, FirstRunCommands
  <2>2. CASE resumed
    BY <1>2, <2>2 DEF BeginCommand, ContinueCommand, FirstRun
  <2> QED
    BY <2>1, <2>2
<1>3. \/ resumed'
      \/ UNCHANGED <<resumed, expected>> /\ ~ resumed
  BY StartSteps, CheckSteps, ScriptStays DEF SessionNext, Work, OpenErrors, BeginCommand,
     ContinueCommand, Archive, FillCopy, DropScript, DropErrors, UnpackUpdate, KillProcess,
     all, session, Kept, Base
<1>4. CASE resumed'
  BY <1>4 DEF FirstRun
<1>5. SUFFICES ASSUME ~ resumed, ~ resumed', expected' = expected PROVE FirstRun'
  BY <1>3, <1>4
<1>6. CASE Check
  <2>1. UNCHANGED <<tree, pc, step, errors, resumed, expected>>
    BY <1>6, CheckSteps DEF files, session
  <2>2. \/ main \in {"directories", "version"} /\ main' \in {"version", "script"}
        \/ main = "script" /\ ~ Exists(tree, ScriptPath) /\ main' = "exit1"
        \/ main = "script" /\ Exists(tree, ScriptPath) /\ main' = "hubbard"
        \/ main \in {"hubbard", "header", "check"} /\ main' \in {"header", "check", "open"}
        \/ /\ main = "commands" /\ step > Commands
           /\ main' = (IF errors = 0 THEN "archive" ELSE "exit1")
    BY <1>6, CheckSteps
  <2>3. CASE main = "script" /\ Exists(tree, ScriptPath) /\ main' = "hubbard"
    <3>1. step = 0
      BY <1>5, <2>3 DEF FirstRun
    <3> QED
      BY <1>5, <2>1, <2>3, <3>1, PackAssumption DEF FirstRun, Finished, Exists
  <2>4. CASE main = "commands" /\ step > Commands
    <3>1. /\ step \in 1..(Commands + 1) /\ Commands \in Nat \ {0} /\ errors \in Nat
          /\ pc = Idle
      BY <2>4, ScriptsAssumption DEF Kept, Base, AtWork
    <3>2. step = Commands + 1 /\ step - 1 = Commands /\ step # 0
      BY <2>4, <3>1
    <3>3. errors = 0 => tree = expected[Commands]
      BY <1>5, <2>4, <3>1, <3>2 DEF FirstRun
    <3>4. errors = 0 => SameCollection(tree, expected[Commands])
      BY <3>3 DEF SameCollection
    <3> QED
      BY <1>5, <2>1, <2>2, <2>4, <3>2, <3>4 DEF FirstRun, Finished
  <2> QED
    BY <1>5, <2>1, <2>2, <2>3, <2>4 DEF FirstRun, Finished
<1>7. CASE OpenErrors
  <2>1. UNCHANGED <<tree, pc>> /\ step' = 1 /\ main = "open" /\ main' = "commands"
    BY <1>7 DEF OpenErrors, files
  <2>2. tree = Start /\ pc = Idle
    BY <1>5, <2>1 DEF FirstRun, Kept, Base, AtWork
  <2>3. expected[0] = Start
    BY AfterSteps DEF Kept, Base
  <2> QED
    BY <1>5, <2>1, <2>2, <2>3 DEF FirstRun, Finished
<1>8. CASE StartSession
  <2>1. tree' = tree /\ main' = "directories" /\ step' = 0 /\ ~ (step > 0)
    BY <1>5, <1>8, StartSteps
  <2>2. step = 0
    BY <2>1 DEF Kept, Base
  <2> QED
    BY <1>5, <2>1, <2>2 DEF FirstRun, Finished
<1>9. CASE UnpackUpdate
  <2>1. UNCHANGED <<main, step, pc>> /\ main = "idle"
    BY <1>9 DEF UnpackUpdate
  <2>2. tree' = Start
    <3>1. tree = Original
      BY <1>9, Paths DEF UnpackUpdate, Kept, Base, Fresh, Exists
    <3> QED
      BY <1>9, <3>1 DEF UnpackUpdate, Start
  <2> QED
    BY <1>5, <2>1, <2>2 DEF FirstRun, Finished
<1>10. CASE KillProcess
  BY <1>5, <1>10 DEF KillProcess, FirstRun, Finished
<1>11. CASE Archive \/ FillCopy \/ DropScript \/ DropErrors
  <2>1. /\ step' = step /\ main \in {"archive", "copying", "removeScript", "removeErrors"}
        /\ main' \in Finished \cup {"aborted"}
        /\ main' = "aborted" => tree' = tree
        /\ \/ tree' = tree
           \/ tree' = With(tree, ArchivePath, Partial)
           \/ tree' = With(tree, ArchivePath, tree[ScriptPath])
           \/ tree' = Without(tree, ScriptPath)
    BY <1>11 DEF Archive, FillCopy, DropScript, DropErrors, Finished, files
  <2>2. step # 0 /\ SameCollection(tree, expected[Commands])
    BY <1>5, <2>1 DEF FirstRun, Finished
  <2>3. SameCollection(tree', expected[Commands])
    BY <2>1, <2>2, SameTwice
  <2> QED
    BY <1>5, <2>1, <2>2, <2>3 DEF FirstRun, Finished
<1> QED
  BY <1>1, <1>2, <1>6, <1>7, <1>8, <1>9, <1>10, <1>11 DEF SessionNext, Work

LEMMA FirstRunInit == SessionInit => FirstRun
BY DEF SessionInit, FirstRun, Finished, Idle

-----------------------------------------------------------------------------
(* Scripts whose commands are independent, and what is left of them at     *)
(* whatever moment a run of theirs ends.                                   *)

\* The files a command moves, each with where it goes.
Pairs(s, i) == IF s[i].op \in {"MOVE", "REPLACE"} THEN Transfers(Start, s[i]) ELSE {}
AllPairs(s) == UNION {Pairs(s, i) : i \in 1..Commands}
Taken(s) == {m[1] : m \in AllPairs(s)}
Arriving(s) == {m[2] : m \in AllPairs(s)}

\* The paths on the lines of the other commands, and the directories made.
Named(s, op) == {s[i].path.names : i \in {j \in 1..Commands : s[j].op = op}}
Made(s) ==
    Named(s, "MKDIR")
      \cup UNION {NewFolder(s[i]) : i \in {j \in 1..Commands : s[j].op \in {"MOVE", "REPLACE"}}}

\* Sources exist, and no command moves what a command brings or the script; no
\* file is moved twice, and no two go to one place; what is edited is a tune,
\* and has arrived if a command brings it; what is made a directory is no file.
\* A path is moved, deleted, made a directory, or brought and edited: one of
\* them at most.
Independent(s) ==
    /\ \A i \in 1..Commands : s[i].op \in {"MOVE", "REPLACE"} =>
         /\ s[i].src.names \in DOMAIN Start
         /\ \A j \in 1..(i - 1) : s[j].op = "DELETE" => s[j].path.names # s[i].src.names
         /\ \A p \in Arriving(s) \cup Aside : s[i].src.names \notin {p, Parent(p)}
    /\ \A i, j \in 1..Commands : \A m \in Pairs(s, i), k \in Pairs(s, j) :
         m[1] = k[1] \/ m[2] = k[2] => i = j /\ m = k
    /\ \A i \in 1..Commands : s[i].op = "EDIT" =>
         LET path == s[i].path.names
         IN  /\ path \notin Arriving(s) => path \in DOMAIN Start /\ Start[path] \in DOMAIN Edited
             /\ \A j \in 1..Commands : \A m \in Pairs(s, j) :
                  m[2] = path => j < i /\ Start[m[1]] \in DOMAIN Edited
    /\ \A p \in Made(s) : p \in DOMAIN Start => Start[p] = Directory
    /\ LET deleted == Named(s, "DELETE")
           changing == Arriving(s) \cup Named(s, "EDIT")
       IN  /\ Taken(s) \cap (deleted \cup Made(s) \cup changing \cup Aside) = {}
           /\ deleted \cap (Made(s) \cup changing \cup Aside) = {}
           /\ Made(s) \cap (changing \cup Aside) = {}
           /\ changing \cap Aside = {}

\* What a path holds that has held v: v edited, or cut short (with Partial in
\* cut), if a command edits it.
Later(s, p, v, cut) == IF p \in Named(s, "EDIT") THEN {v, Edited[v]} \cup cut ELSE {v}

\* What no command is concerned with is as it was; a file that is moved is at
\* its source as it was, or has arrived; what is deleted is as it was, or gone.
Mixed(s, t, cut) ==
    /\ DOMAIN t \subseteq Entries
    /\ \A p \in Entries \ (Taken(s) \cup Arriving(s) \cup Made(s) \cup Named(s, "DELETE")
                             \cup Named(s, "EDIT") \cup Aside) :
         /\ p \in DOMAIN t <=> p \in DOMAIN Start
         /\ p \in DOMAIN t => t[p] = Start[p]
    /\ \A m \in AllPairs(s) :
         /\ m[1] \in DOMAIN t => t[m[1]] = Start[m[1]]
         /\ m[1] \notin DOMAIN t =>
              m[2] \in DOMAIN t /\ t[m[2]] \in Later(s, m[2], Start[m[1]], cut)
    /\ \A p \in Named(s, "DELETE") : p \in DOMAIN t => p \in DOMAIN Start /\ t[p] = Start[p]
    /\ \A p \in Made(s) : /\ p \in DOMAIN Start => p \in DOMAIN t
                          /\ p \in DOMAIN t => t[p] = Directory
    /\ \A p \in Named(s, "EDIT") \ Arriving(s) :
         p \in DOMAIN t /\ t[p] \in Later(s, p, Start[p], cut)

\* The command i has had its effect.
Done(s, t, i) ==
    /\ \A m \in Pairs(s, i) : m[1] \notin DOMAIN t
    /\ s[i].op = "DELETE" => s[i].path.names \notin DOMAIN t
    /\ s[i].op = "MKDIR" => s[i].path.names \in DOMAIN t
    /\ s[i].op \in {"MOVE", "REPLACE"} => NewFolder(s[i]) \subseteq DOMAIN t
    /\ s[i].op = "EDIT" =>
         LET path == s[i].path.names
         IN  /\ path \notin Arriving(s) => t[path] = Edited[Start[path]]
             /\ \A m \in AllPairs(s) : m[2] = path => t[path] = Edited[Start[m[1]]]

\* The entries that a script concerns, and what tells them apart.
LEMMA Layout ==
    ASSUME NEW s \in Scripts, Independent(s)
    PROVE  /\ \A m \in AllPairs(s) :
                /\ m[1] \in Taken(s) /\ m[2] \in Arriving(s) /\ m[2] \in Entries
                /\ m[1] \in DOMAIN Start /\ Start[m[1]] # Directory
           /\ \A m, k \in AllPairs(s) : m[1] = k[1] \/ m[2] = k[2] => m = k
           /\ Taken(s) \cup Arriving(s) \cup Made(s) \cup Named(s, "DELETE")
                \cup Named(s, "EDIT") \subseteq Entries
           /\ \A p \in Taken(s) : p \notin Named(s, "DELETE") /\ p \notin Made(s)
                /\ p \notin Arriving(s) /\ p \notin Named(s, "EDIT") /\ p \notin Aside
           /\ \A p \in Named(s, "DELETE") : p \notin Made(s) /\ p \notin Arriving(s)
                /\ p \notin Named(s, "EDIT") /\ p \notin Aside
           /\ \A p \in Made(s) :
                p \notin Arriving(s) /\ p \notin Named(s, "EDIT") /\ p \notin Aside
           /\ \A p \in Arriving(s) \cup Named(s, "EDIT") : p \notin Aside
<1>1. \A m, k \in AllPairs(s) : m[1] = k[1] \/ m[2] = k[2] => m = k
  BY DEF Independent, AllPairs
<1>2. ASSUME NEW i \in 1..Commands, NEW m \in Pairs(s, i)
      PROVE  /\ m[1] \in DOMAIN Start /\ Start[m[1]] # Directory
             /\ m[1] \in Entries /\ m[2] \in Entries
  <2> DEFINE c == s[i]
  <2>1. c.op \in {"MOVE", "REPLACE"} /\ m \in Transfers(Start, c)
    BY <1>2 DEF Pairs
  <2>2. c.src.names \in DOMAIN Start /\ c \in MoveCommand
    <3>1. c \in MoveCommand \cup OtherCommand \cup EditCommand
      BY ScriptsAssumption
    <3> QED
      BY <2>1, <3>1 DEF Independent, MoveCommand, OtherCommand, EditCommand
  <2>3. /\ c.src.names \in Entries /\ c.dst.names \in Entries
        /\ \A p \in Entries : From(c, p) => To(c, p) \in Entries
    BY <2>1, EntriesAssumption
  <2>4. CASE IsDirectory(Start, c.src.names)
    <3>1. PICK n \in FileNames(Start, c.src.names) :
            m = <<Append(c.src.names, n), To(c, Append(c.src.names, n))>>
      BY <2>1, <2>2, <2>4, TransferForm, PackAssumption
    <3>2. m[1] \in DOMAIN Start /\ Start[m[1]] # Directory /\ n \in Name
      BY <3>1 DEF FileNames, IsFile
    <3>3. m[1] \in Entries /\ From(c, m[1])
      BY <2>2, <3>1, <3>2, EntriesAssumption, AppendParent DEF From, MoveCommand, Line
    <3> QED
      BY <2>3, <3>1, <3>2, <3>3
  <2>5. CASE ~ IsDirectory(Start, c.src.names)
    <3>1. m = <<c.src.names, To(c, c.src.names)>>
      BY <2>1, <2>2, <2>5, TransferForm, PackAssumption
    <3>2. From(c, c.src.names)
      BY <2>5, PackAssumption DEF From, WellFormed
    <3> QED
      BY <2>2, <2>3, <2>5, <3>1, <3>2 DEF IsDirectory
  <2> QED
    BY <2>4, <2>5
<1>3. \A m \in AllPairs(s) :
        /\ m[1] \in Taken(s) /\ m[2] \in Arriving(s)
        /\ m[1] \in DOMAIN Start /\ Start[m[1]] # Directory
        /\ m[1] \in Entries /\ m[2] \in Entries
  BY <1>2 DEF AllPairs, Taken, Arriving
<1>4. Taken(s) \subseteq Entries /\ Arriving(s) \subseteq Entries
  BY <1>3 DEF Taken, Arriving
<1>5. Made(s) \cup Named(s, "DELETE") \cup Named(s, "EDIT") \subseteq Entries
  BY EntriesAssumption DEF Made, Named, NewFolder
<1>6. /\ Taken(s) \cap (Named(s, "DELETE") \cup Made(s) \cup Arriving(s) \cup Named(s, "EDIT")
                          \cup Aside) = {}
      /\ Named(s, "DELETE") \cap (Made(s) \cup Arriving(s) \cup Named(s, "EDIT") \cup Aside) = {}
      /\ Made(s) \cap (Arriving(s) \cup Named(s, "EDIT") \cup Aside) = {}
      /\ (Arriving(s) \cup Named(s, "EDIT")) \cap Aside = {}
  BY DEF Independent
<1> QED
  BY <1>1, <1>3, <1>4, <1>5, <1>6

\* What an edited path holds can be traced back to the tune that came to it.
LEMMA EditedLayout ==
    ASSUME NEW s \in Scripts, Independent(s), NEW p \in Named(s, "EDIT")
    PROVE  /\ p \notin Arriving(s) => p \in DOMAIN Start /\ Start[p] \in DOMAIN Edited
           /\ \A m \in AllPairs(s) : m[2] = p => Start[m[1]] \in DOMAIN Edited
<1>1. PICK i \in 1..Commands : s[i].op = "EDIT" /\ p = s[i].path.names
  BY DEF Named
<1> QED
  BY <1>1 DEF Independent, AllPairs

\* DELETE and MKDIR.
LEMMA RemoveMixed ==
    ASSUME NEW s \in Scripts, Independent(s), NEW cut, NEW t, Mixed(s, t, cut),
           NEW p \in Named(s, "DELETE")
    PROVE  Mixed(s, Without(t, p), cut)
BY Layout DEF Mixed, Without

LEMMA MakeMixed ==
    ASSUME NEW s \in Scripts, Independent(s), NEW cut, NEW t, Mixed(s, t, cut),
           NEW p \in Made(s)
    PROVE  Mixed(s, With(t, p, Directory), cut)
BY Layout DEF Mixed, With

\* While a file is at its source, anything can be where it goes.
LEMMA ArriveMixed ==
    ASSUME NEW s \in Scripts, Independent(s), NEW cut, NEW t, Mixed(s, t, cut),
           NEW m \in AllPairs(s), m[1] \in DOMAIN t, NEW node
    PROVE  Mixed(s, With(t, m[2], node), cut) /\ Mixed(s, Without(t, m[2]), cut)
BY Layout DEF Mixed, With, Without

\* A sidtune command edits a tune, and may be cut short.
LEMMA EditMixed ==
    ASSUME NEW s \in Scripts, Independent(s), NEW cut, cut \subseteq {Partial},
           NEW t, Mixed(s, t, cut), NEW p \in Named(s, "EDIT"), p \in DOMAIN t,
           t[p] \in DOMAIN Edited, NEW node \in {Edited[t[p]]} \cup cut
    PROVE  Mixed(s, With(t, p, node), cut)
<1>1. ASSUME NEW v, v \in DOMAIN Edited, t[p] \in Later(s, p, v, cut)
      PROVE  node \in Later(s, p, v, cut)
  BY <1>1, EditedAssumption, KindAssumption DEF Later
<1>2. \A m \in AllPairs(s) :
        m[2] = p /\ m[1] \notin DOMAIN t => node \in Later(s, p, Start[m[1]], cut)
  BY <1>1, EditedLayout DEF Mixed
<1>3. p \notin Arriving(s) => node \in Later(s, p, Start[p], cut)
  BY <1>1, EditedLayout DEF Mixed
<1> QED
  BY <1>2, <1>3, Layout DEF Mixed, With

\* Files are moved, and a directory may be made for them.
LEMMA MovedMixed ==
    ASSUME NEW s \in Scripts, Independent(s), NEW cut, NEW t, Mixed(s, t, cut),
           NEW moves, moves \subseteq AllPairs(s), \A m \in moves : m[1] \in DOMAIN t,
           NEW made, made \subseteq Made(s)
    PROVE  /\ Mixed(s, Moved(t, moves, made), cut)
           /\ \A m \in moves : m[1] \notin DOMAIN Moved(t, moves, made)
<1> DEFINE u == Moved(t, moves, made)
<1>1. IsMoved(u, t, moves, made)
  <2>1. \A m, k \in moves : m[2] = k[2] => m = k
    BY Layout
  <2> QED
    BY <2>1, MovedAt
<1> HIDE DEF u
<1>2. \A m \in moves : m[1] \in Taken(s) /\ m[2] \in Arriving(s)
  BY Layout
<1>3. ASSUME NEW p, p \notin Taken(s), p \notin Arriving(s)
      PROVE  /\ p \in DOMAIN u <=> p \in DOMAIN t \/ p \in made
             /\ p \in DOMAIN u => u[p] = IF p \in DOMAIN t THEN t[p] ELSE Directory
  BY <1>1, <1>2, <1>3 DEF IsMoved
<1>4. ASSUME NEW k \in AllPairs(s), k \notin moves
      PROVE  /\ k[1] \in DOMAIN u <=> k[1] \in DOMAIN t
             /\ k[1] \in DOMAIN u => u[k[1]] = t[k[1]]
             /\ k[2] \in DOMAIN t => k[2] \in DOMAIN u /\ u[k[2]] = t[k[2]]
  BY <1>1, <1>2, <1>4, Layout DEF IsMoved
<1>5. ASSUME NEW m \in moves
      PROVE  m[1] \notin DOMAIN u /\ m[2] \in DOMAIN u /\ u[m[2]] = Start[m[1]]
  BY <1>1, <1>2, <1>5, Layout DEF IsMoved, Mixed
<1>6. DOMAIN u \subseteq Entries
  BY <1>1, <1>2, Layout DEF IsMoved, Mixed
<1>7. ASSUME NEW p \in Named(s, "EDIT") \ Arriving(s)
      PROVE  p \in DOMAIN u /\ u[p] = t[p]
  BY <1>3, <1>7, Layout DEF Mixed
<1>8. Mixed(s, u, cut)
  <2>1. \A m \in AllPairs(s) :
          /\ m[1] \in DOMAIN u => u[m[1]] = Start[m[1]]
          /\ m[1] \notin DOMAIN u =>
               m[2] \in DOMAIN u /\ u[m[2]] \in Later(s, m[2], Start[m[1]], cut)
    BY <1>4, <1>5 DEF Mixed, Later
  <2>2. \A p \in Entries \ (Taken(s) \cup Arriving(s) \cup Made(s) \cup Named(s, "DELETE")
                             \cup Named(s, "EDIT") \cup Aside) :
          /\ p \in DOMAIN u <=> p \in DOMAIN Start
          /\ p \in DOMAIN u => u[p] = Start[p]
    BY <1>3 DEF Mixed
  <2>3. \A p \in Named(s, "DELETE") : p \in DOMAIN u => p \in DOMAIN Start /\ u[p] = Start[p]
    BY <1>3, Layout DEF Mixed
  <2>4. \A p \in Made(s) : /\ p \in DOMAIN Start => p \in DOMAIN u
                           /\ p \in DOMAIN u => u[p] = Directory
    BY <1>3, Layout DEF Mixed
  <2> QED
    BY <1>6, <1>7, <2>1, <2>2, <2>3, <2>4 DEF Mixed
<1> QED
  BY <1>5, <1>8 DEF u
\* Whether p is a directory does not change, unless something arrives there.
LEMMA SameKind ==
    ASSUME NEW s \in Scripts, Independent(s), NEW cut, cut \subseteq {Partial},
           NEW t, Mixed(s, t, cut), NEW p \in DOMAIN t, p \notin Arriving(s) \cup Aside
    PROVE  /\ t[p] # Directory => p \in DOMAIN Start
           /\ p \in DOMAIN Start => (t[p] = Directory <=> Start[p] = Directory)
<1>1. p \in Entries
  BY DEF Mixed
<1>2. CASE p \in Taken(s)
  BY <1>2, Layout DEF Taken, Mixed
<1>3. CASE p \in Made(s)
  BY <1>3 DEF Mixed, Independent
<1>4. CASE p \in Named(s, "DELETE")
  BY <1>4 DEF Mixed
<1>5. CASE p \in Named(s, "EDIT")
  <2>1. p \in DOMAIN Start /\ Start[p] \in DOMAIN Edited
    BY <1>5, EditedLayout
  <2>2. t[p] \in {Start[p], Edited[Start[p]], Partial}
    BY <1>5 DEF Mixed, Later
  <2> QED
    BY <2>1, <2>2, EditedAssumption, KindAssumption
<1>6. CASE p \notin Taken(s) \cup Made(s) \cup Named(s, "DELETE") \cup Named(s, "EDIT")
  BY <1>1, <1>6 DEF Mixed
<1> QED
  BY <1>2, <1>3, <1>4, <1>5, <1>6

\* What a command can still take.
LEMMA TransfersMixed ==
    ASSUME NEW s \in Scripts, Independent(s), NEW cut, cut \subseteq {Partial},
           NEW t, Mixed(s, t, cut), NEW i \in 1..Commands, s[i].op \in {"MOVE", "REPLACE"},
           s[i].src.names \in DOMAIN t
    PROVE  Transfers(t, s[i]) = {m \in Pairs(s, i) : m[1] \in DOMAIN t}
<1> DEFINE c == s[i]
           src == c.src.names
<1>1. /\ src \in DOMAIN Start /\ src \notin Arriving(s) \cup Aside
      /\ \A p \in Arriving(s) \cup Aside : Parent(p) # src
  BY DEF Independent
<1>2. c \in MoveCommand /\ src \in Path
  <2>1. c \in MoveCommand \cup OtherCommand \cup EditCommand
    BY ScriptsAssumption
  <2> QED
    BY <2>1 DEF MoveCommand, OtherCommand, EditCommand, Line
<1>3. IsDirectory(t, src) <=> IsDirectory(Start, src)
  BY <1>1, SameKind DEF IsDirectory
<1>4. Pairs(s, i) = Transfers(Start, c)
  BY DEF Pairs
<1>5. CASE ~ IsDirectory(Start, src)
  <2>1. Transfers(t, c) = {<<src, To(c, src)>>} /\ Transfers(Start, c) = {<<src, To(c, src)>>}
    BY <1>2, <1>3, <1>5, TransferForm
  <2> QED
    BY <1>4, <2>1
<1>6. CASE IsDirectory(Start, src)
  <2>1. ASSUME NEW n \in Name
        PROVE  n \in FileNames(t, src)
                 <=> n \in FileNames(Start, src) /\ Append(src, n) \in DOMAIN t
    <3>1. Append(src, n) \notin Arriving(s) \cup Aside
      BY <1>1, <1>2, AppendParent
    <3>2. Append(src, n) \in DOMAIN t =>
            /\ t[Append(src, n)] # Directory => Append(src, n) \in DOMAIN Start
            /\ Append(src, n) \in DOMAIN Start =>
                 (t[Append(src, n)] = Directory <=> Start[Append(src, n)] = Directory)
      BY <3>1, SameKind
    <3> QED
      BY <3>2 DEF FileNames, IsFile
  <2>2. \A m : m \in Transfers(t, c) <=>
          \E n \in FileNames(t, src) : m = <<Append(src, n), To(c, Append(src, n))>>
    BY <1>2, <1>3, <1>6, TransferForm
  <2>3. \A m : m \in Transfers(Start, c) <=>
          \E n \in FileNames(Start, src) : m = <<Append(src, n), To(c, Append(src, n))>>
    BY <1>2, <1>6, TransferForm
  <2>4. \A n \in FileNames(t, src) : n \in Name
    BY DEF FileNames
  <2>5. \A n \in FileNames(Start, src) : n \in Name
    BY DEF FileNames
  <2>6. ASSUME NEW m
        PROVE  m \in Transfers(t, c) <=> m \in Transfers(Start, c) /\ m[1] \in DOMAIN t
    <3>1. ASSUME m \in Transfers(t, c) PROVE m \in Transfers(Start, c) /\ m[1] \in DOMAIN t
      <4>1. PICK n \in FileNames(t, src) : m = <<Append(src, n), To(c, Append(src, n))>>
        BY <2>2, <3>1
      <4>2. n \in FileNames(Start, src) /\ Append(src, n) \in DOMAIN t
        BY <2>1, <2>4
      <4>3. m \in Transfers(Start, c)
        BY <2>3, <4>1, <4>2
      <4> QED
        BY <4>1, <4>2, <4>3
    <3>2. ASSUME m \in Transfers(Start, c), m[1] \in DOMAIN t PROVE m \in Transfers(t, c)
      <4>1. PICK n \in FileNames(Start, src) : m = <<Append(src, n), To(c, Append(src, n))>>
        BY <2>3, <3>2
      <4>2. n \in FileNames(t, src)
        BY <2>1, <2>5, <3>2, <4>1
      <4> QED
        BY <2>2, <4>1, <4>2
    <3> QED
      BY <3>1, <3>2
  <2> QED
    BY <1>4, <2>6
<1> QED
  BY <1>5, <1>6
\* What it takes for the command k to be executed as documented.
Can(s, t, k) ==
    /\ s[k].op \in {"MOVE", "REPLACE"} => s[k].src.names \in DOMAIN t
    /\ s[k].op = "EDIT" => s[k].path.names \in DOMAIN t /\ t[s[k].path.names] \in DOMAIN Edited

\* The lines of the command k, as parts of the whole.
LEMMA Parts ==
    ASSUME NEW s \in Scripts, NEW k \in 1..Commands
    PROVE  /\ s[k].op \in {"MOVE", "REPLACE", "DELETE", "MKDIR", "EDIT"}
           /\ Pairs(s, k) \subseteq AllPairs(s)
           /\ s[k].op \in {"MOVE", "REPLACE"} => NewFolder(s[k]) \subseteq Made(s)
           /\ s[k].op = "DELETE" => s[k].path.names \in Named(s, "DELETE")
           /\ s[k].op = "MKDIR" => s[k].path.names \in Made(s)
           /\ s[k].op = "EDIT" => s[k].path.names \in Named(s, "EDIT")
<1>1. s[k].op \in {"MOVE", "REPLACE", "DELETE", "MKDIR", "EDIT"}
  <2>1. s[k] \in MoveCommand \cup OtherCommand \cup EditCommand
    BY ScriptsAssumption
  <2> QED
    BY <2>1 DEF MoveCommand, OtherCommand, EditCommand
<1>2. Pairs(s, k) \subseteq AllPairs(s)
  BY DEF AllPairs
<1>3. \A op : s[k].op = op => s[k].path.names \in Named(s, op)
  BY DEF Named
<1>4. s[k].op \in {"MOVE", "REPLACE"} => NewFolder(s[k]) \subseteq Made(s)
  BY DEF Made
<1>5. Named(s, "MKDIR") \subseteq Made(s)
  BY DEF Made
<1> QED
  BY <1>1, <1>2, <1>3, <1>4, <1>5

\* A command that is executed as documented.
LEMMA EffectMixed ==
    ASSUME NEW s \in Scripts, Independent(s), NEW cut, cut \subseteq {Partial},
           NEW t, Mixed(s, t, cut), NEW k \in 1..Commands, Can(s, t, k)
    PROVE  Mixed(s, Effect(t, s[k]), cut)
<1>1. CASE s[k].op \in {"MOVE", "REPLACE"}
  <2>1. Transfers(t, s[k]) = {m \in Pairs(s, k) : m[1] \in DOMAIN t}
    BY <1>1, TransfersMixed DEF Can
  <2>2. Transfers(t, s[k]) \subseteq AllPairs(s) /\ \A m \in Transfers(t, s[k]) : m[1] \in DOMAIN t
    BY <2>1, Parts
  <2>3. NewFolder(s[k]) \subseteq Made(s)
    BY <1>1, Parts
  <2>4. Effect(t, s[k]) = Moved(t, Transfers(t, s[k]), NewFolder(s[k]))
    BY <1>1 DEF Effect, NewFolder
  <2> QED
    BY <2>2, <2>3, <2>4, MovedMixed
<1>2. CASE s[k].op = "DELETE"
  BY <1>2, Parts, RemoveMixed DEF Effect
<1>3. CASE s[k].op = "MKDIR"
  BY <1>3, Parts, MakeMixed DEF Effect
<1>4. CASE s[k].op = "EDIT"
  BY <1>4, Parts, EditMixed DEF Effect, Can
<1> QED
  BY <1>1, <1>2, <1>3, <1>4, Parts

\* A file that is not moved by the command k is where it was, and no file comes
\* to its place.
LEMMA EffectPlaces ==
    ASSUME NEW s \in Scripts, Independent(s), NEW cut, cut \subseteq {Partial},
           NEW t, Mixed(s, t, cut), NEW k \in 1..Commands, Can(s, t, k)
    PROVE  LET u == Effect(t, s[k])
           IN  /\ \A p \in Taken(s) \cup Named(s, "DELETE") : p \notin DOMAIN t => p \notin DOMAIN u
               /\ \A p \in Made(s) : p \in DOMAIN t => p \in DOMAIN u
               /\ \A m \in Pairs(s, k) : m[1] \notin DOMAIN u
               /\ s[k].op \in {"MOVE", "REPLACE"} => NewFolder(s[k]) \subseteq DOMAIN u
               /\ s[k].op = "DELETE" => s[k].path.names \notin DOMAIN u
               /\ s[k].op = "MKDIR" => s[k].path.names \in DOMAIN u
               /\ s[k].op = "EDIT" => u[s[k].path.names] = Edited[t[s[k].path.names]]
               /\ \A p \in Named(s, "EDIT") :
                    (\A m \in Pairs(s, k) : m[2] # p)
                      /\ (s[k].op = "EDIT" => s[k].path.names # p) /\ p \in DOMAIN t =>
                      u[p] = t[p]
<1> DEFINE u == Effect(t, s[k])
<1>1. CASE s[k].op \in {"MOVE", "REPLACE"}
  <2> DEFINE moves == Transfers(t, s[k])
             made == NewFolder(s[k])
  <2>1. moves = {m \in Pairs(s, k) : m[1] \in DOMAIN t}
    BY <1>1, TransfersMixed DEF Can
  <2>2. moves \subseteq AllPairs(s) /\ \A m \in moves : m[1] \in DOMAIN t
    BY <2>1, Parts
  <2>3. made \subseteq Made(s)
    BY <1>1, Parts
  <2>4. u = Moved(t, moves, made)
    BY <1>1 DEF Effect, NewFolder
  <2>5. \A m \in moves : m[1] \notin DOMAIN u
    BY <2>2, <2>3, <2>4, MovedMixed
  <2>6. IsMoved(u, t, moves, made)
    <3>1. \A m, k1 \in moves : m[2] = k1[2] => m = k1
      BY <2>2, Layout
    <3> QED
      BY <2>4, <3>1, MovedAt
  <2> HIDE DEF u, moves, made
  <2>7. \A m \in moves : m[1] \in Taken(s) /\ m[2] \in Arriving(s)
    BY <2>2, Layout
  <2>8. \A p \in Taken(s) \cup Named(s, "DELETE") : p \notin DOMAIN t => p \notin DOMAIN u
    BY <2>3, <2>6, <2>7, Layout DEF IsMoved
  <2>9. \A p \in Made(s) : p \in DOMAIN t => p \in DOMAIN u
    BY <2>6, <2>7, Layout DEF IsMoved
  <2>10. \A m \in Pairs(s, k) : m[1] \notin DOMAIN u
    <3>1. \A m \in Pairs(s, k) : m[1] \in Taken(s)
      BY Layout, Parts
    <3> QED
      BY <2>1, <2>5, <2>8, <3>1
  <2>11. made \subseteq DOMAIN u
    BY <2>6 DEF IsMoved
  <2>12. \A p \in Named(s, "EDIT") :
           (\A m \in Pairs(s, k) : m[2] # p) /\ p \in DOMAIN t => u[p] = t[p]
    <3> SUFFICES ASSUME NEW p \in Named(s, "EDIT"), \A m \in Pairs(s, k) : m[2] # p,
                        p \in DOMAIN t
                 PROVE  u[p] = t[p]
      OBVIOUS
    <3>1. \A m \in moves : m[2] # p /\ m[1] # p
      BY <2>1, <2>7, Layout
    <3>2. p \in DOMAIN u
      BY <2>6, <3>1 DEF IsMoved
    <3> QED
      BY <2>6, <3>1, <3>2 DEF IsMoved
  <2> QED
    BY <1>1, <2>8, <2>9, <2>10, <2>11, <2>12 DEF u, made
<1>2. CASE s[k].op = "DELETE"
  <2>1. u = Without(t, s[k].path.names) /\ s[k].path.names \in Named(s, "DELETE")
    BY <1>2, Parts DEF Effect
  <2> HIDE DEF u
  <2>2. Pairs(s, k) = {}
    BY <1>2 DEF Pairs
  <2> QED
    BY <1>2, <2>1, <2>2, Layout DEF Without, u
<1>3. CASE s[k].op = "MKDIR"
  <2>1. u = With(t, s[k].path.names, Directory) /\ s[k].path.names \in Made(s)
    BY <1>3, Parts DEF Effect
  <2> HIDE DEF u
  <2>2. Pairs(s, k) = {}
    BY <1>3 DEF Pairs
  <2> QED
    BY <1>3, <2>1, <2>2, Layout DEF With, u
<1>4. CASE s[k].op = "EDIT"
  <2> DEFINE path == s[k].path.names
  <2>1. u = With(t, path, Edited[t[path]]) /\ path \in Named(s, "EDIT") /\ path \in DOMAIN t
    BY <1>4, Parts DEF Effect, Can
  <2> HIDE DEF u
  <2>2. Pairs(s, k) = {}
    BY <1>4 DEF Pairs
  <2> QED
    BY <1>4, <2>1, <2>2, Layout DEF With, u
<1> QED
  BY <1>1, <1>2, <1>3, <1>4, Parts

\* It is done, and what was done before it stays done.
LEMMA EffectDone ==
    ASSUME NEW s \in Scripts, Independent(s), NEW cut, cut \subseteq {Partial},
           NEW t, Mixed(s, t, cut), NEW k \in 1..Commands, Can(s, t, k),
           \A i \in 1..(k - 1) : Done(s, t, i)
    PROVE  \A i \in 1..k : Done(s, Effect(t, s[k]), i)
<1> DEFINE u == Effect(t, s[k])
<1>1. /\ \A p \in Taken(s) \cup Named(s, "DELETE") : p \notin DOMAIN t => p \notin DOMAIN u
      /\ \A p \in Made(s) : p \in DOMAIN t => p \in DOMAIN u
      /\ \A m \in Pairs(s, k) : m[1] \notin DOMAIN u
      /\ s[k].op \in {"MOVE", "REPLACE"} => NewFolder(s[k]) \subseteq DOMAIN u
      /\ s[k].op = "DELETE" => s[k].path.names \notin DOMAIN u
      /\ s[k].op = "MKDIR" => s[k].path.names \in DOMAIN u
      /\ s[k].op = "EDIT" => u[s[k].path.names] = Edited[t[s[k].path.names]]
      /\ \A p \in Named(s, "EDIT") :
           (\A m \in Pairs(s, k) : m[2] # p)
             /\ (s[k].op = "EDIT" => s[k].path.names # p) /\ p \in DOMAIN t =>
             u[p] = t[p]
  BY EffectPlaces
<1> HIDE DEF u
<1>2. ASSUME NEW p \in Named(s, "EDIT"), NEW v \in DOMAIN Edited, t[p] \in Later(s, p, v, cut),
             t[p] \in DOMAIN Edited
      PROVE  Edited[t[p]] = Edited[v]
  BY <1>2, EditedAssumption, KindAssumption DEF Later
<1>3. \A j \in 1..Commands : j < k => j \in 1..(k - 1)
  BY ScriptsAssumption
<1>4. Done(s, u, k)
  <2>1. ASSUME s[k].op = "EDIT", s[k].path.names \notin Arriving(s)
        PROVE  u[s[k].path.names] = Edited[Start[s[k].path.names]]
    <3>1. s[k].path.names \in Named(s, "EDIT")
      BY <2>1, Parts
    <3> QED
      BY <1>1, <1>2, <2>1, <3>1, EditedLayout DEF Mixed, Can
  <2>2. ASSUME s[k].op = "EDIT", NEW m \in AllPairs(s), m[2] = s[k].path.names
        PROVE  u[s[k].path.names] = Edited[Start[m[1]]]
    <3>1. PICK j \in 1..Commands : m \in Pairs(s, j)
      BY DEF AllPairs
    <3>2. j < k
      BY <2>2, <3>1 DEF Independent
    <3>3. m[1] \notin DOMAIN t
      BY <1>3, <3>1, <3>2 DEF Done
    <3>4. s[k].path.names \in Named(s, "EDIT")
      BY <2>2, Parts
    <3>5. t[m[2]] \in Later(s, m[2], Start[m[1]], cut)
      BY <3>3 DEF Mixed
    <3> QED
      BY <1>1, <1>2, <2>2, <3>4, <3>5, EditedLayout DEF Can
  <2> QED
    BY <1>1, <2>1, <2>2 DEF Done
<1>5. ASSUME NEW i \in 1..Commands, i < k PROVE Done(s, u, i)
  <2>1. Done(s, t, i)
    BY <1>3, <1>5
  <2>2. \A m \in Pairs(s, i) : m[1] \notin DOMAIN u
    <3>1. \A m \in Pairs(s, i) : m[1] \in Taken(s)
      BY Layout, Parts
    <3> QED
      BY <1>1, <2>1, <3>1 DEF Done
  <2>3. s[i].op = "DELETE" => s[i].path.names \notin DOMAIN u
    BY <1>1, <2>1, Parts DEF Done
  <2>4. s[i].op = "MKDIR" => s[i].path.names \in DOMAIN u
    BY <1>1, <2>1, Parts DEF Done
  <2>5. s[i].op \in {"MOVE", "REPLACE"} => NewFolder(s[i]) \subseteq DOMAIN u
    BY <1>1, <2>1, Parts DEF Done
  <2>6. ASSUME s[i].op = "EDIT", NEW v \in DOMAIN Edited,
               s[i].path.names \in DOMAIN t, t[s[i].path.names] = Edited[v]
        PROVE  u[s[i].path.names] = Edited[v]
    <3>1. s[i].path.names \in Named(s, "EDIT")
      BY <2>6, Parts
    <3>2. \A m \in Pairs(s, k) : m[2] # s[i].path.names
      BY <1>5, <2>6, ScriptsAssumption DEF Independent
    <3>3. CASE s[k].op = "EDIT" /\ s[k].path.names = s[i].path.names
      BY <1>1, <2>6, <3>3, EditedAssumption
    <3>4. CASE ~ (s[k].op = "EDIT" /\ s[k].path.names = s[i].path.names)
      BY <1>1, <2>6, <3>1, <3>2, <3>4
    <3> QED
      BY <3>3, <3>4
  <2>7. ASSUME s[i].op = "EDIT", s[i].path.names \notin Arriving(s)
        PROVE  u[s[i].path.names] = Edited[Start[s[i].path.names]]
    <3>1. s[i].path.names \in Named(s, "EDIT")
      BY <2>7, Parts
    <3> QED
      BY <2>1, <2>6, <2>7, <3>1, EditedLayout DEF Done, Mixed
  <2>8. ASSUME s[i].op = "EDIT", NEW m \in AllPairs(s), m[2] = s[i].path.names
        PROVE  u[s[i].path.names] = Edited[Start[m[1]]]
    <3>1. PICK j \in 1..Commands : m \in Pairs(s, j)
      BY DEF AllPairs
    <3>2. j < i
      BY <2>8, <3>1 DEF Independent
    <3>3. m[1] \notin DOMAIN t
      <4>1. j \in 1..(k - 1)
        BY <1>3, <1>5, <3>2
      <4> QED
        BY <3>1, <4>1 DEF Done
    <3>4. s[i].path.names \in Named(s, "EDIT") /\ m[2] \in DOMAIN t
      BY <2>8, <3>3, Parts DEF Mixed
    <3> QED
      BY <2>1, <2>6, <2>8, <3>4, EditedLayout DEF Done
  <2> QED
    BY <2>2, <2>3, <2>4, <2>5, <2>7, <2>8 DEF Done
<1>6. \A i \in 1..k : i \in 1..Commands /\ (i < k \/ i = k)
  BY ScriptsAssumption
<1> QED
  BY <1>4, <1>5, <1>6 DEF u
\* The unpacked update, before any command.
LEMMA StartMixed ==
    ASSUME NEW s \in Scripts, Independent(s), NEW cut
    PROVE  Mixed(s, Start, cut)
<1>1. DOMAIN Start \subseteq Entries
  BY EntriesAssumption
<1>2. \A m \in AllPairs(s) : m[1] \in DOMAIN Start
  BY Layout
<1>3. \A p \in Made(s) : p \in DOMAIN Start => Start[p] = Directory
  BY DEF Independent
<1>4. ASSUME NEW p \in Named(s, "EDIT") \ Arriving(s)
      PROVE  p \in DOMAIN Start /\ Start[p] \in Later(s, p, Start[p], cut)
  BY <1>4, EditedLayout DEF Later
<1>5. \A p \in Named(s, "DELETE") : p \in DOMAIN Start => Start[p] = Start[p]
  OBVIOUS
<1> QED
  BY <1>1, <1>2, <1>3, <1>4, <1>5 DEF Mixed

\* The script and its copy are no concern of the commands.
LEMMA AsideMixed ==
    ASSUME NEW s \in Scripts, Independent(s), NEW cut, NEW t, Mixed(s, t, cut), NEW node
    PROVE  /\ Mixed(s, With(t, ArchivePath, node), cut)
           /\ Mixed(s, Without(t, ScriptPath), cut)
           /\ (\A i \in 1..Commands : Done(s, t, i)) => \A i \in 1..Commands :
                Done(s, With(t, ArchivePath, node), i) /\ Done(s, Without(t, ScriptPath), i)
<1>1. ArchivePath \in Aside /\ ScriptPath \in Aside /\ ArchivePath \in Entries
  BY EntriesAssumption DEF Aside
<1>2. Mixed(s, With(t, ArchivePath, node), cut)
  BY <1>1, Layout DEF Mixed, With
<1>3. Mixed(s, Without(t, ScriptPath), cut)
  BY <1>1, Layout DEF Mixed, Without
<1>4. ASSUME \A i \in 1..Commands : Done(s, t, i), NEW i \in 1..Commands
      PROVE  Done(s, With(t, ArchivePath, node), i) /\ Done(s, Without(t, ScriptPath), i)
  <2>1. /\ Pairs(s, i) \subseteq AllPairs(s)
        /\ s[i].op \in {"MOVE", "REPLACE"} => NewFolder(s[i]) \subseteq Made(s)
        /\ s[i].op = "DELETE" => s[i].path.names \in Named(s, "DELETE")
        /\ s[i].op = "MKDIR" => s[i].path.names \in Made(s)
        /\ s[i].op = "EDIT" => s[i].path.names \in Named(s, "EDIT")
    BY Parts
  <2>2. \A m \in Pairs(s, i) : m[1] \in Taken(s)
    BY <2>1, Layout
  <2>3. ASSUME s[i].op = "EDIT"
        PROVE  LET p == s[i].path.names
               IN  p \in DOMAIN t /\ p # ArchivePath /\ p # ScriptPath
    <3> DEFINE p == s[i].path.names
    <3>1. p \in Named(s, "EDIT") /\ p # ArchivePath /\ p # ScriptPath
      BY <1>1, <2>1, <2>3, Layout
    <3>2. CASE p \notin Arriving(s)
      BY <3>1, <3>2 DEF Mixed
    <3>3. CASE p \in Arriving(s)
      <4>1. PICK m \in AllPairs(s) : m[2] = p
        BY <3>3 DEF Arriving
      <4>2. PICK j \in 1..Commands : m \in Pairs(s, j)
        BY DEF AllPairs
      <4>3. m[1] \notin DOMAIN t
        BY <1>4, <4>2 DEF Done
      <4> QED
        BY <3>1, <4>1, <4>3 DEF Mixed
    <3> QED
      BY <3>1, <3>2, <3>3
  <2> QED
    BY <1>1, <1>4, <2>1, <2>2, <2>3, Layout DEF Done, With, Without
<1> QED
  BY <1>2, <1>3, <1>4
\* The trees that the documented commands lead through.
LEMMA ExpectedMixed ==
    ASSUME NEW s \in Scripts, Independent(s)
    PROVE  /\ Mixed(s, After(s)[Commands], {})
           /\ \A i \in 1..Commands : Done(s, After(s)[Commands], i)
<1> DEFINE e == After(s)
           Takes(t, j) == s[j].op \in {"MOVE", "REPLACE"} => s[j].src.names \in DOMAIN t
           Good(k) == /\ Mixed(s, e[k], {})
                      /\ \A i \in 1..k : Done(s, e[k], i)
                      /\ \A j \in 1..Commands : j > k => Takes(e[k], j)
           Bad == {k \in 0..Commands : ~ Good(k)}
<1>1. Commands \in Nat \ {0}
  BY ScriptsAssumption
<1>2. e[0] = Start /\ \A k \in 1..Commands : e[k] = Effect(e[k - 1], s[k])
  BY AfterSteps
<1> HIDE DEF e
<1>3. Good(0)
  BY <1>2, StartMixed DEF Independent
<1>4. ASSUME NEW k \in 1..Commands, Good(k - 1)
      PROVE  Good(k)
  <2> DEFINE t == e[k - 1]
             u == e[k]
  <2>1. Mixed(s, t, {}) /\ \A i \in 1..(k - 1) : Done(s, t, i)
    BY <1>4
  <2>2. \A j \in 1..Commands : j >= k => Takes(t, j)
    <3> HIDE DEF t, Takes
    <3> QED
      BY <1>4 DEF t
  <2>3. u = Effect(t, s[k])
    BY <1>2
  <2> HIDE DEF t, u
  <2>4. Can(s, t, k)
    <3>1. s[k].op \in {"MOVE", "REPLACE"} => s[k].src.names \in DOMAIN t
      BY <2>2
    <3>2. ASSUME s[k].op = "EDIT"
          PROVE  s[k].path.names \in DOMAIN t /\ t[s[k].path.names] \in DOMAIN Edited
      <4> DEFINE p == s[k].path.names
      <4>1. p \in Named(s, "EDIT")
        BY <3>2, Parts
      <4>2. \A v \in DOMAIN Edited : t[p] \in Later(s, p, v, {}) => t[p] \in DOMAIN Edited
        BY <4>1, EditedAssumption DEF Later
      <4>3. CASE p \notin Arriving(s)
        BY <2>1, <4>1, <4>2, <4>3, EditedLayout DEF Mixed
      <4>4. CASE p \in Arriving(s)
        <5>1. PICK m \in AllPairs(s) : m[2] = p
          BY <4>4 DEF Arriving
        <5>2. PICK j \in 1..Commands : m \in Pairs(s, j)
          BY DEF AllPairs
        <5>3. j < k
          BY <3>2, <5>1, <5>2 DEF Independent
        <5>4. m[1] \notin DOMAIN t
          <6>1. j \in 1..(k - 1)
            BY <1>1, <5>3
          <6> QED
            BY <2>1, <5>2, <6>1 DEF Done
        <5> QED
          BY <2>1, <4>1, <4>2, <5>1, <5>4, EditedLayout DEF Mixed
      <4> QED
        BY <4>3, <4>4
    <3> QED
      BY <3>1, <3>2 DEF Can
  <2>5. Mixed(s, u, {})
    BY <2>1, <2>3, <2>4, EffectMixed
  <2>6. \A i \in 1..k : Done(s, u, i)
    BY <2>1, <2>3, <2>4, EffectDone
  <2>7. ASSUME NEW j \in 1..Commands, j > k, s[j].op \in {"MOVE", "REPLACE"}
        PROVE  s[j].src.names \in DOMAIN u
    <3> DEFINE src == s[j].src.names
    <3>1. src \in DOMAIN t
      BY <1>1, <2>2, <2>7
    <3>2. src \in DOMAIN Start /\ s[j] \in MoveCommand
      <4>1. s[j] \in MoveCommand \cup OtherCommand \cup EditCommand
        BY ScriptsAssumption
      <4> QED
        BY <2>7, <4>1 DEF Independent, MoveCommand, OtherCommand, EditCommand
    <3>3. CASE s[k].op = "DELETE"
      <4>1. s[k].path.names # src
        <5>1. k \in 1..(j - 1)
          BY <1>1, <2>7
        <5> QED
          BY <2>7, <3>3, <5>1 DEF Independent
      <4> QED
        BY <2>3, <3>1, <3>3, <4>1 DEF Effect, Without
    <3>4. CASE s[k].op \in {"MKDIR", "EDIT"}
      BY <2>3, <3>1, <3>4 DEF Effect, With
    <3>5. CASE s[k].op \in {"MOVE", "REPLACE"}
      <4>1. Transfers(t, s[k]) = {m \in Pairs(s, k) : m[1] \in DOMAIN t}
        BY <2>1, <2>4, <3>5, TransfersMixed DEF Can
      <4>2. u = Moved(t, Transfers(t, s[k]), NewFolder(s[k]))
        BY <2>3, <3>5 DEF Effect, NewFolder
      <4>3. \A m \in Pairs(s, k) : m[1] # src
        <5>1. CASE IsDirectory(Start, src)
          BY <5>1, Parts, Layout DEF IsDirectory
        <5>2. CASE ~ IsDirectory(Start, src)
          <6>1. <<src, To(s[j], src)>> \in Pairs(s, j)
            BY <2>7, <3>2, <5>2, TransferForm DEF Pairs
          <6>2. \A m \in Pairs(s, k) : m[1] = <<src, To(s[j], src)>>[1] => k = j
            BY <6>1 DEF Independent
          <6> QED
            BY <1>1, <2>7, <6>2
        <5> QED
          BY <5>1, <5>2
      <4> QED
        BY <3>1, <4>1, <4>2, <4>3 DEF Moved
    <3> QED
      BY <3>3, <3>4, <3>5, Parts
  <2> QED
    BY <2>5, <2>6, <2>7 DEF u
<1> HIDE DEF Good
<1>5. Bad = {}
  <2>1. SUFFICES ASSUME Bad # {} PROVE FALSE
    OBVIOUS
  <2>2. PICK k \in Bad : \A j \in Bad : ~ (j < k)
    <3>1. Bad \subseteq Nat
      BY <1>1
    <3> HIDE DEF Bad
    <3> QED
      BY <2>1, <3>1, LeastNatural
  <2>3. k # 0
    BY <1>3, <2>2
  <2>4. k \in 1..Commands /\ k - 1 \in 0..Commands /\ k - 1 < k
    BY <1>1, <2>3
  <2>5. Good(k - 1)
    BY <2>2, <2>4
  <2> QED
    BY <1>4, <2>2, <2>4, <2>5
<1>6. Good(Commands)
  BY <1>1, <1>5
<1> QED
  BY <1>6 DEF Good, e

\* When all commands are done, it is no matter over how many runs.
LEMMA SameEnd ==
    ASSUME NEW s \in Scripts, Independent(s), NEW cut, cut \subseteq {Partial},
           NEW t, Mixed(s, t, cut), \A i \in 1..Commands : Done(s, t, i),
           NEW u, Mixed(s, u, {}), \A i \in 1..Commands : Done(s, u, i)
    PROVE  SameCollection(t, u)
<1> SUFFICES ASSUME NEW p \in Entries \ Aside
             PROVE  /\ p \in DOMAIN t <=> p \in DOMAIN u
                    /\ p \in DOMAIN t => t[p] = u[p]
  BY DEF SameCollection, Mixed
<1>1. CASE p \in Taken(s)
  <2>1. PICK i \in 1..Commands : \E m \in Pairs(s, i) : m[1] = p
    BY <1>1 DEF Taken, AllPairs
  <2> QED
    BY <2>1 DEF Done
<1>2. CASE p \in Named(s, "DELETE")
  BY <1>2 DEF Named, Done
<1>3. CASE p \in Made(s)
  <2>1. p \in DOMAIN t /\ p \in DOMAIN u
    BY <1>3 DEF Made, Named, Done
  <2> QED
    BY <1>3, <2>1 DEF Mixed
<1>4. CASE p \in Arriving(s)
  <2>1. PICK m \in AllPairs(s) : m[2] = p
    BY <1>4 DEF Arriving
  <2>2. m[1] \notin DOMAIN t /\ m[1] \notin DOMAIN u
    BY DEF AllPairs, Done
  <2>3. p \in DOMAIN t /\ p \in DOMAIN u
    BY <2>1, <2>2 DEF Mixed
  <2>4. CASE p \in Named(s, "EDIT")
    <3>1. t[p] = Edited[Start[m[1]]] /\ u[p] = Edited[Start[m[1]]]
      BY <2>1, <2>4 DEF Named, Done
    <3> QED
      BY <2>3, <3>1
  <2>5. CASE p \notin Named(s, "EDIT")
    BY <2>1, <2>2, <2>3, <2>5 DEF Mixed, Later
  <2> QED
    BY <2>4, <2>5
<1>5. CASE p \in Named(s, "EDIT") \ Arriving(s)
  BY <1>5 DEF Named, Done, Mixed
<1>6. CASE p \notin Taken(s) \cup Arriving(s) \cup Made(s) \cup Named(s, "DELETE")
                     \cup Named(s, "EDIT")
  BY <1>6 DEF Mixed
<1> QED
  BY <1>1, <1>2, <1>3, <1>4, <1>5, <1>6
\* A command at work on what is left of its script leaves, if it stops here, no
\* more than what could be left.
LEMMA MidwayMixed ==
    ASSUME Kept, Independent(script), pc \notin {Idle} \cup Ended, ~ Astray,
           NEW T, Mixed(script, T, {Partial}), Midway(T)
    PROVE  /\ Mixed(script, tree, {Partial})
           /\ Can(script, T, step)
           /\ pc # "save" /\ cmd.dst.slash =>
                /\ IsDirectory(tree, cmd.dst.names)
                /\ pc \in Transferring => cmd.dst.names # Destination
<1>1. /\ script \in Scripts /\ step \in 1..Commands
      /\ pc # "save" => cmd = script[step] /\ cmd \in MoveCommand
                          /\ pc \in {"next"} \cup Transferring
  BY ScriptsAssumption DEF Kept, Base, AtWork, IndInv, TypeOK
<1>2. CASE pc = "save"
  <2> DEFINE path == script[step].path.names
  <2>1. /\ path \in DOMAIN T /\ object = T[path] /\ tree = With(T, path, Partial)
        /\ object \in DOMAIN Edited /\ script[step].op = "EDIT"
    BY <1>2 DEF Midway, Kept, Base, Saving
  <2>2. path \in Named(script, "EDIT")
    BY <1>1, <2>1, Parts
  <2>3. Mixed(script, With(T, path, Partial), {Partial})
    BY <1>1, <2>1, <2>2, EditMixed
  <2> QED
    BY <1>2, <2>1, <2>3 DEF Can
<1>3. CASE pc # "save"
  <2> DEFINE d == DoneFiles(T)
             dst == cmd.dst.names
             far == SoFar(T)
  <2>1. /\ OnCourse(T)
        /\ cmd = script[step] /\ cmd \in MoveCommand /\ cmd.op \in {"MOVE", "REPLACE"}
        /\ cmd.src.names \in DOMAIN T
    BY <1>1, <1>3 DEF Midway, OnCourse, MoveCommand
  <2>2. Can(script, T, step)
    BY <2>1 DEF Can
  <2>3. Transfers(T, cmd) = {m \in Pairs(script, step) : m[1] \in DOMAIN T}
    BY <1>1, <2>1, TransfersMixed
  <2>4. d \subseteq AllPairs(script) /\ \A m \in d : m[1] \in DOMAIN T
    BY <1>1, <2>3, Parts DEF DoneFiles
  <2>5. NewFolder(cmd) \subseteq Made(script)
    BY <1>1, <2>1, Parts
  <2>6. far = Moved(T, d, NewFolder(cmd))
    BY DEF SoFar
  <2>7. Mixed(script, far, {Partial})
    BY <1>1, <2>4, <2>5, <2>6, MovedMixed
  <2>8. DOMAIN far = (DOMAIN T \ {m[1] : m \in d}) \cup {m[2] : m \in d} \cup NewFolder(cmd)
    BY <2>6 DEF Moved
  <2> HIDE DEF far, d
  <2>9. cmd.dst.slash => dst \in Made(script) /\ IsDirectory(far, dst)
    BY <2>5, <2>7, <2>8 DEF NewFolder, Mixed, IsDirectory
  <2>10. CASE pc = "next"
    <3>1. tree = far
      BY <1>3, <2>10 DEF Midway, far
    <3> QED
      BY <2>2, <2>7, <2>9, <2>10, <3>1 DEF Transferring
  <2>11. CASE pc \in Transferring
    <3> DEFINE m == <<job.source, To(cmd, job.source)>>
    <3>1. m \in Transfers(T, cmd) /\ job.source \in DOMAIN T /\ m[1] = job.source
          /\ m[2] = To(cmd, job.source)
      BY <2>1, <2>11 DEF OnCourse
    <3>2. Destination = m[2]
      BY <2>11 DEF Kept, Aimed
    <3> HIDE DEF m
    <3>3. m \in AllPairs(script) /\ m[2] \in Arriving(script)
      BY <1>1, <2>3, <3>1, Parts, Layout
    <3>4. m[1] \in DOMAIN far
      BY <2>8, <2>11, <3>1 DEF d, DoneFiles
    <3>5. \A node : Mixed(script, With(far, m[2], node), {Partial})
      BY <1>1, <2>7, <3>3, <3>4, ArriveMixed
    <3>6. Mixed(script, Without(far, m[2]), {Partial})
      BY <1>1, <2>7, <3>3, <3>4, ArriveMixed
    <3>7. \/ tree = far \/ tree = Without(far, m[2])
          \/ tree = With(far, m[2], Partial) \/ tree = With(far, m[2], T[job.source])
      BY <1>3, <2>11, <3>2 DEF Midway, Transferring, far
    <3>8. Mixed(script, tree, {Partial})
      BY <2>7, <3>5, <3>6, <3>7
    <3>9. ASSUME cmd.dst.slash PROVE dst # m[2] /\ IsDirectory(tree, dst)
      <4>1. dst # m[2]
        BY <1>1, <2>9, <3>3, <3>9, Layout
      <4> QED
        BY <2>9, <3>7, <3>9, <4>1 DEF IsDirectory, With, Without
    <3> QED
      BY <2>2, <3>2, <3>8, <3>9
  <2> QED
    BY <1>1, <1>3, <2>10, <2>11
<1> QED
  BY <1>2, <1>3

\* A command that fails at once may have made its directory; none goes astray.
LEMMA BeginMixed ==
    ASSUME Kept, Independent(script), BeginCommand, Mixed(script, tree, {Partial})
    PROVE  /\ Abort \/ LogError => Mixed(script, tree', {Partial})
           /\ ~ Astray'
<1> DEFINE command == script[step]
<1>1. /\ step \in 1..Commands /\ pc = Idle /\ script' = script /\ script \in Scripts
      /\ WellFormed(tree) /\ DOMAIN tree \subseteq Entries
      /\ Careful /\ Contained
  BY ScriptsAssumption DEF BeginCommand, Kept, Base, AtWork, Contained, Idle, Ended
<1>2. /\ command.op \in {"MOVE", "REPLACE", "DELETE", "MKDIR", "EDIT"}
      /\ command.op \in {"MOVE", "REPLACE"} => command \in MoveCommand
      /\ command.op = "EDIT" => command \in EditCommand
  BY <1>1, ScriptCommand
<1>3. /\ SpelledOneWay
      /\ command.op \in {"MOVE", "REPLACE"} =>
           /\ command.src.names \in Entries /\ command.dst.names \in Entries
           /\ \A p \in Entries : From(command, p) => To(command, p) \in Entries
           /\ ~ command.dst.slash => command.dst.names \notin Folders
      /\ command.op \notin {"MOVE", "REPLACE"} => command.path.names \in Entries
  BY <1>1, CarefulLines
<1>4. Ends => pc' \in {Idle} \cup Ended
  BY DEF Ends, Abort, LogError, Complete, Forget, Ended
<1>5. Abort \/ LogError => Ends
  BY DEF Ends
<1>6. pc' \in {Idle, "save", "next"} \cup Ended => ~ Astray'
  BY DEF Astray, Idle, Ended
<1>7. CASE command.op \in {"MOVE", "REPLACE"}
  <2> DEFINE dst == command.dst.names
  <2>1. Begin(command) /\ command \in MoveCommand
    BY <1>2, <1>7 DEF BeginCommand
  <2>2. ~ command.dst.slash => ~ IsDirectory(tree, command.dst.names)
    BY <1>1, <1>3, <1>7 DEF Contained, IsDirectory
  <2>3. /\ \/ tree' = tree
           \/ command.dst.slash /\ tree' = With(tree, dst, Directory)
        /\ Abort \/ LogError \/ TurnsToFolder(command) \/ TurnsToFile(command)
    BY <1>1, <1>3, <1>7, <2>1, <2>2, BeginExact
  <2>4. command.dst.slash => dst \in Made(script)
    BY <1>1, <1>7, Parts DEF NewFolder
  <2>5. Mixed(script, tree', {Partial})
    BY <1>1, <2>3, <2>4, MakeMixed
  <2>6. command.dst.slash => ~ IsFile(tree', dst)
    BY <2>4, <2>5 DEF Mixed, IsFile
  <2>7. TurnsToFolder(command) => pc' = "next"
    BY DEF TurnsToFolder
  <2>8. TurnsToFile(command) => ~ Astray'
    BY <2>6 DEF TurnsToFile, Astray
  <2> QED
    BY <1>4, <1>5, <1>6, <2>3, <2>5, <2>7, <2>8
<1>8. CASE command.op = "DELETE"
  <2>1. \/ (Abort \/ LogError) /\ tree' = tree
        \/ Complete /\ ~ (Abort \/ LogError)
    <3>1. Complete => ~ (Abort \/ LogError)
      BY DEF Complete, Abort, LogError, Forget, Idle
    <3> QED
      BY <1>1, <1>3, <1>8, <3>1, DeleteExact DEF BeginCommand
  <2> QED
    BY <1>4, <1>6, <2>1 DEF Ends
<1>9. CASE command.op = "MKDIR"
  <2>1. \/ (Abort \/ LogError) /\ tree' = tree
        \/ Complete /\ ~ (Abort \/ LogError)
    <3>1. Complete => ~ (Abort \/ LogError)
      BY DEF Complete, Abort, LogError, Forget, Idle
    <3> QED
      BY <1>1, <1>3, <1>9, <3>1, MakeDirectoryExact DEF BeginCommand
  <2> QED
    BY <1>4, <1>6, <2>1 DEF Ends
<1>10. CASE command.op = "EDIT"
  <2>1. \/ (Abort \/ LogError) /\ tree' = tree
        \/ pc' = "save" /\ ~ (Abort \/ LogError)
    <3>1. pc' = "save" => ~ (Abort \/ LogError)
      BY DEF Abort, LogError, Forget, Idle
    <3> QED
      BY <1>1, <1>2, <1>3, <1>10, <3>1, EditExact DEF BeginCommand
  <2> QED
    BY <1>4, <1>6, <2>1 DEF Ends
<1> QED
  BY <1>2, <1>7, <1>8, <1>9, <1>10

\* A command that fails on its way leaves the tree as it is.
LEMMA ContinueMixed ==
    ASSUME Kept, Independent(script), ~ Astray, ContinueCommand,
           NEW T, Mixed(script, T, {Partial}), Midway(T)
    PROVE  /\ Abort => tree' = tree
           /\ ~ Astray'
<1>1. /\ pc \in {"save", "next"} \cup Transferring
      /\ pc \notin {Idle} \cup Ended
  <2>1. pc \in {"save", "next"} \cup Transferring
    BY DEF ContinueCommand, SaveTune, NextFile, EndCommand, RemoveOld, OpenDestination,
       FillDestination, RemoveSource, Transferring
  <2> QED
    BY <2>1 DEF Idle, Ended, Transferring
<1>2. pc # "save" /\ cmd.dst.slash =>
        /\ IsDirectory(tree, cmd.dst.names)
        /\ pc \in Transferring => cmd.dst.names # Destination
  BY <1>1, MidwayMixed
<1>3. Abort => pc' = "aborted"
  BY DEF Abort, Forget
<1>4. pc' \notin {"removeOld", "open"} => ~ Astray'
  BY DEF Astray
<1>5. CASE SaveTune \/ EndCommand
  BY <1>3, <1>4, <1>5 DEF SaveTune, EndCommand, Complete, Forget, Idle
<1>6. CASE NextFile
  <2>1. pc = "next" /\ tree' = tree /\ (Abort \/ cmd' = cmd)
    BY <1>6 DEF NextFile, Transfer
  <2>2. CASE Abort
    BY <1>3, <1>4, <2>1, <2>2
  <2>3. CASE cmd' = cmd
    BY <1>2, <2>1, <2>3 DEF Astray, IsDirectory
  <2> QED
    BY <2>1, <2>2, <2>3
<1>7. CASE RemoveOld
  <2>1. CASE Abort /\ tree' = tree
    BY <1>3, <1>4, <2>1
  <2>2. CASE ~ (Abort /\ tree' = tree)
    <3>1. pc = "removeOld" /\ tree' = Without(tree, job.old) /\ pc' = "open"
          /\ UNCHANGED <<cmd, job>>
      BY <1>7, <2>2 DEF RemoveOld
    <3>2. job.old \in {NoPath, Destination}
      BY <3>1 DEF Kept, Aimed, Transferring
    <3>3. NoPath \notin DOMAIN tree
      BY NoPathIsNoPath DEF Kept, Base, WellFormed
    <3>4. cmd.dst.slash => IsDirectory(tree', cmd.dst.names)
      BY <1>2, <3>1, <3>2, <3>3 DEF IsDirectory, Without, Transferring
    <3> QED
      BY <1>3, <3>1, <3>4 DEF Astray, IsDirectory
  <2> QED
    BY <2>1, <2>2
<1>8. CASE OpenDestination
  BY <1>3, <1>4, <1>8 DEF OpenDestination
<1>9. CASE FillDestination
  BY <1>3, <1>4, <1>9 DEF FillDestination
<1>10. CASE RemoveSource
  BY <1>3, <1>4, <1>10 DEF RemoveSource
<1> QED
  BY <1>5, <1>6, <1>7, <1>8, <1>9, <1>10 DEF ContinueCommand
\* What holds over however many runs: between commands the tree is one that can
\* be left over, and the commands since the last error-free start are done.
Reruns ==
    /\ pc \in {Idle} \cup Ended => Fresh \/ Mixed(script, tree, {Partial})
    /\ pc \notin {Idle} \cup Ended =>
         /\ ~ Astray
         /\ \E T : /\ Mixed(script, T, {Partial}) /\ Midway(T)
                   /\ errors = 0 => \A i \in 1..(step - 1) : Done(script, T, i)
    /\ main = "commands" /\ pc = Idle /\ errors = 0 =>
         \A i \in 1..(step - 1) : Done(script, tree, i)
    /\ main \in Finished => \A i \in 1..Commands : Done(script, tree, i)

LEMMA RerunsInit == SessionInit => Reruns
BY DEF SessionInit, Reruns, Fresh, Finished, Idle

\* A command that begins.
LEMMA RerunsBegin ==
    ASSUME Kept, Independent(script), Reruns, BeginCommand
    PROVE  Reruns'
<1>1. /\ main = "commands" /\ step \in 1..Commands /\ pc = Idle /\ Outcome /\ errors \in Nat
      /\ script \in Scripts /\ UNCHANGED <<script, expected>>
  BY ScriptsAssumption DEF BeginCommand, Kept, Base, AtWork
<1>2. Mixed(script, tree, {Partial})
  BY <1>1 DEF Reruns, Fresh
<1>3. errors = 0 => \A i \in 1..(step - 1) : Done(script, tree, i)
  BY <1>1 DEF Reruns
<1>4. /\ Abort \/ LogError => Mixed(script, tree', {Partial})
      /\ ~ Astray'
  BY <1>2, BeginMixed
<1>5. PICK T : T = tree
  OBVIOUS
<1>6. \/ Abort \/ LogError
      \/ Complete /\ tree' = Effect(T, script[step]) /\ script[step].op \in {"DELETE", "MKDIR"}
      \/ pc' \in {"save", "next"} \cup Transferring /\ Midway(T)'
  BY <1>5, BeginMidway
<1>7. \/ pc' = "aborted" /\ main' = "aborted" /\ UNCHANGED step
      \/ pc' \notin {Idle, "aborted"} /\ UNCHANGED <<main, step, errors>>
      \/ pc' = Idle /\ main' = main /\ step' = step + 1
         /\ (errors' = 0 => errors = 0 /\ ~ logged')
  BY <1>1, OutcomeSteps
<1>8. CASE Abort \/ LogError
  <2>1. pc' \in {Idle} \cup Ended /\ main' \notin Finished
    BY <1>1, <1>7, <1>8 DEF Abort, LogError, Forget, Ended, Finished
  <2>2. main' = "commands" => errors' # 0
    BY <1>7, <1>8 DEF Abort, LogError, Forget, Idle
  <2> QED
    BY <1>1, <1>4, <1>8, <2>1, <2>2 DEF Reruns
<1>9. CASE Complete /\ tree' = Effect(T, script[step]) /\ script[step].op \in {"DELETE", "MKDIR"}
  <2>1. Can(script, T, step)
    BY <1>9 DEF Can
  <2>2. pc' = Idle /\ main' = main /\ step' = step + 1 /\ (errors' = 0 => errors = 0)
    BY <1>7, <1>9 DEF Complete, Forget, Idle
  <2>3. Mixed(script, tree', {Partial})
    BY <1>1, <1>2, <1>5, <1>9, <2>1, EffectMixed
  <2>4. errors = 0 => \A i \in 1..step : Done(script, tree', i)
    BY <1>1, <1>2, <1>3, <1>5, <1>9, <2>1, EffectDone
  <2>5. step' - 1 = step /\ main' \notin Finished
    BY <1>1, <2>2 DEF Finished
  <2> QED
    BY <1>1, <2>2, <2>3, <2>4, <2>5 DEF Reruns
<1>10. CASE pc' \in {"save", "next"} \cup Transferring /\ Midway(T)'
  <2>1. pc' \notin {Idle} \cup Ended /\ pc' # "aborted"
    BY <1>10 DEF Idle, Ended, Transferring
  <2>2. UNCHANGED <<main, step, errors, script>> /\ main' \notin Finished
    BY <1>1, <1>7, <2>1 DEF Finished
  <2>3. /\ Mixed(script', T, {Partial})
        /\ errors' = 0 => \A i \in 1..(step' - 1) : Done(script', T, i)
    BY <1>2, <1>3, <1>5, <2>2
  <2> QED
    BY <1>4, <1>10, <2>1, <2>2, <2>3 DEF Reruns
<1> QED
  BY <1>6, <1>8, <1>9, <1>10

\* A command that goes on.
LEMMA RerunsContinue ==
    ASSUME Kept, Independent(script), Reruns, ContinueCommand
    PROVE  Reruns'
<1>1. pc \in {"save", "next"} \cup Transferring
  BY DEF ContinueCommand, SaveTune, NextFile, EndCommand, RemoveOld, OpenDestination,
     FillDestination, RemoveSource, Transferring
<1>2. /\ main = "commands" /\ step \in 1..Commands /\ Outcome /\ errors \in Nat
      /\ pc \notin {Idle} \cup Ended
      /\ script \in Scripts /\ UNCHANGED <<script, expected>>
  BY <1>1, ScriptsAssumption
     DEF ContinueCommand, Kept, Base, AtWork, Idle, Ended, Transferring
<1>3. ~ Astray
  BY <1>2 DEF Reruns
<1>4. PICK T : /\ Mixed(script, T, {Partial}) /\ Midway(T)
               /\ errors = 0 => \A i \in 1..(step - 1) : Done(script, T, i)
  BY <1>2 DEF Reruns
<1>5. (Abort => tree' = tree) /\ ~ Astray'
  BY <1>3, <1>4, ContinueMixed
<1>6. Mixed(script, tree, {Partial}) /\ Can(script, T, step)
  BY <1>2, <1>3, <1>4, MidwayMixed
<1>7. \/ Abort
      \/ Complete /\ tree' = Effect(T, script[step])
      \/ pc' \in {"next"} \cup Transferring /\ Midway(T)'
  BY <1>4, ContinueMidway
<1>8. \/ pc' = "aborted" /\ main' = "aborted" /\ UNCHANGED step
      \/ pc' \notin {Idle, "aborted"} /\ UNCHANGED <<main, step, errors>>
      \/ pc' = Idle /\ main' = main /\ step' = step + 1
         /\ (errors' = 0 => errors = 0 /\ ~ logged')
  BY <1>2, OutcomeSteps
<1>9. CASE Abort
  <2>1. pc' = "aborted"
    BY <1>9 DEF Abort, Forget
  <2>2. main' = "aborted"
    BY <1>8, <2>1 DEF Idle
  <2> QED
    BY <1>2, <1>5, <1>6, <1>9, <2>1, <2>2 DEF Reruns, Ended, Finished
<1>10. CASE Complete /\ tree' = Effect(T, script[step])
  <2>1. pc' = Idle /\ main' = main /\ step' = step + 1 /\ (errors' = 0 => errors = 0)
    BY <1>8, <1>10 DEF Complete, Forget, Idle
  <2>2. Mixed(script, tree', {Partial})
    BY <1>2, <1>4, <1>6, <1>10, EffectMixed
  <2>3. errors = 0 => \A i \in 1..step : Done(script, tree', i)
    BY <1>2, <1>4, <1>6, <1>10, EffectDone
  <2>4. step' - 1 = step /\ main' \notin Finished
    BY <1>2, <2>1 DEF Finished
  <2> QED
    BY <1>2, <2>1, <2>2, <2>3, <2>4 DEF Reruns
<1>11. CASE pc' \in {"next"} \cup Transferring /\ Midway(T)'
  <2>1. pc' \notin {Idle} \cup Ended /\ pc' # "aborted"
    BY <1>11 DEF Idle, Ended, Transferring
  <2>2. UNCHANGED <<main, step, errors, script>> /\ main' \notin Finished
    BY <1>2, <1>8, <2>1 DEF Finished
  <2>3. /\ Mixed(script', T, {Partial})
        /\ errors' = 0 => \A i \in 1..(step' - 1) : Done(script', T, i)
    BY <1>4, <2>2
  <2> QED
    BY <1>5, <1>11, <2>1, <2>2, <2>3 DEF Reruns
<1> QED
  BY <1>7, <1>9, <1>10, <1>11

\* main around the commands.
LEMMA RerunsOther ==
    ASSUME Kept, Independent(script), Reruns, [SessionNext]_all,
           ~ BeginCommand, ~ ContinueCommand
    PROVE  Reruns'
<1>1. /\ script' = script /\ script \in Scripts
      /\ pc \notin {Idle} \cup Ended => main = "commands" /\ step <= Commands
      /\ main = "commands" => step \in 1..(Commands + 1)
      /\ Commands \in Nat \ {0}
  BY ScriptStays, ScriptsAssumption DEF Kept, Base, AtWork
<1>2. CASE UNCHANGED all
  <2>1. UNCHANGED <<script, tree, pc, cmd, job, object, main, step, errors, resumed>>
    BY <1>2 DEF all, files, session
  <2>2. Fresh' <=> Fresh
    BY <2>1 DEF Fresh
  <2>3. Astray' <=> Astray
    BY <2>1 DEF Astray, IsDirectory
  <2>4. ASSUME NEW T PROVE Midway(T)' <=> Midway(T)
    BY <2>1 DEF Midway, OnCourse, SoFar, DoneFiles, Astray, Destination, IsDirectory
  <2>5. CASE pc \in {Idle} \cup Ended
    BY <2>1, <2>2, <2>5 DEF Reruns
  <2>6. CASE pc \notin {Idle} \cup Ended
    <3>1. PICK T : /\ Mixed(script, T, {Partial}) /\ Midway(T)
                   /\ errors = 0 => \A i \in 1..(step - 1) : Done(script, T, i)
      BY <2>6 DEF Reruns
    <3>2. Midway(T)'
      BY <2>4, <3>1
    <3> QED
      BY <1>1, <2>1, <2>3, <2>6, <3>1, <3>2 DEF Reruns, Finished
  <2> QED
    BY <2>5, <2>6
<1>3. CASE Check
  <2>1. UNCHANGED <<tree, pc, step, errors, resumed>>
    BY <1>3, CheckSteps DEF files, session
  <2>2. \/ main \in {"directories", "version"} /\ main' \in {"version", "script"}
        \/ main = "script" /\ ~ Exists(tree, ScriptPath) /\ main' = "exit1"
        \/ main = "script" /\ Exists(tree, ScriptPath) /\ main' = "hubbard"
        \/ main \in {"hubbard", "header", "check"} /\ main' \in {"header", "check", "open"}
        \/ /\ main = "commands" /\ step > Commands
           /\ main' = (IF errors = 0 THEN "archive" ELSE "exit1")
    BY <1>3, CheckSteps
  <2>3. pc \in {Idle} \cup Ended
    BY <1>1, <2>2
  <2>4. Fresh \/ Mixed(script, tree, {Partial})
    BY <2>3 DEF Reruns
  <2>5. CASE main = "commands"
    <3>1. step - 1 = Commands /\ pc = Idle
      BY <1>1, <2>2, <2>3, <2>5 DEF Kept, Base, AtWork
    <3>2. errors = 0 => \A i \in 1..Commands : Done(script, tree, i)
      BY <2>5, <3>1 DEF Reruns
    <3>3. Mixed(script, tree, {Partial}) /\ main' # "commands"
      BY <2>2, <2>4, <2>5 DEF Fresh
    <3> QED
      BY <1>1, <2>1, <2>2, <2>3, <2>5, <3>2, <3>3 DEF Reruns, Finished
  <2>6. CASE main # "commands"
    <3>1. main' # "commands" /\ main' \notin Finished
      BY <2>2, <2>6 DEF Finished
    <3>2. Fresh => Fresh'
      <4> SUFFICES ASSUME Fresh PROVE Fresh'
        OBVIOUS
      <4>1. ~ Exists(tree, ScriptPath)
        BY PackAssumption DEF Fresh
      <4> QED
        BY <2>1, <2>2, <4>1 DEF Fresh
    <3> QED
      BY <1>1, <2>1, <2>3, <2>4, <3>1, <3>2 DEF Reruns
  <2> QED
    BY <2>5, <2>6
<1>4. CASE OpenErrors
  <2>1. UNCHANGED <<tree, pc>> /\ step' = 1 /\ main = "open" /\ main' = "commands"
    BY <1>4 DEF OpenErrors, files
  <2>2. pc \in {Idle} \cup Ended /\ Mixed(script, tree, {Partial})
    BY <1>1, <2>1 DEF Reruns, Fresh
  <2> QED
    BY <1>1, <2>1, <2>2 DEF Reruns, Finished
<1>5. CASE StartSession
  <2>1. /\ tree' = tree /\ main' = "directories" /\ step' = 0 /\ pc' = Idle
        /\ main # "commands" /\ resumed' = (resumed \/ step > 0)
    BY <1>5, StartSteps
  <2>2. Fresh \/ Mixed(script, tree, {Partial})
    BY <1>1, <2>1 DEF Reruns
  <2>3. Fresh => Fresh'
    <3>1. step = 0 => ~ (step > 0)
      OBVIOUS
    <3>2. ~ resumed /\ ~ (step > 0) => ~ resumed'
      BY <2>1
    <3> QED
      BY <2>1, <3>1, <3>2 DEF Fresh
  <2> QED
    BY <1>1, <2>1, <2>2, <2>3 DEF Reruns, Finished
<1>6. CASE UnpackUpdate
  <2>1. UNCHANGED <<main, pc>> /\ main = "idle"
    BY <1>6 DEF UnpackUpdate
  <2>2. tree' = Start
    <3>1. tree = Original
      BY <1>6, Paths DEF UnpackUpdate, Kept, Base, Fresh, Exists
    <3> QED
      BY <1>6, <3>1 DEF UnpackUpdate, Start
  <2>3. Mixed(script, tree', {Partial})
    BY <1>1, <2>2, StartMixed
  <2> QED
    BY <1>1, <2>1, <2>3 DEF Reruns, Finished
<1>7. CASE KillProcess
  <2>1. UNCHANGED <<tree, step, resumed>> /\ main' = "killed" /\ pc' = "killed"
    BY <1>7 DEF KillProcess, Forget
  <2>2. CASE pc \in {Idle} \cup Ended
    <3>1. Fresh => Fresh'
      BY <2>1 DEF Fresh
    <3> QED
      BY <1>1, <2>1, <2>2, <3>1 DEF Reruns, Finished, Ended, Idle
  <2>3. CASE pc \notin {Idle} \cup Ended
    <3>1. Mixed(script, tree, {Partial})
      BY <2>3, MidwayMixed DEF Reruns
    <3> QED
      BY <1>1, <2>1, <3>1 DEF Reruns, Finished, Ended, Idle
  <2> QED
    BY <2>2, <2>3
<1>8. CASE Archive \/ FillCopy \/ DropScript \/ DropErrors
  <2>1. /\ UNCHANGED pc /\ main \in Finished /\ main # "commands"
        /\ main' # "commands"
        /\ \/ tree' = tree
           \/ tree' = With(tree, ArchivePath, Partial)
           \/ tree' = With(tree, ArchivePath, tree[ScriptPath])
           \/ tree' = Without(tree, ScriptPath)
    BY <1>8 DEF Archive, FillCopy, DropScript, DropErrors, Finished, files
  <2>2. /\ pc \in {Idle} \cup Ended /\ Mixed(script, tree, {Partial})
        /\ \A i \in 1..Commands : Done(script, tree, i)
    BY <1>1, <2>1 DEF Reruns, Fresh, Finished
  <2>3. Mixed(script, tree', {Partial}) /\ \A i \in 1..Commands : Done(script, tree', i)
    BY <1>1, <2>1, <2>2, AsideMixed
  <2> QED
    BY <1>1, <2>1, <2>2, <2>3 DEF Reruns
<1> QED
  BY <1>2, <1>3, <1>4, <1>5, <1>6, <1>7, <1>8 DEF SessionNext, Work

\* A run that archives its script has made of the collection exactly what the
\* documented commands make of it, whatever runs of the same script were killed,
\* aborted or ended with errors before it, and wherever they stopped, if its
\* commands are independent; the first run to get to the commands has, whether
\* they are or not.
THEOREM ArchivedIsExact ==
    SessionSpec => [](Careful /\ (resumed => Independent(script)) => ArchivedMeansUpdated)
<1> DEFINE Inv == Careful => /\ Kept /\ FirstRun
                             /\ Independent(script) => Reruns
<1>1. SessionInit => Inv
  BY KeptInit, FirstRunInit, RerunsInit
<1>2. Inv /\ [SessionNext]_all => Inv'
  <2> SUFFICES ASSUME Inv, [SessionNext]_all, Careful' PROVE Inv'
    OBVIOUS
  <2>1. script' = script
    BY ScriptStays
  <2>2. Careful
    BY <2>1 DEF Careful, Folders
  <2>3. Kept' /\ FirstRun'
    BY <2>2, KeptNext, FirstRunNext
  <2>4. Independent(script') => Reruns'
    BY <2>1, <2>2, RerunsBegin, RerunsContinue, RerunsOther
  <2> QED
    BY <2>3, <2>4
<1>3. Inv => (Careful /\ (resumed => Independent(script)) => ArchivedMeansUpdated)
  <2> SUFFICES ASSUME Inv, Careful, resumed => Independent(script),
                      main \in {"copying", "removeScript", "removeErrors", "exit0"}
               PROVE  SameCollection(tree, expected[Commands])
    BY DEF ArchivedMeansUpdated, SameCollection, Aside
  <2>1. main \in Finished
    BY DEF Finished
  <2>2. CASE ~ resumed
    BY <2>1, <2>2 DEF FirstRun
  <2>3. CASE resumed
    <3>1. /\ script \in Scripts /\ expected = After(script) /\ Independent(script)
          /\ pc \in {Idle} \cup Ended
      BY <2>1, <2>3 DEF Kept, Base, AtWork, Finished
    <3>2. /\ Mixed(script, tree, {Partial})
          /\ \A i \in 1..Commands : Done(script, tree, i)
      BY <2>1, <3>1 DEF Reruns, Fresh, Finished
    <3>3. /\ Mixed(script, expected[Commands], {})
          /\ \A i \in 1..Commands : Done(script, expected[Commands], i)
      BY <3>1, ExpectedMixed
    <3> QED
      BY <3>1, <3>2, <3>3, SameEnd
  <2> QED
    BY <2>2, <2>3
<1> QED
  BY <1>1, <1>2, <1>3, PTL DEF SessionSpec
-----------------------------------------------------------------------------
(* The session, seen as a run of UpdateRun.                                *)

\* A command makes the directory p, if it is not there.
Makes(c, p) ==
    \/ c.op = "MKDIR" /\ c.path.names = p
    \/ c.op \in {"MOVE", "REPLACE"} /\ c.dst.slash /\ c.dst.names = p

\* It puts a file at p.
Puts(c, p) ==
    c.op \in {"MOVE", "REPLACE"} /\ \E q \in Entries : From(c, q) /\ To(c, q) = p

\* What a command that works only once takes away.
Takes(c) == IF c.op = "DELETE" THEN c.path.names ELSE c.src.names

\* What HVSC.txt tells in the tree t.
TellsOf(t) ==
    IF ~ Exists(t, ReleasePath) THEN 0
    ELSE CASE t[ReleasePath] = OldText -> 1
           [] t[ReleasePath] = NewText -> 2
           [] OTHER -> 0

\* An update as its makers publish it.  The collection tells no new version,
\* and the directory for the copy of the script is there, without the copy.
\* The last command, and no other one, brings the new HVSC.txt, which comes
\* with the pack; no command is about the script.  A command that is not
\* repeatable deletes an entry or takes a single file, which no command brings.
Publishes(s) ==
    /\ OldText \notin {NewText, Partial}
    /\ TellsOf(Original) # 2 /\ ReleasePath \notin DOMAIN Pack \cup {ArchivePath}
    /\ IsDirectory(Original, ArchiveDir) /\ ArchivePath \notin DOMAIN Start
    /\ Start[ScriptPath] # Partial
    /\ \A i \in 1..Commands :
         /\ ~ About(s[i], ScriptPath) /\ ~ About(s[i], ArchivePath)
         /\ ~ Puts(s[i], ArchiveDir)
         /\ s[i].op = "DELETE" => s[i].path.names # ArchiveDir
    /\ LET last == s[Commands]
           fresh == last.src.names
       IN  /\ last.op \in {"MOVE", "REPLACE"} /\ To(last, fresh) = ReleasePath
           /\ IsFile(Start, fresh) /\ Start[fresh] = NewText /\ fresh \notin DOMAIN Original
           /\ ~ Makes(last, fresh) /\ ~ Puts(last, fresh)
           /\ \A i \in 1..(Commands - 1) :
                ~ About(s[i], fresh) /\ ~ About(s[i], ReleasePath)
    /\ \A i \in 1..Commands \ Repeatable :
         /\ s[i].op \in {"MOVE", "REPLACE", "DELETE"}
         /\ s[i].op # "DELETE" => IsFile(Start, s[i].src.names)
         /\ \A j \in 1..Commands : ~ Makes(s[j], Takes(s[i])) /\ ~ Puts(s[j], Takes(s[i]))

\* What a step of a command may do with the tree t.
Touches(c, t, u) ==
    \/ u = t
    \/ \E d \in Entries : Makes(c, d) /\ d \notin DOMAIN t /\ u = With(t, d, Directory)
    \/ \E d \in Entries : Makes(c, d) /\ ~ IsDirectory(t, d) /\ u = Without(t, d)
    \/ c.op = "DELETE" /\ u = Without(t, c.path.names)
    \/ /\ c.op = "EDIT" /\ IsFile(t, c.path.names)
       /\ \E node \in Tune \cup {Partial} : u = With(t, c.path.names, node)
    \/ \E d \in Entries : Puts(c, d) /\ u = Without(t, d)
    \/ \E d, q \in Entries :
         /\ Puts(c, d) /\ ~ IsDirectory(t, d)
         /\ From(c, q) /\ To(c, q) = d /\ IsFile(t, q)
         /\ u \in {With(t, d, Partial), With(t, d, t[q])}
    \/ \E q \in Entries :
         c.op \in {"MOVE", "REPLACE"} /\ From(c, q) /\ IsFile(t, q) /\ u = Without(t, q)

LEMMA BeginTouches ==
    ASSUME Kept, BeginCommand
    PROVE  Touches(script[step], tree, tree')
<1> DEFINE command == script[step]
<1>1. /\ step \in 1..Commands /\ pc = Idle /\ script' = script /\ script \in Scripts
      /\ WellFormed(tree) /\ DOMAIN tree \subseteq Entries
  BY ScriptsAssumption DEF Kept, BeginCommand, Base, AtWork, Contained, Idle, Ended
<1>2. /\ command.op \in {"MOVE", "REPLACE", "DELETE", "MKDIR", "EDIT"}
      /\ command.op \in {"MOVE", "REPLACE"} => command \in MoveCommand
      /\ command.op = "EDIT" => command \in EditCommand
  BY <1>1, ScriptCommand
<1>3. /\ SpelledOneWay
      /\ command.op \in {"MOVE", "REPLACE"} =>
           /\ command.src.names \in Entries /\ command.dst.names \in Entries
           /\ \A p \in Entries : From(command, p) => To(command, p) \in Entries
           /\ ~ command.dst.slash => command.dst.names \notin Folders
      /\ command.op \notin {"MOVE", "REPLACE"} => command.path.names \in Entries
  BY <1>1, CarefulLines DEF Kept
<1>4. tree' = tree => Touches(command, tree, tree')
  BY DEF Touches
<1>5. CASE command.op \in {"MOVE", "REPLACE"}
  <2>1. Begin(command) /\ command \in MoveCommand
    BY <1>2, <1>5 DEF BeginCommand
  <2>2. ~ command.dst.slash => ~ IsDirectory(tree, command.dst.names)
    BY <1>3, <1>5 DEF Kept, Contained, IsDirectory
  <2>3. \/ tree' = tree
        \/ /\ command.dst.slash /\ command.dst.names \notin DOMAIN tree
           /\ tree' = With(tree, command.dst.names, Directory)
    BY <1>1, <1>3, <1>5, <2>1, <2>2, BeginExact
  <2>4. command.dst.slash => Makes(command, command.dst.names)
    BY <1>5 DEF Makes
  <2> QED
    BY <1>3, <1>4, <1>5, <2>3, <2>4 DEF Touches
<1>6. CASE command.op = "DELETE"
  <2>1. tree' = tree \/ tree' = Without(tree, command.path.names)
    BY <1>1, <1>3, <1>6, DeleteExact DEF BeginCommand
  <2> QED
    BY <1>6, <2>1 DEF Touches
<1>7. CASE command.op = "MKDIR"
  <2>1. \/ tree' = tree
        \/ /\ command.path.names \notin DOMAIN tree
           /\ tree' = With(tree, command.path.names, Directory)
    BY <1>1, <1>3, <1>7, MakeDirectoryExact DEF BeginCommand
  <2>2. Makes(command, command.path.names) /\ command.path.names \in Entries
    BY <1>3, <1>7 DEF Makes
  <2> QED
    BY <2>1, <2>2 DEF Touches
<1>8. CASE command.op = "EDIT"
  <2>1. \/ tree' = tree
        \/ IsFile(tree, command.path.names) /\ tree' = With(tree, command.path.names, Partial)
    BY <1>1, <1>2, <1>3, <1>8, EditExact DEF BeginCommand
  <2> QED
    BY <1>8, <2>1 DEF Touches
<1> QED
  BY <1>2, <1>5, <1>6, <1>7, <1>8

LEMMA ContinueTouches ==
    ASSUME Kept, ContinueCommand
    PROVE  Touches(script[step], tree, tree')
<1>1. /\ script \in Scripts /\ WellFormed(tree) /\ DOMAIN tree \subseteq Entries
      /\ main = "commands"
  BY DEF Kept, ContinueCommand, Base, Contained
<1>2. tree' = tree => Touches(script[step], tree, tree')
  BY DEF Touches
<1>3. CASE SaveTune
  <2>1. /\ pc = "save" /\ Destination = script[step].path.names
        /\ IsFile(tree, Destination)
        /\ object \in DOMAIN Edited /\ script[step].op = "EDIT"
        /\ tree' = With(tree, Destination, Edited[object])
    BY <1>3, KindAssumption DEF SaveTune, Kept, Aimed, Base, Saving, Exists, IsFile
  <2>2. Edited[object] \in Tune
    BY <2>1, EditedAssumption
  <2> QED
    BY <2>1, <2>2 DEF Touches
<1>4. CASE ~ SaveTune
  <2>1. NextFile \/ EndCommand \/ RemoveOld \/ OpenDestination \/ FillDestination
          \/ RemoveSource
    BY <1>4 DEF ContinueCommand
  <2>2. pc # "save" /\ pc \notin {Idle} \cup Ended
    BY <2>1 DEF NextFile, EndCommand, RemoveOld, OpenDestination, FillDestination,
                RemoveSource, Idle, Ended
  <2>3. IndInv /\ cmd = script[step] /\ step \in 1..Commands /\ cmd # NoCommand
    BY <1>1, <2>2, ScriptsAssumption DEF Kept, Base, AtWork, IndInv, TypeOK
  <2>4. cmd.op \in {"MOVE", "REPLACE"}
    BY <2>3 DEF IndInv, TypeOK, MoveCommand
  <2>5. /\ \A p \in Entries : From(cmd, p) => To(cmd, p) \in Entries
        /\ cmd.dst.names \in Entries
    BY <1>1, <2>3, <2>4, CarefulLines DEF Kept
  <2>6. pc \in Transferring =>
           /\ job.source \in Entries /\ From(cmd, job.source)
           /\ \/ /\ Destination = To(cmd, job.source) /\ job.old \in {NoPath, Destination}
                 /\ Destination \in Entries /\ Puts(cmd, Destination)
              \/ Astray
    BY <2>4, <2>5 DEF Kept, Aimed, Puts
  <2>7. CASE NextFile \/ EndCommand
    BY <1>2, <2>7 DEF NextFile, EndCommand
  <2>8. CASE RemoveOld
    <3>1. pc = "removeOld" /\ (tree' = tree \/ tree' = Without(tree, job.old))
      BY <2>8 DEF RemoveOld
    <3>2. NoPath \notin DOMAIN tree
      BY <1>1, NoPathIsNoPath DEF WellFormed
    <3>3. job.old = NoPath /\ tree' = Without(tree, job.old) => tree' = tree
      <4> SUFFICES ASSUME tree' = Without(tree, NoPath) PROVE tree' = tree
        OBVIOUS
      <4>1. DOMAIN tree \ {NoPath} = DOMAIN tree
        BY <3>2
      <4> QED
        BY <1>1, <4>1 DEF Without, WellFormed
    <3>4. CASE Astray /\ job.old = job.dir
      <4>1. Makes(cmd, job.old) /\ ~ IsDirectory(tree, job.old) /\ job.old \in Entries
        BY <2>4, <2>5, <3>4 DEF Astray, Makes
      <4> QED
        BY <1>2, <2>3, <3>1, <4>1 DEF Touches
    <3> QED
      BY <1>2, <2>3, <2>6, <3>1, <3>3, <3>4 DEF Touches, Transferring, Astray
  <2>9. CASE OpenDestination
    <3>1. \/ tree' = tree
          \/ /\ pc = "open" /\ IsFile(tree, job.source) /\ CanCreate(tree, job.dir, job.name)
             /\ tree' = With(tree, Destination, Partial)
      BY <2>9 DEF OpenDestination
    <3>2. CASE tree' # tree
      <4>1. ~ Astray /\ ~ IsDirectory(tree, Destination)
        BY <3>1, <3>2 DEF Astray, CanCreate, Destination, Exists, IsDirectory
      <4> QED
        BY <2>3, <2>6, <3>1, <3>2, <4>1 DEF Touches, Transferring
    <3> QED
      BY <1>2, <3>2
  <2>10. CASE FillDestination
    <3>1. /\ pc = "fill" /\ tree' = With(tree, Destination, tree[job.source])
      BY <2>10 DEF FillDestination
    <3>2. ~ Astray /\ IsFile(tree, job.source) /\ ~ IsDirectory(tree, Destination)
      BY <2>3, <3>1 DEF Astray, IndInv, SourceOutlivesCopy, IsFile, IsDirectory
    <3> QED
      BY <2>3, <2>6, <3>1, <3>2 DEF Touches, Transferring
  <2>11. CASE RemoveSource
    <3>1. /\ pc = "removeSource" /\ tree' = Without(tree, job.source)
      BY <2>11 DEF RemoveSource
    <3>2. IsFile(tree, job.source)
      BY <2>3, <3>1 DEF IndInv, SourceOutlivesCopy
    <3> QED
      BY <2>3, <2>4, <2>6, <3>1, <3>2 DEF Touches, Transferring
  <2> QED
    BY <2>1, <2>7, <2>8, <2>9, <2>10, <2>11
<1> QED
  BY <1>3, <1>4
\* What it does then to a single path: nothing, where the command is not about
\* it; nothing arrives, where it neither makes nor puts anything.
LEMMA TouchedPath ==
    ASSUME NEW c, NEW t, NEW u, Touches(c, t, u), NEW p
    PROVE  /\ ~ About(c, p) => (p \in DOMAIN u <=> p \in DOMAIN t) /\ (p \in DOMAIN t => u[p] = t[p])
           /\ ~ Makes(c, p) /\ ~ Puts(c, p) =>
                /\ p \in DOMAIN u => p \in DOMAIN t
                /\ IsDirectory(u, p) => IsDirectory(t, p)
                /\ c.op \in {"MOVE", "REPLACE"} /\ p \in DOMAIN u => u[p] = t[p]
<1>1. CASE u = t
  BY <1>1
<1>2. ASSUME NEW d \in Entries, Makes(c, d), u \in {With(t, d, Directory), Without(t, d)}
      PROVE  /\ DOMAIN u \ {d} = DOMAIN t \ {d} /\ \A x \in DOMAIN u \ {d} : u[x] = t[x]
             /\ About(c, d)
  BY <1>2 DEF Makes, About, With, Without
<1>3. ASSUME NEW d \in Entries, Makes(c, d), u \in {With(t, d, Directory), Without(t, d)}
      PROVE  /\ ~ About(c, p) => (p \in DOMAIN u <=> p \in DOMAIN t) /\ (p \in DOMAIN t => u[p] = t[p])
             /\ ~ Makes(c, p) => /\ p \in DOMAIN u <=> p \in DOMAIN t
                                 /\ p \in DOMAIN u => u[p] = t[p]
  <2>1. /\ DOMAIN u \ {d} = DOMAIN t \ {d} /\ \A x \in DOMAIN u \ {d} : u[x] = t[x]
        /\ About(c, d)
    BY <1>2, <1>3
  <2>2. p # d => (p \in DOMAIN u <=> p \in DOMAIN t) /\ (p \in DOMAIN u => u[p] = t[p])
    BY <2>1
  <2> QED
    BY <1>3, <2>1, <2>2
<1>4. ASSUME NEW d \in Entries, Puts(c, d),
             \E node : u \in {With(t, d, node), Without(t, d)}
      PROVE  /\ ~ About(c, p) => (p \in DOMAIN u <=> p \in DOMAIN t) /\ (p \in DOMAIN t => u[p] = t[p])
             /\ ~ Puts(c, p) => /\ p \in DOMAIN u <=> p \in DOMAIN t
                                /\ p \in DOMAIN u => u[p] = t[p]
  <2>1. About(c, d)
    BY <1>4 DEF Puts, About
  <2>2. p # d => (p \in DOMAIN u <=> p \in DOMAIN t) /\ (p \in DOMAIN u => u[p] = t[p])
    BY <1>4 DEF With, Without
  <2> QED
    BY <1>4, <2>1, <2>2
<1>5. CASE c.op = "DELETE" /\ u = Without(t, c.path.names)
  BY <1>5 DEF About, Without, IsDirectory
<1>6. ASSUME NEW q \in Entries, c.op \in {"MOVE", "REPLACE"}, From(c, q), u = Without(t, q)
      PROVE  /\ ~ About(c, p) => (p \in DOMAIN u <=> p \in DOMAIN t) /\ (p \in DOMAIN t => u[p] = t[p])
             /\ p \in DOMAIN u => p \in DOMAIN t /\ u[p] = t[p]
  BY <1>6 DEF About, Without
<1>7. CASE /\ c.op = "EDIT" /\ IsFile(t, c.path.names)
           /\ \E node \in Tune \cup {Partial} : u = With(t, c.path.names, node)
  <2>1. PICK node \in Tune \cup {Partial} : u = With(t, c.path.names, node)
    BY <1>7
  <2>2. node # Directory
    BY KindAssumption
  <2> QED
    BY <1>7, <2>1, <2>2 DEF About, With, IsFile, IsDirectory
<1>8. \/ u = t
      \/ \E d \in Entries : Makes(c, d) /\ u \in {With(t, d, Directory), Without(t, d)}
      \/ c.op = "DELETE" /\ u = Without(t, c.path.names)
      \/ /\ c.op = "EDIT" /\ IsFile(t, c.path.names)
         /\ \E node \in Tune \cup {Partial} : u = With(t, c.path.names, node)
      \/ \E d \in Entries : Puts(c, d) /\ \E node : u \in {With(t, d, node), Without(t, d)}
      \/ \E q \in Entries : c.op \in {"MOVE", "REPLACE"} /\ From(c, q) /\ u = Without(t, q)
  BY DEF Touches
<1>9. CASE \E d \in Entries : Makes(c, d) /\ u \in {With(t, d, Directory), Without(t, d)}
  BY <1>3, <1>9 DEF IsDirectory
<1>10. CASE \E d \in Entries : Puts(c, d) /\ \E node : u \in {With(t, d, node), Without(t, d)}
  BY <1>4, <1>10 DEF IsDirectory
<1>11. CASE \E q \in Entries : c.op \in {"MOVE", "REPLACE"} /\ From(c, q) /\ u = Without(t, q)
  BY <1>6, <1>11 DEF IsDirectory
<1> QED
  BY <1>1, <1>5, <1>7, <1>8, <1>9, <1>10, <1>11

\* A directory stays one that no command deletes or puts a file at.
LEMMA TouchedDirectory ==
    ASSUME NEW c, NEW t, NEW u, Touches(c, t, u), NEW p, IsDirectory(t, p),
           ~ Puts(c, p), c.op = "DELETE" => c.path.names # p
    PROVE  IsDirectory(u, p)
<1>1. ASSUME NEW d, NEW node, u \in {With(t, d, node), Without(t, d)}, d # p
      PROVE  IsDirectory(u, p)
  BY <1>1 DEF With, Without, IsDirectory
<1>2. CASE u = t
  BY <1>2
<1>3. CASE \E d \in Entries : Makes(c, d) /\ d \notin DOMAIN t /\ u = With(t, d, Directory)
  BY <1>1, <1>3 DEF IsDirectory
<1>4. CASE \E d \in Entries : Makes(c, d) /\ ~ IsDirectory(t, d) /\ u = Without(t, d)
  BY <1>1, <1>4
<1>5. CASE c.op = "DELETE" /\ u = Without(t, c.path.names)
  BY <1>1, <1>5
<1>6. CASE /\ c.op = "EDIT" /\ IsFile(t, c.path.names)
           /\ \E node \in Tune \cup {Partial} : u = With(t, c.path.names, node)
  BY <1>1, <1>6 DEF IsFile, IsDirectory
<1>7. CASE \E d \in Entries : Puts(c, d) /\ u = Without(t, d)
  BY <1>1, <1>7
<1>8. CASE \E d, q \in Entries :
             /\ Puts(c, d) /\ ~ IsDirectory(t, d)
             /\ From(c, q) /\ To(c, q) = d /\ IsFile(t, q)
             /\ u \in {With(t, d, Partial), With(t, d, t[q])}
  BY <1>1, <1>8
<1>9. CASE \E q \in Entries :
             c.op \in {"MOVE", "REPLACE"} /\ From(c, q) /\ IsFile(t, q) /\ u = Without(t, q)
  BY <1>1, <1>9 DEF IsFile, IsDirectory
<1> QED
  BY <1>2, <1>3, <1>4, <1>5, <1>6, <1>7, <1>8, <1>9 DEF Touches

\* The last command leaves HVSC.txt old, new, cut short or removed.
LEMMA TouchedRelease ==
    ASSUME NEW s \in Scripts, Publishes(s), NEW t, WellFormed(t), DOMAIN t \subseteq Entries,
           s[Commands].src.names \in DOMAIN t => t[s[Commands].src.names] = NewText,
           NEW u, Touches(s[Commands], t, u)
    PROVE  TellsOf(u) \in {TellsOf(t), 0, 2}
<1> DEFINE c == s[Commands]
           fresh == c.src.names
<1>1. /\ c.op \in {"MOVE", "REPLACE"} /\ To(c, fresh) = ReleasePath
      /\ OldText \notin {NewText, Partial} /\ NewText # Directory
  BY DEF Publishes, IsFile
<1> HIDE DEF c
<1>2. ASSUME NEW d, NEW node, u \in {With(t, d, node), Without(t, d)}, d # ReleasePath
      PROVE  TellsOf(u) = TellsOf(t)
  BY <1>2 DEF With, Without, TellsOf, Exists
<1>3. ASSUME NEW d, u = Without(t, d)
      PROVE  TellsOf(u) \in {TellsOf(t), 0}
  <2>1. d = ReleasePath => TellsOf(u) = 0
    BY <1>3 DEF Without, TellsOf, Exists
  <2> QED
    BY <1>2, <1>3, <2>1
<1>4. ASSUME NEW node, node # OldText, u = With(t, ReleasePath, node)
      PROVE  TellsOf(u) \in {0, 2}
  <2>1. ReleasePath \in DOMAIN u /\ u[ReleasePath] = node
    BY <1>4 DEF With
  <2> QED
    BY <1>4, <2>1 DEF TellsOf, Exists
<1>5. CASE u = t
  BY <1>5
<1>6. ASSUME NEW d \in Entries, Makes(c, d), u = With(t, d, Directory)
      PROVE  TellsOf(u) = TellsOf(t)
  <2>1. c.dst.slash /\ c.dst.names = d /\ ReleasePath = Append(d, LastName(fresh))
    BY <1>1, <1>6 DEF Makes, To
  <2>2. Len(ReleasePath) = Len(d) + 1
    BY <2>1, EntriesAssumption DEF Path
  <2>3. d # ReleasePath
    <3>1. Len(d) \in Nat
      BY EntriesAssumption DEF Path
    <3> QED
      BY <2>2, <3>1
  <2> QED
    BY <1>2, <1>6, <2>3
<1>7. ASSUME NEW d \in Entries, NEW q \in Entries, From(c, q), To(c, q) = d, IsFile(t, q),
             u \in {With(t, d, Partial), With(t, d, t[q])}
      PROVE  TellsOf(u) \in {TellsOf(t), 0, 2}
  <2>1. CASE d # ReleasePath
    BY <1>2, <1>7, <2>1
  <2>2. CASE d = ReleasePath
    <3>1. fresh = q
      <4>1. fresh \in {q, Parent(q)} /\ q # Root
        BY <1>7 DEF From
      <4>2. fresh # q => IsDirectory(t, fresh)
        BY <1>7, <4>1 DEF WellFormed, IsFile
      <4> QED
        BY <1>1, <4>2 DEF IsDirectory, c
    <3>2. t[q] = NewText
      BY <1>7, <3>1 DEF IsFile, c
    <3> QED
      BY <1>1, <1>4, <1>7, <2>2, <3>2
  <2> QED
    BY <2>1, <2>2
<1>8. Touches(c, t, u)
  BY DEF c
<1> QED
  BY <1>1, <1>3, <1>5, <1>6, <1>7, <1>8 DEF Touches
\* The script is there while it is being executed and archived, and what a
\* command has taken away for good stays away.
Standing ==
    /\ num \in {0, 1}
    /\ main \in {"hubbard", "header", "check", "open", "commands", "archive", "copying",
                 "removeScript"} => num = 1 /\ ScriptPath \in DOMAIN tree
    /\ main = "removeErrors" => num = 1
    /\ ScriptPath \in DOMAIN tree => tree[ScriptPath] = Start[ScriptPath]
    /\ IsDirectory(tree, ArchiveDir)
    /\ applied # {} => resumed \/ step > 0
    /\ LET fresh == script[Commands].src.names
       IN  fresh \in DOMAIN tree => tree[fresh] = NewText
    /\ \A i \in 1..Commands \ Repeatable :
         /\ <<1, i>> \in applied => Takes(script[i]) \notin DOMAIN tree
         /\ script[i].op # "DELETE" => ~ IsDirectory(tree, Takes(script[i]))

\* HVSC.txt tells the version that was found until the last command is at work.
Telling ==
    /\ main \in {"script", "hubbard", "header", "check", "open"} => found = Told
    /\ main = "commands" =>
         /\ step < Commands => found = Told
         /\ step = Commands => Told \in {found, 0, 2} /\ (pc = Idle => found = Told)

\* A command that works only once, or is the last, has a single file to take;
\* when it has taken it, it is over.
Once ==
    pc \notin {Idle} \cup Ended /\ step \notin Repeatable \ {Commands} =>
      /\ step \notin Repeatable => <<1, step>> \notin applied
      /\ pc # "save" /\ job.folder = NoPath
      /\ pc = "next" => cmd.src.names \notin DOMAIN tree /\ (step = Commands => Told = 2)

\* A session of an update as its makers publish it.
Published == Kept /\ Publishes(script) /\ Standing /\ Telling /\ Once

\* What tells the paths of such an update apart.
LEMMA PublishedPaths ==
    ASSUME NEW s \in Scripts, Publishes(s)
    PROVE  /\ ScriptPath # ArchivePath /\ ReleasePath \notin {ScriptPath, ArchivePath}
           /\ ArchiveDir \notin {ScriptPath, ArchivePath} /\ IsDirectory(Start, ArchiveDir)
           /\ s[Commands].src.names # ArchivePath /\ NewText # Directory
           /\ \A i \in 1..Commands \ Repeatable : Takes(s[i]) # ArchivePath
           /\ TellsOf(Start) = TellsOf(Original)
<1>1. ScriptPath \in DOMAIN Start /\ ScriptPath \in DOMAIN Pack /\ Start[ScriptPath] # Directory
  BY Paths, PackAssumption DEF IsFile
<1>2. ArchivePath \notin DOMAIN Start /\ ReleasePath \notin DOMAIN Pack \cup {ArchivePath}
      /\ IsDirectory(Original, ArchiveDir)
  BY DEF Publishes
<1>3. IsDirectory(Start, ArchiveDir)
  BY <1>2, PackAssumption DEF IsDirectory
<1>4. IsFile(Start, s[Commands].src.names) /\ Start[s[Commands].src.names] = NewText
  BY DEF Publishes
<1>5. ASSUME NEW i \in 1..Commands \ Repeatable
      PROVE  Takes(s[i]) # ArchivePath
  <2>1. s[i].op \in {"MOVE", "REPLACE", "DELETE"} /\ ~ About(s[i], ArchivePath)
    BY <1>5 DEF Publishes
  <2> QED
    BY <2>1, Paths DEF Takes, About, From
<1>6. TellsOf(Start) = TellsOf(Original)
  BY <1>2 DEF TellsOf, Exists, Start
<1> QED
  BY <1>1, <1>2, <1>3, <1>4, <1>5, <1>6 DEF IsDirectory, IsFile

\* A command at work or beginning.
LEMMA CommandStep ==
    ASSUME Kept, BeginCommand \/ ContinueCommand
    PROVE  /\ Touches(script[step], tree, tree')
           /\ step \in 1..Commands /\ script \in Scripts /\ script' = script
           /\ main = "commands" /\ UNCHANGED <<num, found, warning, resumed>>
           /\ \/ /\ pc' = "aborted" /\ main' = "aborted"
                 /\ UNCHANGED <<step, errors, errorsFile, applied>>
              \/ pc' \notin {Idle, "aborted"} /\ UNCHANGED <<main, step, errors, errorsFile, applied>>
              \/ /\ pc' = Idle /\ main' = main /\ step' = step + 1
                 /\ errors' = (IF logged' THEN errors + 1 ELSE errors)
                 /\ errorsFile' = (IF logged' THEN "errors" ELSE errorsFile)
                 /\ applied' = (IF logged' THEN applied ELSE applied \cup {<<num, step>>})
<1>1. Touches(script[step], tree, tree')
  BY BeginTouches, ContinueTouches
<1>2. /\ script \in Scripts /\ script' = script /\ errors \in Nat /\ Outcome
      /\ main = "commands" /\ UNCHANGED <<num, found, warning, resumed>>
  BY DEF Kept, Base, BeginCommand, ContinueCommand
<1>3. step \in 1..Commands
  <2>1. CASE BeginCommand
    BY <2>1, ScriptsAssumption DEF Kept, BeginCommand, Base, AtWork
  <2>2. CASE ContinueCommand
    <3>1. pc \notin {Idle} \cup Ended
      BY <2>2 DEF ContinueCommand, NextFile, EndCommand, RemoveOld, OpenDestination,
         FillDestination, RemoveSource, SaveTune, Idle, Ended
    <3> QED
      BY <1>2, <3>1, ScriptsAssumption DEF Kept, Base, AtWork
  <2> QED
    BY <2>1, <2>2
<1> QED
  BY <1>1, <1>2, <1>3, OutcomeSteps

\* What the command works on is there, is a file, and had not been taken.
LEMMA OnceSource ==
    ASSUME Published, NEW i \in 1..Commands, i \notin Repeatable \ {Commands},
           Takes(script[i]) \in DOMAIN tree
    PROVE  /\ i \notin Repeatable => <<1, i>> \notin applied
           /\ script[i].op # "DELETE" => IsFile(tree, script[i].src.names)
           /\ script[i].op \in {"MOVE", "REPLACE", "DELETE"}
<1>1. script \in Scripts /\ Publishes(script) /\ NewText # Directory
  BY PublishedPaths DEF Published, Kept, Base
<1>2. CASE i \notin Repeatable
  BY <1>1, <1>2 DEF Published, Standing, Publishes, Takes, IsFile, IsDirectory
<1>3. CASE i = Commands
  <2>1. script[i].op \in {"MOVE", "REPLACE"}
    BY <1>1, <1>3 DEF Publishes
  <2>2. script[i].src.names \in DOMAIN tree => tree[script[i].src.names] = NewText
    BY <1>3 DEF Published, Standing
  <2> QED
    BY <1>1, <1>2, <2>1, <2>2 DEF Takes, IsFile
<1> QED
  BY <1>2, <1>3

\* A command that begins and works only once, or is the last, deletes its entry
\* or turns to its file.
LEMMA OnceBegins ==
    ASSUME Published, BeginCommand, step \notin Repeatable \ {Commands}
    PROVE  \/ (Abort \/ LogError)
                /\ (\/ tree' = tree
                    \/ \E d : Makes(script[step], d) /\ tree' = With(tree, d, Directory))
           \/ /\ script[step].op = "DELETE" /\ Complete
              /\ Takes(script[step]) \in DOMAIN tree /\ Takes(script[step]) \notin DOMAIN tree'
              /\ step # Commands
           \/ /\ script[step].op \in {"MOVE", "REPLACE"} /\ TurnsToFile(script[step])
              /\ Takes(script[step]) \in DOMAIN tree
<1> DEFINE command == script[step]
<1>1. /\ step \in 1..Commands /\ script \in Scripts /\ Publishes(script)
      /\ WellFormed(tree) /\ DOMAIN tree \subseteq Entries /\ Careful /\ Contained
  BY CommandStep DEF Published, Kept, Base, Contained
<1>2. command.op \in {"MOVE", "REPLACE"} => command \in MoveCommand
  BY <1>1, ScriptCommand
<1>3. /\ SpelledOneWay
      /\ command.op \in {"MOVE", "REPLACE"} =>
           /\ command.src.names \in Entries /\ command.dst.names \in Entries
           /\ \A p \in Entries : From(command, p) => To(command, p) \in Entries
           /\ ~ command.dst.slash => command.dst.names \notin Folders
      /\ command.op \notin {"MOVE", "REPLACE"} => command.path.names \in Entries
  BY <1>1, CarefulLines
<1>4. /\ command.op \in {"MOVE", "REPLACE", "DELETE"}
      /\ step = Commands => command.op \in {"MOVE", "REPLACE"}
  <2>1. step = Commands => command.op \in {"MOVE", "REPLACE"}
    BY <1>1 DEF Publishes
  <2>2. step \notin Repeatable => command.op \in {"MOVE", "REPLACE", "DELETE"}
    BY <1>1 DEF Publishes
  <2> QED
    BY <2>1, <2>2
<1>5. CASE command.op \in {"MOVE", "REPLACE"}
  <2>1. Begin(command) /\ command \in MoveCommand
    BY <1>2, <1>5 DEF BeginCommand
  <2>2. ~ command.dst.slash => ~ IsDirectory(tree, command.dst.names)
    BY <1>1, <1>3, <1>5 DEF Contained, IsDirectory
  <2>3. /\ \/ tree' = tree
           \/ /\ command.dst.slash
              /\ tree' = With(tree, command.dst.names, Directory)
        /\ Abort \/ LogError \/ TurnsToFolder(command) \/ TurnsToFile(command)
    BY <1>1, <1>3, <1>5, <2>1, <2>2, BeginExact
  <2>4. tree' = With(tree, command.dst.names, Directory) /\ command.dst.slash =>
          \E d : Makes(command, d) /\ tree' = With(tree, d, Directory)
    BY <1>5 DEF Makes
  <2>5. TurnsToFolder(command) => FALSE
    <3>1. SUFFICES ASSUME TurnsToFolder(command) PROVE FALSE
      OBVIOUS
    <3>2. command.src.names \in DOMAIN tree /\ ~ IsFile(tree, command.src.names)
      BY <3>1 DEF TurnsToFolder, IsDirectory, IsFile
    <3> QED
      BY <1>1, <1>5, <3>2, OnceSource DEF Takes
  <2> QED
    BY <1>5, <2>3, <2>4, <2>5 DEF TurnsToFile, IsFile, Takes
<1>6. CASE command.op = "DELETE"
  <2>1. \/ (Abort \/ LogError) /\ tree' = tree
        \/ /\ Complete /\ command.path.names \in DOMAIN tree
           /\ tree' = Without(tree, command.path.names)
    BY <1>1, <1>3, <1>6, DeleteExact DEF BeginCommand
  <2> QED
    BY <1>4, <1>6, <2>1 DEF Takes, Without
<1> QED
  BY <1>4, <1>5, <1>6
\* Such a command moves its one file and ends.
LEMMA OnceContinues ==
    ASSUME Published, ContinueCommand, step \notin Repeatable \ {Commands}
    PROVE  /\ pc \notin {Idle, "save"} \cup Ended /\ job.folder = NoPath
           /\ cmd = script[step] /\ cmd.op \in {"MOVE", "REPLACE"}
           /\ \/ Abort
              \/ pc = "next" /\ Complete /\ tree' = tree
              \/ pc' \in Transferring /\ UNCHANGED <<cmd, job>>
              \/ /\ pc' = "next" /\ UNCHANGED <<cmd, job>>
                 /\ cmd.src.names \notin DOMAIN tree' /\ (step = Commands => Told' = 2)
<1>1. pc \notin {Idle} \cup Ended
  BY DEF ContinueCommand, NextFile, EndCommand, RemoveOld, OpenDestination,
     FillDestination, RemoveSource, SaveTune, Idle, Ended
<1>2. pc # "save" /\ job.folder = NoPath
  BY <1>1 DEF Published, Once
<1>3. NextFile \/ EndCommand \/ RemoveOld \/ OpenDestination \/ FillDestination
        \/ RemoveSource
  BY <1>2 DEF ContinueCommand, SaveTune
<1>4. /\ IndInv /\ cmd = script[step] /\ step \in 1..Commands /\ cmd # NoCommand
      /\ script \in Scripts /\ Publishes(script)
  BY <1>1, <1>2, CommandStep DEF Published, Kept, Base, AtWork, IndInv, TypeOK
<1>5. cmd.op \in {"MOVE", "REPLACE"}
  BY <1>4 DEF IndInv, TypeOK, MoveCommand
<1> SUFFICES \/ Abort
             \/ pc = "next" /\ Complete /\ tree' = tree
             \/ pc' \in Transferring /\ UNCHANGED <<cmd, job>>
             \/ /\ pc' = "next" /\ UNCHANGED <<cmd, job>>
                /\ cmd.src.names \notin DOMAIN tree' /\ (step = Commands => Told' = 2)
  BY <1>1, <1>2, <1>4, <1>5
<1>6. CASE NextFile
  BY <1>2, <1>6 DEF NextFile, Published, Kept, Aimed
<1>7. CASE EndCommand
  BY <1>7 DEF EndCommand
<1>8. CASE RemoveOld \/ OpenDestination \/ FillDestination
  <2>1. Abort \/ (pc' \in {"open", "fill", "removeSource"} /\ UNCHANGED <<cmd, job>>)
    BY <1>8 DEF RemoveOld, OpenDestination, FillDestination
  <2> QED
    BY <2>1 DEF Transferring
<1>9. CASE RemoveSource
  <2>1. /\ pc = "removeSource" /\ pc' = "next" /\ UNCHANGED <<cmd, job>>
        /\ tree' = Without(tree, job.source)
    BY <1>9 DEF RemoveSource
  <2>2. job.source = cmd.src.names /\ Destination = To(cmd, job.source)
    BY <1>2, <2>1 DEF Published, Kept, Aimed, Astray, Transferring
  <2>3. cmd.src.names \notin DOMAIN tree'
    BY <2>1, <2>2 DEF Without
  <2>4. ASSUME step = Commands
        PROVE  Told' = 2
    <3>1. /\ job.source \in DOMAIN tree /\ Destination \in DOMAIN tree
          /\ job.source # Destination /\ tree[Destination] = tree[job.source]
      BY <1>4, <2>1 DEF IndInv, SourceOutlivesCopy, IsFile
    <3>2. tree[job.source] = NewText
      BY <1>4, <2>2, <2>4, <3>1 DEF Published, Standing
    <3>3. Destination = ReleasePath /\ OldText # NewText
      BY <1>4, <2>2, <2>4 DEF Publishes
    <3>4. ReleasePath \in DOMAIN tree' /\ tree'[ReleasePath] = NewText
      BY <2>1, <3>1, <3>2, <3>3 DEF Without
    <3> QED
      BY <3>3, <3>4 DEF Told, Exists
  <2> QED
    BY <2>1, <2>3, <2>4
<1> QED
  BY <1>3, <1>6, <1>7, <1>8, <1>9

\* When it has succeeded, what it takes is gone, for the first time.
LEMMA OnceEnds ==
    ASSUME Published, BeginCommand \/ ContinueCommand, step \notin Repeatable \ {Commands},
           pc' = Idle, ~ logged'
    PROVE  /\ Takes(script[step]) \notin DOMAIN tree'
           /\ step \notin Repeatable => <<1, step>> \notin applied
           /\ step = Commands => Told' = 2
<1>1. step \in 1..Commands /\ script \in Scripts
  BY CommandStep DEF Published
<1>2. CASE BeginCommand
  <2>1. ~ Abort /\ ~ LogError /\ ~ TurnsToFile(script[step])
    BY DEF Abort, LogError, TurnsToFile, Forget, Idle
  <2>2. /\ Takes(script[step]) \in DOMAIN tree /\ Takes(script[step]) \notin DOMAIN tree'
        /\ step # Commands
    BY <1>2, <2>1, OnceBegins
  <2> QED
    BY <1>1, <2>2, OnceSource
<1>3. CASE ContinueCommand
  <2>1. ~ Abort /\ pc' \notin Transferring /\ pc' # "next"
    BY DEF Abort, Forget, Idle, Transferring
  <2>2. /\ pc = "next" /\ tree' = tree /\ pc \notin {Idle} \cup Ended
        /\ cmd = script[step] /\ cmd.op \in {"MOVE", "REPLACE"}
    BY <1>3, <2>1, OnceContinues
  <2>3. /\ step \notin Repeatable => <<1, step>> \notin applied
        /\ cmd.src.names \notin DOMAIN tree /\ (step = Commands => Told = 2)
    BY <2>2 DEF Published, Once
  <2>4. Told' = Told
    BY <2>2 DEF Told
  <2> QED
    BY <2>2, <2>3, <2>4 DEF Takes
<1> QED
  BY <1>2, <1>3

\* What the steps of a command do to the parts of the invariant.
LEMMA OnceCommand ==
    ASSUME Published, BeginCommand \/ ContinueCommand
    PROVE  Once'
<1> SUFFICES ASSUME pc' \notin {Idle} \cup Ended, step' \notin Repeatable \ {Commands}
             PROVE  /\ step' \notin Repeatable => <<1, step'>> \notin applied'
                    /\ pc' # "save" /\ job'.folder = NoPath
                    /\ pc' = "next" => cmd'.src.names \notin DOMAIN tree'
                                         /\ (step' = Commands => Told' = 2)
  BY DEF Once
<1>1. /\ step' = step /\ applied' = applied /\ step \in 1..Commands
      /\ step \notin Repeatable \ {Commands}
  BY CommandStep DEF Published, Ended
<1>2. ~ Abort /\ ~ LogError /\ ~ Complete
  BY DEF Abort, LogError, Complete, Forget, Ended
<1>3. CASE BeginCommand
  <2>1. TurnsToFile(script[step]) /\ Takes(script[step]) \in DOMAIN tree
    BY <1>1, <1>2, <1>3, OnceBegins
  <2>2. step \notin Repeatable => <<1, step>> \notin applied
    BY <1>1, <2>1, OnceSource
  <2>3. pc' \in {"removeOld", "open"} /\ job'.folder = NoPath
    BY <2>1 DEF TurnsToFile
  <2> QED
    BY <1>1, <2>2, <2>3
<1>4. CASE ContinueCommand
  <2>1. /\ pc \notin {Idle, "save"} \cup Ended /\ job.folder = NoPath
        /\ UNCHANGED <<cmd, job>>
        /\ \/ pc' \in Transferring
           \/ /\ pc' = "next"
              /\ cmd.src.names \notin DOMAIN tree' /\ (step = Commands => Told' = 2)
    BY <1>1, <1>2, <1>4, OnceContinues
  <2>2. step \notin Repeatable => <<1, step>> \notin applied
    BY <1>1, <2>1 DEF Published, Once
  <2> QED
    BY <1>1, <2>1, <2>2 DEF Transferring
<1> QED
  BY <1>3, <1>4

LEMMA TellingCommand ==
    ASSUME Published, BeginCommand \/ ContinueCommand
    PROVE  Telling' /\ (step < Commands => Told' = Told) /\ Told' \in {Told, 0, 2}
<1>1. /\ Touches(script[step], tree, tree') /\ step \in 1..Commands /\ script \in Scripts
      /\ main = "commands" /\ found' = found /\ Publishes(script)
      /\ WellFormed(tree) /\ DOMAIN tree \subseteq Entries
  BY CommandStep DEF Published, Kept, Base, Contained
<1>2. \/ main' = "aborted"
      \/ main' = main /\ pc' # Idle /\ step' = step
      \/ main' = main /\ pc' = Idle /\ step' = step + 1
  BY CommandStep DEF Published
<1>3. /\ TellsOf(tree) = Told /\ TellsOf(tree') = Told'
  BY DEF TellsOf, Told
<1>4. step < Commands => Told' = Told
  <2>1. SUFFICES ASSUME step < Commands PROVE TellsOf(tree') = TellsOf(tree)
    BY <1>3
  <2>2. step \in 1..(Commands - 1)
    BY <1>1, <2>1, ScriptsAssumption
  <2>3. ~ About(script[step], ReleasePath)
    BY <1>1, <2>2 DEF Publishes
  <2>4. /\ ReleasePath \in DOMAIN tree' <=> ReleasePath \in DOMAIN tree
        /\ ReleasePath \in DOMAIN tree => tree'[ReleasePath] = tree[ReleasePath]
    BY <1>1, <2>3, TouchedPath
  <2> QED
    BY <2>4 DEF TellsOf, Exists
<1>5. step = Commands => Told' \in {Told, 0, 2}
  <2>1. script[Commands].src.names \in DOMAIN tree => tree[script[Commands].src.names] = NewText
    BY DEF Published, Standing
  <2> QED
    BY <1>1, <1>3, <2>1, TouchedRelease
<1>6. step < Commands \/ step = Commands
  BY <1>1, ScriptsAssumption
<1>7. Told' \in {Told, 0, 2}
  BY <1>4, <1>5, <1>6
<1>8. CASE main' = "aborted"
  BY <1>4, <1>7, <1>8 DEF Telling
<1>9. CASE main' = main /\ pc' # Idle /\ step' = step
  BY <1>1, <1>4, <1>7, <1>9 DEF Telling, Published
<1>10. CASE main' = main /\ pc' = Idle /\ step' = step + 1
  <2>1. step' <= Commands => step < Commands
    BY <1>1, <1>10, ScriptsAssumption
  <2>2. step' \in Nat /\ (step' < Commands \/ step' = Commands => step' <= Commands)
    BY <1>1, <1>10, ScriptsAssumption
  <2>3. step < Commands => found' = Told'
    BY <1>1, <1>4 DEF Telling, Published
  <2> QED
    BY <1>1, <1>4, <1>7, <1>10, <2>1, <2>2, <2>3 DEF Telling
<1> QED
  BY <1>2, <1>4, <1>7, <1>8, <1>9, <1>10

LEMMA StandingCommand ==
    ASSUME Published, BeginCommand \/ ContinueCommand
    PROVE  /\ Standing'
           /\ \A p \in {ScriptPath, ArchivePath} :
                (p \in DOMAIN tree' <=> p \in DOMAIN tree)
                  /\ (p \in DOMAIN tree => tree'[p] = tree[p])
<1>1. /\ Touches(script[step], tree, tree') /\ step \in 1..Commands /\ script \in Scripts
      /\ main = "commands" /\ UNCHANGED <<num, resumed, script>> /\ Publishes(script)
      /\ resumed \in BOOLEAN
  BY CommandStep DEF Published, Kept, Base
<1>2. /\ main' \in {"commands", "aborted"} /\ step' \in {step, step + 1}
      /\ applied' = applied \/ (pc' = Idle /\ ~ logged' /\ applied' = applied \cup {<<num, step>>})
  BY <1>1, CommandStep DEF Published
<1>3. num = 1 /\ ScriptPath \in DOMAIN tree /\ tree[ScriptPath] = Start[ScriptPath]
  BY <1>1 DEF Published, Standing
<1>4. ASSUME NEW p \in {ScriptPath, ArchivePath}
      PROVE  (p \in DOMAIN tree' <=> p \in DOMAIN tree) /\ (p \in DOMAIN tree => tree'[p] = tree[p])
  <2>1. ~ About(script[step], p)
    BY <1>1 DEF Publishes
  <2> QED
    BY <1>1, <2>1, TouchedPath
<1>5. IsDirectory(tree', ArchiveDir)
  <2>1. ~ Puts(script[step], ArchiveDir)
        /\ (script[step].op = "DELETE" => script[step].path.names # ArchiveDir)
    BY <1>1 DEF Publishes
  <2> QED
    BY <1>1, <2>1, TouchedDirectory DEF Published, Standing
<1>6. step' > 0
  BY <1>1, <1>2
<1> DEFINE fresh == script[Commands].src.names
<1>7. fresh \in DOMAIN tree' => tree'[fresh] = NewText
  <2>1. fresh \in DOMAIN tree => tree[fresh] = NewText
    BY DEF Published, Standing
  <2>2. CASE step = Commands
    <3>1. /\ ~ Makes(script[step], fresh) /\ ~ Puts(script[step], fresh)
          /\ script[step].op \in {"MOVE", "REPLACE"}
      BY <1>1, <2>2 DEF Publishes
    <3> QED
      BY <1>1, <2>1, <3>1, TouchedPath
  <2>3. CASE step # Commands
    <3>1. step \in 1..(Commands - 1)
      BY <1>1, <2>3, ScriptsAssumption
    <3>2. ~ About(script[step], fresh)
      BY <1>1, <3>1 DEF Publishes
    <3> QED
      BY <1>1, <2>1, <3>2, TouchedPath
  <2> QED
    BY <2>2, <2>3
<1>8. ASSUME NEW i \in 1..Commands \ Repeatable
      PROVE  /\ <<1, i>> \in applied' => Takes(script[i]) \notin DOMAIN tree'
             /\ script[i].op # "DELETE" => ~ IsDirectory(tree', Takes(script[i]))
  <2>1. ~ Makes(script[step], Takes(script[i])) /\ ~ Puts(script[step], Takes(script[i]))
    BY <1>1, <1>8 DEF Publishes
  <2>2. /\ Takes(script[i]) \in DOMAIN tree' => Takes(script[i]) \in DOMAIN tree
        /\ IsDirectory(tree', Takes(script[i])) => IsDirectory(tree, Takes(script[i]))
    BY <1>1, <2>1, TouchedPath
  <2>3. /\ <<1, i>> \in applied => Takes(script[i]) \notin DOMAIN tree
        /\ script[i].op # "DELETE" => ~ IsDirectory(tree, Takes(script[i]))
    BY <1>8 DEF Published, Standing
  <2>4. CASE <<1, i>> \in applied' /\ <<1, i>> \notin applied
    <3>1. i = step /\ pc' = Idle /\ ~ logged'
      BY <1>2, <2>4
    <3> QED
      BY <1>8, <2>2, <2>3, <3>1, OnceEnds
  <2> QED
    BY <2>2, <2>3, <2>4
<1>9. Standing'
  BY <1>1, <1>2, <1>3, <1>4, <1>5, <1>6, <1>7, <1>8 DEF Standing
<1> QED
  BY <1>4, <1>9
LEMMA PublishedInit == SessionInit /\ Careful /\ Publishes(script) => Published
<1> SUFFICES ASSUME SessionInit, Careful, Publishes(script) PROVE Published
  OBVIOUS
<1>1. /\ script \in Scripts /\ tree = Original /\ pc = Idle /\ main = "idle" /\ num = 0
      /\ applied = {} /\ step = 0
  BY DEF SessionInit
<1>2. ScriptPath \notin DOMAIN Original /\ IsDirectory(Original, ArchiveDir)
      /\ script[Commands].src.names \notin DOMAIN Original
  BY PackAssumption DEF Publishes, Exists
<1>3. ASSUME NEW i \in 1..Commands \ Repeatable, script[i].op # "DELETE"
      PROVE  ~ IsDirectory(Original, Takes(script[i]))
  <2>1. IsFile(Start, Takes(script[i]))
    BY <1>3 DEF Publishes, Takes
  <2> QED
    BY <2>1, PackAssumption DEF IsFile, IsDirectory
<1>4. Standing
  BY <1>1, <1>2, <1>3 DEF Standing
<1>5. Telling /\ Once
  BY <1>1 DEF Telling, Once
<1> QED
  BY <1>4, <1>5, KeptInit DEF Published

\* Before and after the commands the tree changes by the pack, the script and
\* its copy at most.
LEMMA StandingOther ==
    ASSUME Published, script' = script, NEW S, S \subseteq {ScriptPath, ArchivePath},
           DOMAIN tree' \ S = DOMAIN tree \ S,
           \A p \in DOMAIN tree \ S : tree'[p] = tree[p],
           ArchivePath \in DOMAIN tree' /\ ArchivePath \in S => tree'[ArchivePath] # Directory,
           ScriptPath \in DOMAIN tree' => ScriptPath \in DOMAIN tree /\ ScriptPath \notin S,
           applied' = applied
    PROVE  /\ ScriptPath \in DOMAIN tree' => tree'[ScriptPath] = Start[ScriptPath]
           /\ IsDirectory(tree', ArchiveDir)
           /\ LET fresh == script[Commands].src.names
              IN  fresh \in DOMAIN tree' => tree'[fresh] = NewText
           /\ \A i \in 1..Commands \ Repeatable :
                /\ <<1, i>> \in applied' => Takes(script[i]) \notin DOMAIN tree'
                /\ script[i].op # "DELETE" => ~ IsDirectory(tree', Takes(script[i]))
           /\ Told' = Told
<1>1. script \in Scripts /\ Publishes(script)
  BY DEF Published, Kept, Base
<1>2. /\ ScriptPath # ArchivePath /\ ReleasePath \notin {ScriptPath, ArchivePath}
      /\ ArchiveDir \notin {ScriptPath, ArchivePath}
      /\ script[Commands].src.names # ArchivePath
      /\ \A i \in 1..Commands \ Repeatable : Takes(script[i]) # ArchivePath
  BY <1>1, PublishedPaths
<1>3. /\ ScriptPath \in DOMAIN tree => tree[ScriptPath] = Start[ScriptPath]
      /\ IsDirectory(tree, ArchiveDir)
  BY DEF Published, Standing
<1>4. ASSUME NEW p, p # ArchivePath
      PROVE  p \in DOMAIN tree' => p \in DOMAIN tree /\ tree'[p] = tree[p]
  BY <1>4
<1>5. IsDirectory(tree', ArchiveDir)
  BY <1>2, <1>3 DEF IsDirectory
<1>6. script[Commands].src.names \in DOMAIN tree =>
        tree[script[Commands].src.names] = NewText
  BY DEF Published, Standing
<1>7. ASSUME NEW i \in 1..Commands \ Repeatable
      PROVE  /\ <<1, i>> \in applied' => Takes(script[i]) \notin DOMAIN tree'
             /\ script[i].op # "DELETE" => ~ IsDirectory(tree', Takes(script[i]))
  <2>1. /\ <<1, i>> \in applied => Takes(script[i]) \notin DOMAIN tree
        /\ script[i].op # "DELETE" => ~ IsDirectory(tree, Takes(script[i]))
    BY <1>7 DEF Published, Standing
  <2>2. Takes(script[i]) \in DOMAIN tree' =>
          Takes(script[i]) \in DOMAIN tree /\ tree'[Takes(script[i])] = tree[Takes(script[i])]
    BY <1>2, <1>4
  <2> QED
    BY <2>1, <2>2 DEF IsDirectory
<1>8. Told' = Told
  <2>1. /\ ReleasePath \in DOMAIN tree' <=> ReleasePath \in DOMAIN tree
        /\ ReleasePath \in DOMAIN tree => tree'[ReleasePath] = tree[ReleasePath]
    BY <1>2
  <2> QED
    BY <2>1 DEF Told, Exists
<1> QED
  BY <1>2, <1>3, <1>4, <1>5, <1>6, <1>7, <1>8

\* What unpacking finds and leaves.
LEMMA PublishedUnpack ==
    ASSUME Published, UnpackUpdate
    PROVE  /\ tree = Original /\ tree' = Start /\ applied = {} /\ main = "idle"
           /\ UNCHANGED <<pc, cmd, job, logged, main, num, found, warning, step, errors,
                          errorsFile, applied, session>>
           /\ ArchivePath \notin DOMAIN tree /\ ArchivePath \notin DOMAIN tree'
           /\ Told' = Told
<1>1. /\ tree' = [p \in DOMAIN tree \cup DOMAIN Pack |->
                    IF p \in DOMAIN Pack THEN Pack[p] ELSE tree[p]]
      /\ main = "idle" /\ ~ Exists(tree, ScriptPath)
      /\ UNCHANGED <<pc, cmd, job, logged, main, num, found, warning, step, errors,
                     errorsFile, applied, session>>
  BY DEF UnpackUpdate
<1>2. Fresh
  BY <1>1, Paths DEF Published, Kept, Base, Exists
<1>3. tree = Original /\ tree' = Start
  BY <1>1, <1>2 DEF Start, Fresh
<1>4. applied = {}
  BY <1>2 DEF Fresh, Published, Standing
<1>5. script \in Scripts /\ Publishes(script)
  BY DEF Published, Kept, Base
<1>6. ArchivePath \notin DOMAIN Start /\ DOMAIN Original \subseteq DOMAIN Start
  BY <1>5 DEF Publishes, Start
<1>7. TellsOf(tree') = TellsOf(tree)
  BY <1>3, <1>5, PublishedPaths
<1>8. Told' = Told
  BY <1>7 DEF TellsOf, Told
<1> QED
  BY <1>1, <1>3, <1>4, <1>6, <1>8

\* The steps of main around the commands.
LEMMA PublishedOther ==
    ASSUME Published, [SessionNext]_all, ~ BeginCommand, ~ ContinueCommand
    PROVE  Standing' /\ Telling' /\ Once'
<1>1. /\ script' = script /\ script \in Scripts /\ Publishes(script) /\ resumed \in BOOLEAN
      /\ step \in Nat /\ AtWork /\ Commands \in Nat \ {0}
  BY ScriptStays, ScriptsAssumption DEF Published, Kept, Base
<1>2. ASSUME pc' \in {Idle} \cup Ended
      PROVE  Once'
  BY <1>2 DEF Once
<1>3. ASSUME UNCHANGED <<tree, applied>>
      PROVE  /\ ScriptPath \in DOMAIN tree' => tree'[ScriptPath] = Start[ScriptPath]
             /\ IsDirectory(tree', ArchiveDir)
             /\ LET fresh == script'[Commands].src.names
                IN  fresh \in DOMAIN tree' => tree'[fresh] = NewText
             /\ \A i \in 1..Commands \ Repeatable :
                  /\ <<1, i>> \in applied' => Takes(script'[i]) \notin DOMAIN tree'
                  /\ script'[i].op # "DELETE" => ~ IsDirectory(tree', Takes(script'[i]))
             /\ Told' = Told
  BY <1>1, <1>3 DEF Published, Standing, Told, Exists, Takes, IsDirectory
<1>4. CASE UNCHANGED all
  BY <1>4 DEF all, files, session, Published, Standing, Telling, Once, Told, Exists, Takes,
     IsDirectory
<1>5. CASE Check
  <2>1. /\ UNCHANGED <<files, errorsFile, session, step, errors, applied>>
        /\ \/ main = "directories" /\ main' = "version" /\ UNCHANGED <<num, found>>
           \/ main = "version" /\ main' = "script" /\ UNCHANGED num /\ found' = Told
           \/ /\ main = "script" /\ ~ Exists(tree, ScriptPath) /\ main' = "exit1"
              /\ UNCHANGED <<num, found>>
           \/ /\ main = "script" /\ Exists(tree, ScriptPath) /\ main' = "hubbard"
              /\ num' = 1 /\ UNCHANGED found
           \/ /\ main \in {"hubbard", "header", "check"}
              /\ main' \in {"header", "check", "open"} /\ UNCHANGED <<num, found>>
           \/ /\ main = "commands" /\ step > Commands
              /\ main' = (IF errors = 0 THEN "archive" ELSE "exit1")
              /\ UNCHANGED <<num, found>>
    BY <1>5, CheckSteps
  <2>2. UNCHANGED <<tree, pc, cmd, job, applied, step, resumed>>
    BY <2>1 DEF files, session
  <2>3. Standing'
    BY <1>3, <2>1, <2>2 DEF Published, Standing, Exists
  <2>4. Told' = Told
    BY <1>3, <2>2
  <2>5. Telling'
    BY <2>1, <2>4 DEF Published, Telling
  <2>6. main # "commands" \/ step > Commands
    BY <2>1
  <2>7. pc' \in {Idle} \cup Ended
    BY <1>1, <2>2, <2>6 DEF AtWork
  <2> QED
    BY <1>2, <2>3, <2>5, <2>7
<1>6. CASE OpenErrors
  <2>1. /\ main = "open" /\ main' = "commands" /\ step' = 1
        /\ UNCHANGED <<tree, pc, num, found, applied, resumed>>
    BY <1>6 DEF OpenErrors, files, session
  <2>2. Standing'
    BY <1>3, <2>1 DEF Published, Standing
  <2>3. Telling'
    BY <1>1, <1>3, <2>1 DEF Published, Telling
  <2>4. pc' \in {Idle} \cup Ended
    BY <1>1, <2>1 DEF AtWork
  <2> QED
    BY <1>2, <2>2, <2>3, <2>4
<1>7. CASE StartSession
  <2>1. /\ UNCHANGED <<tree, applied>> /\ main' = "directories" /\ num' = 0 /\ pc' = Idle
        /\ resumed' = (resumed \/ step > 0)
    BY <1>7, StartSteps
  <2>2. applied' # {} => resumed' \/ step' > 0
    BY <2>1 DEF Published, Standing
  <2>3. Standing'
    BY <1>3, <2>1, <2>2 DEF Standing
  <2>4. Telling'
    BY <2>1 DEF Telling
  <2> QED
    BY <1>2, <2>1, <2>3, <2>4
<1>8. CASE KillProcess
  <2>1. /\ UNCHANGED <<tree, applied, num, step, resumed>> /\ main' = "killed"
        /\ pc' = "killed"
    BY <1>8 DEF KillProcess, Forget
  <2>2. Standing'
    BY <1>3, <2>1 DEF Published, Standing
  <2>3. Telling'
    BY <2>1 DEF Telling
  <2> QED
    BY <1>2, <2>1, <2>2, <2>3 DEF Ended
<1>9. CASE DropErrors
  <2>1. /\ main = "removeErrors" /\ main' = "exit0"
        /\ UNCHANGED <<tree, pc, num, step, applied, resumed>>
    BY <1>9 DEF DropErrors, files, session
  <2>2. Standing'
    BY <1>3, <2>1 DEF Published, Standing
  <2>3. Telling'
    BY <2>1 DEF Telling
  <2>4. pc' \in {Idle} \cup Ended
    BY <1>1, <2>1 DEF AtWork
  <2> QED
    BY <1>2, <2>2, <2>3, <2>4
<1>10. CASE UnpackUpdate
  <2>1. /\ tree' = Start /\ applied = {} /\ main = "idle"
        /\ UNCHANGED <<pc, main, num, step, applied, resumed>>
    BY <1>10, PublishedUnpack DEF session
  <2>2. IsDirectory(Start, ArchiveDir) /\ Start[script[Commands].src.names] = NewText
    BY <1>1, PublishedPaths DEF Publishes
  <2>3. ASSUME NEW i \in 1..Commands \ Repeatable, script[i].op # "DELETE"
        PROVE  ~ IsDirectory(Start, Takes(script[i]))
    BY <1>1, <2>3 DEF Publishes, Takes, IsFile, IsDirectory
  <2>4. Standing'
    BY <1>1, <2>1, <2>2, <2>3 DEF Published, Standing
  <2>5. Telling'
    BY <2>1 DEF Telling
  <2>6. pc' \in {Idle} \cup Ended
    BY <1>1, <2>1 DEF AtWork
  <2> QED
    BY <1>2, <2>4, <2>5, <2>6
<1>11. CASE Archive \/ FillCopy
  <2>1. /\ main \in {"archive", "copying"} /\ main' \in {"copying", "removeScript", "aborted"}
        /\ UNCHANGED <<pc, num, step, applied, resumed>>
        /\ \/ tree' = tree
           \/ /\ \/ tree' = With(tree, ArchivePath, Partial)
                 \/ tree' = With(tree, ArchivePath, tree[ScriptPath])
    BY <1>11 DEF Archive, FillCopy, session
  <2>2. num = 1 /\ ScriptPath \in DOMAIN tree /\ tree[ScriptPath] = Start[ScriptPath]
    BY <2>1 DEF Published, Standing
  <2>3. tree[ScriptPath] # Directory /\ Partial # Directory /\ ScriptPath # ArchivePath
    BY <1>1, <2>2, Paths, KindAssumption, PublishedPaths
  <2>4. ASSUME NEW node, node # Directory, tree' = With(tree, ArchivePath, node)
        PROVE  Standing'
    <3>1. /\ DOMAIN tree' \ {ArchivePath} = DOMAIN tree \ {ArchivePath}
          /\ \A p \in DOMAIN tree \ {ArchivePath} : tree'[p] = tree[p]
          /\ tree'[ArchivePath] # Directory
      BY <2>4 DEF With
    <3>2. /\ ScriptPath \in DOMAIN tree' => tree'[ScriptPath] = Start[ScriptPath]
          /\ IsDirectory(tree', ArchiveDir)
          /\ LET fresh == script[Commands].src.names
             IN  fresh \in DOMAIN tree' => tree'[fresh] = NewText
          /\ \A i \in 1..Commands \ Repeatable :
               /\ <<1, i>> \in applied' => Takes(script[i]) \notin DOMAIN tree'
               /\ script[i].op # "DELETE" => ~ IsDirectory(tree', Takes(script[i]))
      BY <1>1, <2>1, <2>2, <2>3, <3>1, StandingOther
    <3>3. ScriptPath \in DOMAIN tree'
      BY <2>2, <2>3, <3>1
    <3>4. applied' # {} => resumed' \/ step' > 0
      BY <2>1 DEF Published, Standing
    <3> QED
      BY <1>1, <2>1, <2>2, <3>2, <3>3, <3>4 DEF Standing
  <2>5. tree' = tree => Standing'
    BY <1>3, <2>1, <2>2 DEF Published, Standing
  <2>6. Standing'
    BY <2>1, <2>3, <2>4, <2>5
  <2>7. Telling'
    BY <2>1 DEF Telling
  <2>8. pc' \in {Idle} \cup Ended
    BY <1>1, <2>1 DEF AtWork
  <2> QED
    BY <1>2, <2>6, <2>7, <2>8
<1>12. CASE DropScript
  <2>1. /\ main = "removeScript" /\ main' = "removeErrors"
        /\ UNCHANGED <<pc, num, step, applied, resumed>>
        /\ tree' = Without(tree, ScriptPath)
    BY <1>12 DEF DropScript, session
  <2>2. num = 1
    BY <2>1 DEF Published, Standing
  <2>3. /\ DOMAIN tree' \ {ScriptPath} = DOMAIN tree \ {ScriptPath}
        /\ \A p \in DOMAIN tree \ {ScriptPath} : tree'[p] = tree[p]
        /\ ScriptPath \notin DOMAIN tree' /\ ArchivePath \notin {ScriptPath}
    BY <1>1, <2>1, PublishedPaths DEF Without
  <2>4. /\ IsDirectory(tree', ArchiveDir)
        /\ LET fresh == script[Commands].src.names
           IN  fresh \in DOMAIN tree' => tree'[fresh] = NewText
        /\ \A i \in 1..Commands \ Repeatable :
             /\ <<1, i>> \in applied' => Takes(script[i]) \notin DOMAIN tree'
             /\ script[i].op # "DELETE" => ~ IsDirectory(tree', Takes(script[i]))
    BY <1>1, <2>1, <2>3, StandingOther
  <2>5. applied' # {} => resumed' \/ step' > 0
    BY <2>1 DEF Published, Standing
  <2>6. Standing'
    BY <1>1, <2>1, <2>2, <2>3, <2>4, <2>5 DEF Standing
  <2>7. Telling'
    BY <2>1 DEF Telling
  <2>8. pc' \in {Idle} \cup Ended
    BY <1>1, <2>1 DEF AtWork
  <2> QED
    BY <1>2, <2>6, <2>7, <2>8
<1> QED
  BY <1>4, <1>5, <1>6, <1>7, <1>8, <1>9, <1>10, <1>11, <1>12 DEF SessionNext, Work

LEMMA PublishedNext == Published /\ [SessionNext]_all => Published'
<1> SUFFICES ASSUME Published, [SessionNext]_all PROVE Published'
  OBVIOUS
<1>1. Kept' /\ script' = script
  BY KeptNext, ScriptStays DEF Published
<1>2. Publishes(script)'
  BY <1>1 DEF Published
<1>3. Standing' /\ Telling' /\ Once'
  BY PublishedOther, StandingCommand, TellingCommand, OnceCommand
<1> QED
  BY <1>1, <1>2, <1>3 DEF Published
\* What UpdateRun sees of a session.
scriptsSeen == {n \in {1} : Exists(tree, ScriptPath)}
archiveSeen ==
    [n \in {1} |-> IF ~ Exists(tree, ArchivePath) THEN "none"
                   ELSE IF tree[ArchivePath] = Partial THEN "partial"
                   ELSE "whole"]
errorsSeen == [n \in {1} |-> errorsFile]
releaseSeen == IF main = "commands" /\ step <= Commands THEN found ELSE Told

\* It sees no more of the tree than two paths.
LEMMA SeenPaths ==
    /\ (ScriptPath \in DOMAIN tree' <=> ScriptPath \in DOMAIN tree) => scriptsSeen' = scriptsSeen
    /\ (ArchivePath \in DOMAIN tree' <=> ArchivePath \in DOMAIN tree)
         /\ (ArchivePath \in DOMAIN tree => tree'[ArchivePath] = tree[ArchivePath])
         => archiveSeen' = archiveSeen
    /\ tree' = tree => Told' = Told
BY DEF scriptsSeen, archiveSeen, Told, Exists

LEMMA SeenStutter ==
    ASSUME UNCHANGED <<scriptsSeen, archiveSeen, errorsSeen, releaseSeen, applied, main, num,
                       found, warning, step, errors>>
    PROVE  UNCHANGED Run!vars
BY DEF Run!vars, scriptsSeen, archiveSeen, errorsSeen, releaseSeen

\* A command seen as a whole: it is at work, succeeds, logs an error or throws.
LEMMA SeenCommand ==
    ASSUME Published, BeginCommand \/ ContinueCommand
    PROVE  [Run!Next]_Run!vars
<1>1. /\ step \in 1..Commands /\ script \in Scripts /\ main = "commands" /\ num = 1
      /\ UNCHANGED <<num, found, warning>> /\ Commands \in Nat \ {0}
  BY CommandStep, ScriptsAssumption DEF Published, Standing
<1>2. \/ /\ pc' = "aborted" /\ main' = "aborted"
         /\ UNCHANGED <<step, errors, errorsFile, applied>>
      \/ pc' \notin {Idle, "aborted"} /\ UNCHANGED <<main, step, errors, errorsFile, applied>>
      \/ /\ pc' = Idle /\ main' = main /\ step' = step + 1
         /\ errors' = (IF logged' THEN errors + 1 ELSE errors)
         /\ errorsFile' = (IF logged' THEN "errors" ELSE errorsFile)
         /\ applied' = (IF logged' THEN applied ELSE applied \cup {<<num, step>>})
  BY CommandStep DEF Published
<1>3. UNCHANGED <<scriptsSeen, archiveSeen>>
  <2>1. \A p \in {ScriptPath, ArchivePath} :
          (p \in DOMAIN tree' <=> p \in DOMAIN tree) /\ (p \in DOMAIN tree => tree'[p] = tree[p])
    BY StandingCommand
  <2> QED
    BY <2>1, SeenPaths
<1>4. releaseSeen = found /\ step <= Commands
  BY <1>1 DEF releaseSeen
<1>5. /\ step < Commands => found = Told /\ Told' = Told
      /\ step = Commands => Told \in {found, 0, 2} /\ (pc = Idle => found = Told)
      /\ Told' \in {Told, 0, 2}
  BY <1>1, TellingCommand DEF Published, Telling
<1>6. step < Commands \/ step = Commands
  BY <1>1
<1>7. CASE pc' \notin {Idle, "aborted"}
  <2>1. UNCHANGED <<main, step, errors, errorsFile, applied>>
    BY <1>2, <1>7
  <2>2. releaseSeen' = releaseSeen /\ errorsSeen' = errorsSeen
    BY <1>1, <2>1 DEF releaseSeen, errorsSeen
  <2> QED
    BY <1>1, <1>3, <2>1, <2>2, SeenStutter
<1>8. CASE pc' = "aborted"
  <2>1. main' = "aborted" /\ UNCHANGED <<step, errors, errorsFile, applied>>
    BY <1>2, <1>8 DEF Idle
  <2>2. releaseSeen' = Told' /\ errorsSeen' = errorsSeen
    BY <2>1 DEF releaseSeen, errorsSeen
  <2>3. releaseSeen' \in IF step = Commands THEN {releaseSeen, num + 1, 0} ELSE {releaseSeen}
    BY <1>1, <1>4, <1>5, <1>6, <2>2
  <2>4. Run!Unfinished
    BY <1>1, <2>3 DEF Run!Unfinished, Run!NoRelease, releaseSeen
  <2>5. Run!CommandThrows
    BY <1>1, <1>3, <1>4, <2>1, <2>2, <2>4
       DEF Run!CommandThrows, Run!CanFail, Run!run, scriptsSeen, archiveSeen, errorsSeen
  <2> QED
    BY <2>5 DEF Run!Next, Run!Process
<1>9. CASE pc' = Idle /\ logged'
  <2>1. /\ main' = main /\ step' = step + 1 /\ errors' = errors + 1 /\ errorsFile' = "errors"
        /\ applied' = applied
    BY <1>2, <1>9 DEF Idle
  <2>2. step = Commands => Told' = found
    <3> SUFFICES ASSUME step = Commands PROVE Told' = found
      OBVIOUS
    <3>1. step \notin Repeatable \ {Commands}
      OBVIOUS
    <3>2. CASE BeginCommand
      <4>1. ~ Complete /\ ~ TurnsToFile(script[step])
        BY <1>9 DEF Complete, TurnsToFile, Forget, Idle
      <4>2. pc = Idle /\ found = Told
        BY <1>5, <3>2 DEF BeginCommand
      <4>3. CASE tree' = tree
        BY <4>2, <4>3, SeenPaths
      <4>4. CASE \E d : Makes(script[step], d) /\ tree' = With(tree, d, Directory)
        <5>1. PICK d : Makes(script[step], d) /\ tree' = With(tree, d, Directory)
          BY <4>4
        <5>2. script[step].op \in {"MOVE", "REPLACE"}
              /\ To(script[step], script[step].src.names) = ReleasePath
          BY DEF Published, Publishes
        <5>3. script[step].dst.names \in Entries
          BY <1>1, <5>2, CarefulLines DEF Published, Kept
        <5>4. d \in Path /\ ReleasePath = Append(d, LastName(script[step].src.names))
          BY <5>1, <5>2, <5>3, EntriesAssumption DEF Makes, To
        <5>5. d # ReleasePath
          <6>1. Len(ReleasePath) = Len(d) + 1 /\ Len(d) \in Nat
            BY <5>4 DEF Path
          <6> QED
            BY <6>1
        <5> QED
          BY <4>2, <5>1, <5>5 DEF With, Told, Exists
      <4> QED
        BY <3>1, <3>2, <4>1, <4>3, <4>4, OnceBegins
    <3>3. CASE ContinueCommand
      <4>1. ~ Abort /\ ~ Complete /\ pc' \notin Transferring /\ pc' # "next"
        BY <1>9 DEF Abort, Complete, Forget, Idle, Transferring
      <4> QED
        BY <3>1, <3>3, <4>1, OnceContinues
    <3> QED
      BY <3>2, <3>3
  <2>3. releaseSeen' = releaseSeen
    BY <1>1, <1>4, <1>5, <1>6, <2>1, <2>2 DEF releaseSeen
  <2>4. errorsSeen' = [errorsSeen EXCEPT ![num] = "errors"]
    BY <1>1, <2>1 DEF errorsSeen
  <2>5. Run!CommandLogsError
    BY <1>1, <1>3, <1>4, <2>1, <2>3, <2>4
       DEF Run!CommandLogsError, Run!CanFail, scriptsSeen, archiveSeen, errorsSeen, releaseSeen
  <2> QED
    BY <2>5 DEF Run!Next, Run!Process
<1>10. CASE pc' = Idle /\ ~ logged'
  <2>1. /\ main' = main /\ step' = step + 1 /\ errors' = errors /\ errorsFile' = errorsFile
        /\ applied' = applied \cup {<<num, step>>}
    BY <1>2, <1>10 DEF Idle
  <2>2. step \notin Repeatable => <<num, step>> \notin applied
    BY <1>1, <1>10, OnceEnds
  <2>3. step = Commands => Told' = 2
    BY <1>10, OnceEnds
  <2>4. releaseSeen' = IF step = Commands THEN num + 1 ELSE releaseSeen
    BY <1>1, <1>4, <1>5, <1>6, <2>1, <2>3 DEF releaseSeen
  <2>5. errorsSeen' = errorsSeen
    BY <2>1 DEF errorsSeen
  <2>6. Run!CommandSucceeds
    BY <1>1, <1>3, <1>4, <2>1, <2>2, <2>4, <2>5
       DEF Run!CommandSucceeds, Run!CanSucceed, Run!TakeEffect, scriptsSeen, archiveSeen,
           errorsSeen, releaseSeen
  <2> QED
    BY <2>6 DEF Run!Next, Run!Process
<1> QED
  BY <1>7, <1>8, <1>9, <1>10

\* main and the user around the commands.
LEMMA SeenOther ==
    ASSUME Published, [SessionNext]_all, ~ BeginCommand, ~ ContinueCommand
    PROVE  [Run!Next]_Run!vars
<1>1. /\ script \in Scripts /\ Publishes(script) /\ AtWork /\ Copying /\ step \in Nat
      /\ Commands \in Nat \ {0}
  BY ScriptsAssumption DEF Published, Kept, Base
<1>2. /\ ScriptPath # ArchivePath /\ ReleasePath \notin {ScriptPath, ArchivePath}
      /\ ArchiveDir \notin {ScriptPath, ArchivePath}
  BY <1>1, PublishedPaths
<1>3. Told' = Told \/ tree' # tree
  BY SeenPaths
<1>4. CASE UNCHANGED all
  <2>1. UNCHANGED <<scriptsSeen, archiveSeen, errorsSeen, releaseSeen, applied, main, num,
                    found, warning, step, errors>>
    BY <1>4, SeenPaths DEF all, files, errorsSeen, releaseSeen
  <2> QED
    BY <2>1, SeenStutter
<1>5. CASE Check
  BY <1>5 DEF Check, Run!Next, Run!Process
<1>6. CASE StartSession
  BY <1>6 DEF StartSession, Run!Next, Run!User
<1>7. CASE OpenErrors
  <2>1. /\ main = "open" /\ main' = "commands" /\ step' = 1 /\ errorsFile' = "empty"
        /\ UNCHANGED <<tree, num, found, warning, errors, applied>>
    BY <1>7 DEF OpenErrors, files
  <2>2. num = 1 /\ found = Told
    BY <2>1 DEF Published, Standing, Telling
  <2>3. releaseSeen' = releaseSeen /\ UNCHANGED <<scriptsSeen, archiveSeen>>
    BY <1>1, <2>1, <2>2, SeenPaths DEF releaseSeen
  <2>4. errorsSeen' = [errorsSeen EXCEPT ![num] = "empty"]
    BY <2>1, <2>2 DEF errorsSeen
  <2>5. Run!OpenErrorsFile
    BY <2>1, <2>3, <2>4
       DEF Run!OpenErrorsFile, scriptsSeen, archiveSeen, errorsSeen, releaseSeen
  <2> QED
    BY <2>5 DEF Run!Next, Run!Process
<1>8. CASE Archive
  <2>1. /\ main = "archive"
        /\ UNCHANGED <<num, found, warning, step, errors, errorsFile, applied>>
        /\ IF IsFile(tree, ScriptPath) /\ CanCreate(tree, ArchiveDir, LastName(ScriptPath))
           THEN tree' = With(tree, ArchivePath, Partial) /\ main' = "copying"
           ELSE UNCHANGED tree /\ main' = "aborted"
    BY <1>8 DEF Archive
  <2>2. /\ num = 1 /\ ScriptPath \in DOMAIN tree /\ tree[ScriptPath] = Start[ScriptPath]
        /\ IsDirectory(tree, ArchiveDir)
    BY <2>1 DEF Published, Standing
  <2>3. IsFile(tree, ScriptPath)
    BY <2>2, Paths DEF IsFile
  <2>4. CanCreate(tree, ArchiveDir, LastName(ScriptPath)) <=> ArchivePath \notin DOMAIN tree
    BY <2>2 DEF CanCreate, ArchivePath, Exists
  <2>5. releaseSeen = Told /\ releaseSeen' = Told' /\ errorsSeen' = errorsSeen
    BY <2>1 DEF releaseSeen, errorsSeen
  <2>6. CASE ArchivePath \notin DOMAIN tree
    <3>1. tree' = With(tree, ArchivePath, Partial) /\ main' = "copying"
      BY <2>1, <2>3, <2>4, <2>6
    <3>2. scriptsSeen' = scriptsSeen /\ Told' = Told
      BY <1>2, <3>1 DEF scriptsSeen, Told, Exists, With
    <3>3. archiveSeen[num] = "none" /\ archiveSeen' = [archiveSeen EXCEPT ![num] = "partial"]
      <4>1. ArchivePath \in DOMAIN tree' /\ tree'[ArchivePath] = Partial
        BY <3>1 DEF With
      <4> QED
        BY <2>2, <2>6, <4>1 DEF archiveSeen, Exists
    <3>4. Run!OpenArchive
      BY <2>1, <2>5, <3>1, <3>2, <3>3
         DEF Run!OpenArchive, Run!run, scriptsSeen, archiveSeen, errorsSeen, releaseSeen
    <3> QED
      BY <3>4 DEF Run!Next, Run!Process
  <2>7. CASE ArchivePath \in DOMAIN tree
    <3>1. tree' = tree /\ main' = "aborted"
      BY <2>1, <2>3, <2>4, <2>7
    <3>2. UNCHANGED <<scriptsSeen, archiveSeen>> /\ Told' = Told
      BY <3>1, SeenPaths
    <3>3. archiveSeen[num] # "none"
      BY <2>2, <2>7 DEF archiveSeen, Exists
    <3>4. Run!OpenArchive
      BY <2>1, <2>5, <3>1, <3>2, <3>3
         DEF Run!OpenArchive, Run!run, scriptsSeen, archiveSeen, errorsSeen, releaseSeen
    <3> QED
      BY <3>4 DEF Run!Next, Run!Process
  <2> QED
    BY <2>6, <2>7
<1>9. CASE FillCopy
  <2>1. /\ main = "copying" /\ main' = "removeScript"
        /\ UNCHANGED <<num, found, warning, step, errors, errorsFile, applied>>
        /\ tree' = With(tree, ArchivePath, tree[ScriptPath])
    BY <1>9 DEF FillCopy
  <2>2. /\ num = 1 /\ ScriptPath \in DOMAIN tree /\ tree[ScriptPath] = Start[ScriptPath]
    BY <2>1 DEF Published, Standing
  <2>3. tree[ScriptPath] # Partial
    BY <1>1, <2>2 DEF Publishes
  <2>4. releaseSeen = Told /\ releaseSeen' = Told' /\ errorsSeen' = errorsSeen
    BY <2>1 DEF releaseSeen, errorsSeen
  <2>5. scriptsSeen' = scriptsSeen /\ Told' = Told
    BY <1>2, <2>1 DEF scriptsSeen, Told, Exists, With
  <2>6. archiveSeen' = [archiveSeen EXCEPT ![num] = "whole"]
    <3>1. ArchivePath \in DOMAIN tree' /\ tree'[ArchivePath] # Partial
      BY <2>1, <2>3 DEF With
    <3> QED
      BY <2>2, <3>1 DEF archiveSeen, Exists
  <2>7. Run!FillArchive
    BY <2>1, <2>4, <2>5, <2>6
       DEF Run!FillArchive, Run!run, scriptsSeen, archiveSeen, errorsSeen, releaseSeen
  <2> QED
    BY <2>7 DEF Run!Next, Run!Process
<1>10. CASE DropScript
  <2>1. /\ main = "removeScript" /\ main' = "removeErrors"
        /\ UNCHANGED <<num, found, warning, step, errors, errorsFile, applied>>
        /\ tree' = Without(tree, ScriptPath)
    BY <1>10 DEF DropScript
  <2>2. num = 1
    BY <2>1 DEF Published, Standing
  <2>3. releaseSeen = Told /\ releaseSeen' = Told' /\ errorsSeen' = errorsSeen
    BY <2>1 DEF releaseSeen, errorsSeen
  <2>4. Told' = Told
    BY <1>2, <2>1 DEF Told, Exists, Without
  <2>5. archiveSeen' = archiveSeen
    BY <1>2, <2>1, SeenPaths DEF Without
  <2>6. scriptsSeen' = scriptsSeen \ {num}
    BY <2>1, <2>2 DEF scriptsSeen, Exists, Without
  <2>7. Run!RemoveScript
    BY <2>1, <2>3, <2>4, <2>5, <2>6
       DEF Run!RemoveScript, Run!run, scriptsSeen, archiveSeen, errorsSeen, releaseSeen
  <2> QED
    BY <2>7 DEF Run!Next, Run!Process
<1>11. CASE DropErrors
  <2>1. /\ main = "removeErrors" /\ main' = "exit0" /\ errorsFile' = "none"
        /\ UNCHANGED <<tree, num, found, warning, step, errors, applied>>
    BY <1>11 DEF DropErrors, files
  <2>2. num = 1
    BY <2>1 DEF Published, Standing
  <2>3. UNCHANGED <<scriptsSeen, archiveSeen, releaseSeen>>
    BY <2>1, SeenPaths DEF releaseSeen
  <2>4. errorsSeen' = [errorsSeen EXCEPT ![num] = "none"]
    BY <2>1, <2>2 DEF errorsSeen
  <2>5. Run!RemoveErrorsFile
    BY <2>1, <2>3, <2>4
       DEF Run!RemoveErrorsFile, Run!run, scriptsSeen, archiveSeen, errorsSeen, releaseSeen
  <2> QED
    BY <2>5 DEF Run!Next, Run!Process
<1>12. CASE UnpackUpdate
  <2>1. /\ tree = Original /\ tree' = Start /\ main = "idle"
        /\ UNCHANGED <<main, num, found, warning, step, errors, errorsFile, applied>>
        /\ ArchivePath \notin DOMAIN tree /\ ArchivePath \notin DOMAIN tree'
        /\ Told' = Told
    BY <1>12, PublishedUnpack
  <2>2. ScriptPath \notin DOMAIN tree /\ ScriptPath \in DOMAIN tree'
    BY <2>1, PackAssumption, Paths DEF Exists
  <2>3. scriptsSeen = {} /\ scriptsSeen' = {1}
    BY <2>2 DEF scriptsSeen, Exists
  <2>4. archiveSeen[1] = "none" /\ archiveSeen' = archiveSeen
    BY <2>1 DEF archiveSeen, Exists
  <2>5. releaseSeen' = releaseSeen /\ errorsSeen' = errorsSeen
    BY <2>1 DEF releaseSeen, errorsSeen
  <2>6. Run!Unpack(1)
    BY <2>1, <2>3, <2>4, <2>5
       DEF Run!Unpack, Run!run, Run!Stopped, scriptsSeen, archiveSeen, errorsSeen, releaseSeen
  <2>7. 1 \in Run!Updates
    BY DEF Run!Updates
  <2> QED
    BY <2>6, <2>7 DEF Run!Next, Run!User
<1>13. CASE KillProcess
  <2>1. /\ main \notin Run!Stopped /\ main' = "killed"
        /\ UNCHANGED <<tree, num, found, warning, step, errors, errorsFile, applied>>
    BY <1>13 DEF KillProcess
  <2>2. UNCHANGED <<scriptsSeen, archiveSeen, errorsSeen>> /\ Told' = Told /\ releaseSeen' = Told
    BY <2>1, SeenPaths DEF errorsSeen, releaseSeen
  <2>3. releaseSeen' \in IF main = "commands" /\ step = Commands
                         THEN {releaseSeen, num + 1, 0} ELSE {releaseSeen}
    <3>1. CASE main = "commands" /\ step <= Commands
      <4>1. num = 1 /\ releaseSeen = found
        BY <3>1 DEF Published, Standing, releaseSeen
      <4>2. /\ step < Commands => found = Told
            /\ step = Commands => Told \in {found, 0, 2}
        BY <3>1 DEF Published, Telling
      <4>3. step < Commands \/ step = Commands
        BY <1>1, <3>1
      <4> QED
        BY <2>2, <3>1, <4>1, <4>2, <4>3
    <3>2. CASE ~ (main = "commands" /\ step <= Commands)
      BY <2>2, <3>2, <1>1 DEF releaseSeen
    <3> QED
      BY <3>1, <3>2
  <2>4. Run!Unfinished
    BY <2>3 DEF Run!Unfinished, Run!NoRelease, releaseSeen
  <2>5. Run!Kill
    BY <2>1, <2>2, <2>4
       DEF Run!Kill, Run!run, scriptsSeen, archiveSeen, errorsSeen
  <2> QED
    BY <2>5 DEF Run!Next
<1> QED
  BY <1>4, <1>5, <1>6, <1>7, <1>8, <1>9, <1>10, <1>11, <1>12, <1>13 DEF SessionNext, Work

LEMMA SeenInit == SessionInit /\ Publishes(script) => Run!Init
<1> SUFFICES ASSUME SessionInit, Publishes(script) PROVE Run!Init
  OBVIOUS
<1>1. /\ script \in Scripts /\ tree = Original /\ main = "idle" /\ num = 0 /\ found = 0
      /\ warning = FALSE /\ step = 0 /\ errors = 0 /\ errorsFile = "none" /\ applied = {}
  BY DEF SessionInit
<1>2. ScriptPath \notin DOMAIN Original /\ ArchivePath \notin DOMAIN Original
  BY PackAssumption DEF Exists, Publishes, Start
<1>3. scriptsSeen = {} /\ errorsSeen = [n \in Run!Updates |-> "none"]
  BY <1>1, <1>2 DEF scriptsSeen, errorsSeen, Exists, Run!Updates
<1>4. archiveSeen = [n \in Run!Updates |-> IF n < 1 THEN "whole" ELSE "none"]
  BY <1>1, <1>2 DEF archiveSeen, Exists, Run!Updates
<1>5. releaseSeen \in {0, 1}
  <2>1. releaseSeen = TellsOf(tree)
    BY <1>1 DEF releaseSeen, TellsOf, Told
  <2>2. TellsOf(tree) \in {0, 1, 2}
    BY DEF TellsOf
  <2>3. TellsOf(tree) # 2
    BY <1>1 DEF Publishes
  <2> QED
    BY <2>1, <2>2, <2>3
<1>6. applied = (1..(1 - 1)) \X (1..Commands)
  BY <1>1
<1> QED
  BY <1>1, <1>3, <1>4, <1>5, <1>6
     DEF Run!Init, Run!NoRelease, Run!BadRelease, Run!Updates, Unattended,
         scriptsSeen, archiveSeen, errorsSeen, releaseSeen

\* Seen as a whole, the runs of an update as its makers publish it, made of the
\* steps of its commands on the tree, are runs of UpdateRun: a command that
\* works only once does not succeed a second time, HVSC.txt tells the new
\* version when the last command has succeeded and at no earlier moment than
\* within it, and nothing but main touches the script and its copy.
THEOREM SessionImplementsRun ==
    SessionSpec /\ Careful /\ Publishes(script) => Run!Safety
<1>1. SessionInit /\ Careful /\ Publishes(script) => Published /\ Run!Init
  BY PublishedInit, SeenInit
<1>2. Published /\ [SessionNext]_all => Published' /\ [Run!Next]_Run!vars
  BY PublishedNext, SeenCommand, SeenOther
<1> QED
  BY <1>1, <1>2, PTL DEF SessionSpec, Run!Safety
=============================================================================
