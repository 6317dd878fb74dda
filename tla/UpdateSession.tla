---------------------------- MODULE UpdateSession ----------------------------
(***************************************************************************)
(* One update from the unpacked pack to the archived script, on the tree   *)
(* itself: main's run (UpdateRun) and the file-system calls of its         *)
(* commands (FileCommands) put together, with the sidtune commands as what *)
(* they do to a file (SidTune).  The script, its copy in DOCUMENTS, the    *)
(* documentation and the tunes are all files of one tree.  The process can *)
(* be killed at any step; the tool is then run again on what is there.     *)
(*                                                                         *)
(* An operator named Wrong... is the definition below it with a mistake a  *)
(* programmer could make: what the properties have to notice.              *)
(***************************************************************************)
EXTENDS FileCommands

CONSTANTS
    Scripts,        \* the scripts an update can consist of
    Commands,       \* their length
    Repeatable,     \* the commands of them that can succeed again
    Original,       \* the collection before the update
    Pack,           \* what unpacking the update adds to it
    Edited,         \* Edited[t]: the tune t after a sidtune command
    ScriptPath, ArchiveDir, ReleasePath,
    Entries,        \* what collection and scripts can come to name; all of Path will do
    OldText, NewText    \* HVSC.txt before and after the update

ArchivePath == Append(ArchiveDir, LastName(ScriptPath))

EditCommand == [op : {"EDIT"}, path : Line]

ASSUME ScriptsAssumption ==
    /\ Commands \in Nat \ {0}
    /\ Scripts \subseteq [1..Commands -> MoveCommand \cup OtherCommand \cup EditCommand]

\* Changing the same field again changes nothing (RepeatingIsHarmless of SidTune).
ASSUME EditedAssumption ==
    /\ DOMAIN Edited \subseteq Tune
    /\ \A t \in DOMAIN Edited : Edited[t] \in DOMAIN Edited /\ Edited[Edited[t]] = Edited[t]

VARIABLES
    script,         \* the script of the update
    main,           \* where main is, or how it ended
    num, found, warning, step, errors,      \* as in UpdateRun
    errorsFile,     \* the file ErrorsXY.hvs
    object,         \* the tune a sidtune command has in memory
    applied,        \* the commands that have had their effect
    resumed,        \* an earlier run has got to the commands
    expected        \* expected[i]: the tree i commands of the script should lead to

files == <<tree, pc, cmd, job, logged>>
session == <<script, object, resumed, expected>>
all == <<files, main, num, found, warning, step, errors, errorsFile, applied, session>>

\* What HVSC.txt tells: the version before the update is 1, the one after it 2.
Told ==
    IF ~ Exists(tree, ReleasePath) THEN 0
    ELSE CASE tree[ReleasePath] = OldText -> 1
           [] tree[ReleasePath] = NewText -> 2
           [] OTHER -> 0

\* HVSC_NO_PROMPT is set.
Unattended == TRUE

\* UpdateRun sees of the tree the script, its copy and the release; of a
\* command it sees the end.
Run == INSTANCE UpdateRun WITH
    LastUpdate <- 1, Headerless <- {}, OldRelease <- {0}, Prompts <- {FALSE},
    May <- {"fail", "kill"},
    scripts <- {n \in {1} : Exists(tree, ScriptPath)},
    archive <- [n \in {1} |-> IF ~ Exists(tree, ArchivePath) THEN "none"
                              ELSE IF tree[ArchivePath] = Partial THEN "partial"
                              ELSE "whole"],
    errorsFile <- [n \in {1} |-> errorsFile],
    release <- IF main = "commands" /\ step <= Commands THEN found ELSE Told,
    oldRelease <- 0, prompts <- ~ Unattended, confirmed <- ~ Unattended, pc <- main

-----------------------------------------------------------------------------
(* What HVSC_Update.txt says the commands do, on names spelled exactly.    *)

Start ==
    [p \in DOMAIN Original \cup DOMAIN Pack |->
       IF p \in DOMAIN Pack THEN Pack[p] ELSE Original[p]]

\* Unpacking adds to a collection and replaces files; it needs the directories.
ASSUME PackAssumption ==
    /\ WellFormed(Original) /\ WellFormed(Start)
    /\ \A p \in DOMAIN Original : IsDirectory(Original, p) => IsDirectory(Start, p)
    /\ IsFile(Pack, ScriptPath) /\ ~ Exists(Original, ScriptPath)
    /\ ArchiveDir \in Path

\* What a MOVE or REPLACE can take: the source or what lies in it.
From(command, path) == path # Root /\ command.src.names \in {path, Parent(path)}

To(command, path) ==
    IF command.dst.slash THEN Append(command.dst.names, LastName(path))
    ELSE command.dst.names

ASSUME EntriesAssumption ==
    /\ Entries \subseteq Path
    /\ DOMAIN Start \cup {ArchivePath} \subseteq Entries
    /\ \A path \in Entries : Parent(path) \in Entries
    /\ \A s \in Scripts, i \in 1..Commands :
         IF s[i].op \in {"MOVE", "REPLACE"}
         THEN /\ {s[i].src.names, s[i].dst.names} \subseteq Entries
              /\ \A path \in Entries : From(s[i], path) => To(s[i], path) \in Entries
         ELSE s[i].path.names \in Entries

\* The files a MOVE or REPLACE takes, each with where it goes.
Transfers(t, command) ==
    LET src == command.src.names
        taken == IF IsDirectory(t, src) THEN {Append(src, n) : n \in FileNames(t, src)}
                 ELSE {src}
    IN  {<<path, To(command, path)>> : path \in taken}

Moved(t, moves, made) ==
    [p \in (DOMAIN t \ {m[1] : m \in moves}) \cup {m[2] : m \in moves} \cup made |->
       IF \E m \in moves : m[2] = p
       THEN t[(CHOOSE m \in moves : m[2] = p)[1]]
       ELSE IF Exists(t, p) THEN t[p] ELSE Directory]

Effect(t, command) ==
    CASE command.op = "DELETE" -> Without(t, command.path.names)
      [] command.op = "MKDIR" -> With(t, command.path.names, Directory)
      [] command.op = "EDIT" ->
           With(t, command.path.names, Edited[t[command.path.names]])
      [] OTHER -> Moved(t, Transfers(t, command),
                        IF command.dst.slash THEN {command.dst.names} ELSE {})

\* The trees that the documented commands of s lead through.
After(s) ==
    LET t[i \in 0..Commands] == IF i = 0 THEN Start ELSE Effect(t[i - 1], s[i])
    IN  [i \in 0..Commands |-> t[i]]

-----------------------------------------------------------------------------

SessionInit ==
    /\ script \in Scripts
    /\ tree = Original
    /\ pc = Idle
    /\ cmd = NoCommand
    /\ job = NoJob
    /\ logged = FALSE
    /\ main = "idle"
    /\ num = 0
    /\ found = 0
    /\ warning = FALSE
    /\ step = 0
    /\ errors = 0
    /\ errorsFile = "none"
    /\ object = Partial
    /\ applied = {}
    /\ resumed = FALSE
    /\ expected = After(script)

-----------------------------------------------------------------------------
(* Before and after the commands.                                          *)

UnpackUpdate ==
    /\ main = "idle"
    /\ ~ Exists(tree, ScriptPath)
    /\ tree' = [p \in DOMAIN tree \cup DOMAIN Pack |->
                  IF p \in DOMAIN Pack THEN Pack[p] ELSE tree[p]]
    /\ UNCHANGED <<pc, cmd, job, logged, main, num, found, warning, step, errors,
                   errorsFile, applied, session>>

StartSession ==
    /\ UNCHANGED <<tree, script, errorsFile, expected>>
    /\ Run!StartRun
    /\ Forget(Idle)
    /\ logged' = FALSE
    /\ object' = Partial
    /\ resumed' = (resumed \/ step > 0)

\* What main reads and decides changes no file.
Check ==
    /\ UNCHANGED <<files, errorsFile>>
    /\ \/ Run!CheckDirectories
       \/ Run!ReadVersion
       \/ Run!FindScript
       \/ Run!CheckHubbard
       \/ Run!ReadHeader
       \/ Run!CheckVersion
       \/ Run!EndOfScript
    /\ UNCHANGED session

OpenErrors ==
    /\ main = "open"
    /\ errorsFile' = "empty"
    /\ step' = 1
    /\ main' = "commands"
    /\ UNCHANGED <<files, num, found, warning, errors, applied, session>>

\* fs::copy_file, as for a tune; nobody catches what it throws.
Archive ==
    /\ main = "archive"
    /\ IF IsFile(tree, ScriptPath) /\ CanCreate(tree, ArchiveDir, LastName(ScriptPath))
       THEN tree' = With(tree, ArchivePath, Partial) /\ main' = "copying"
       ELSE UNCHANGED tree /\ main' = "aborted"
    /\ UNCHANGED <<pc, cmd, job, logged, num, found, warning, step, errors, errorsFile,
                   applied, session>>

FillCopy ==
    /\ main = "copying"
    /\ tree' = With(tree, ArchivePath, tree[ScriptPath])
    /\ main' = "removeScript"
    /\ UNCHANGED <<pc, cmd, job, logged, num, found, warning, step, errors, errorsFile,
                   applied, session>>

DropScript ==
    /\ main = "removeScript"
    /\ tree' = Without(tree, ScriptPath)
    /\ main' = "removeErrors"
    /\ UNCHANGED <<pc, cmd, job, logged, num, found, warning, step, errors, errorsFile,
                   applied, session>>

DropErrors ==
    /\ main = "removeErrors"
    /\ errorsFile' = "none"
    /\ main' = "exit0"
    /\ UNCHANGED <<files, num, found, warning, step, errors, applied, session>>

-----------------------------------------------------------------------------
(* The commands.                                                           *)

\* A sidtune command loads the tune and truncates its file.  What is no whole
\* tune cannot be loaded.
Edit(command) ==
    LET at == Resolve(tree, command.path.names)
    IN  /\ pc = Idle
        /\ CASE at.status = "throws" -> Abort /\ UNCHANGED <<tree, object>>
             [] at.status = "missing" -> LogError /\ UNCHANGED <<tree, object>>
             [] at.status = "found" ->
                  IF ~ IsFile(tree, at.path) \/ tree[at.path] \notin DOMAIN Edited
                  THEN LogError /\ UNCHANGED <<tree, object>>
                  ELSE /\ object' = tree[at.path]
                       /\ tree' = With(tree, at.path, Partial)
                       /\ job' = [NoJob EXCEPT !.dir = Parent(at.path),
                                               !.name = LastName(at.path)]
                       /\ pc' = "save"
                       /\ UNCHANGED <<cmd, logged>>

SaveTune ==
    /\ pc = "save"
    /\ tree' = With(tree, Destination, Edited[object])
    /\ object' = Partial
    /\ Complete

\* An error is forgotten when the next command succeeds.
WrongOutcome ==
    IF pc' = "aborted"
    THEN main' = "aborted" /\ UNCHANGED <<step, errors, errorsFile, applied>>
    ELSE /\ UNCHANGED main
         /\ IF pc' # Idle THEN UNCHANGED <<step, errors, errorsFile, applied>>
            ELSE /\ step' = step + 1
                 /\ errors' = IF logged' THEN 1 ELSE 0
                 /\ errorsFile' = IF logged' THEN "errors" ELSE errorsFile
                 /\ applied' = IF logged' THEN applied ELSE applied \cup {<<num, step>>}

\* What main makes of the way a command ends.
Outcome ==
    IF pc' = "aborted"
    THEN main' = "aborted" /\ UNCHANGED <<step, errors, errorsFile, applied>>
    ELSE /\ UNCHANGED main
         /\ IF pc' # Idle THEN UNCHANGED <<step, errors, errorsFile, applied>>
            ELSE /\ step' = step + 1
                 /\ errors' = IF logged' THEN errors + 1 ELSE errors
                 /\ errorsFile' = IF logged' THEN "errors" ELSE errorsFile
                 /\ applied' = IF logged' THEN applied ELSE applied \cup {<<num, step>>}

BeginCommand ==
    /\ main = "commands"
    /\ step <= Commands
    /\ pc = Idle
    /\ LET command == script[step]
       IN  \/ command.op \in {"MOVE", "REPLACE"} /\ Begin(command) /\ UNCHANGED object
           \/ command.op = "DELETE" /\ Delete(command) /\ UNCHANGED object
           \/ command.op = "MKDIR" /\ MakeDirectory(command) /\ UNCHANGED object
           \/ command.op = "EDIT" /\ Edit(command)
    /\ Outcome
    /\ UNCHANGED <<num, found, warning, script, resumed, expected>>

ContinueCommand ==
    /\ main = "commands"
    /\ \/ /\ \/ NextFile
             \/ EndCommand
             \/ RemoveOld
             \/ OpenDestination
             \/ FillDestination
             \/ RemoveSource
          /\ UNCHANGED object
       \/ SaveTune
    /\ Outcome
    /\ UNCHANGED <<num, found, warning, script, resumed, expected>>

KillProcess ==
    /\ main \notin Run!Stopped
    /\ main' = "killed"
    /\ Forget("killed")
    /\ logged' = FALSE
    /\ object' = Partial
    /\ UNCHANGED <<tree, num, found, warning, step, errors, errorsFile, applied, script,
                   resumed, expected>>

Work ==
    \/ Check
    \/ OpenErrors
    \/ BeginCommand
    \/ ContinueCommand
    \/ Archive
    \/ FillCopy
    \/ DropScript
    \/ DropErrors

SessionNext == Work \/ UnpackUpdate \/ StartSession \/ KillProcess

\* As in UpdateRun, the process goes on and the user owes nothing.
SessionSpec == SessionInit /\ [][SessionNext]_all /\ WF_all(Work)
-----------------------------------------------------------------------------
(* Properties.                                                             *)

\* Seen as a whole, runs of commands that are made of file-system calls are
\* runs of UpdateRun; in particular a command that takes a single file away
\* does not succeed a second time, and HVSC.txt tells the new version only
\* when the last command has begun.  Each run comes to its end, because every
\* command does, whatever the tree it finds.
ImplementsRun == Run!Safety /\ Run!RunEnds

\* What a MOVE or REPLACE brings.
Brought(i) ==
    IF script[i].op \in {"MOVE", "REPLACE"}
    THEN {m[2] : m \in Transfers(expected[i - 1], script[i])} ELSE {}

\* Executed again, the command moves what is then at the path.
Moves(command, path) == command.op \in {"MOVE", "REPLACE"} /\ From(command, path)

\* Executed again, it changes or removes that.
Changes(command, path) == command.op \in {"DELETE", "EDIT"} /\ command.path.names = path

\* No command moves what a later one brings, or changes what the later MOVE or
\* REPLACE of a directory brings, which can succeed on what is left of it.
Restartable ==
    \A i, j \in 1..Commands :
      i < j => \A path \in Brought(j) :
        /\ ~ Moves(script[i], path)
        /\ Changes(script[i], path) => ~ IsDirectory(expected[j - 1], script[j].src.names)

\* When a run archives its script, the collection is what the documented
\* commands make of it, to the last entry, over however many runs.
ArchivedMeansUpdated ==
    main \in {"copying", "removeScript", "removeErrors", "exit0"}
      /\ (resumed => Restartable) =>
        LET aside == {ScriptPath, ArchivePath}
        IN  /\ DOMAIN tree \ aside = DOMAIN expected[Commands] \ aside
            /\ \A p \in DOMAIN tree \ aside : tree[p] = expected[Commands][p]

\* A command names the path, or the directory it takes the file from or to.
About(command, path) ==
    IF command.op \in {"MOVE", "REPLACE"}
    THEN \/ From(command, path) \/ command.dst.names = path
         \/ \E taken \in Entries : From(command, taken) /\ To(command, taken) = path
    ELSE command.path.names = path

\* What neither the pack nor a command of the script is about stays as it is at
\* every moment, through errors, kills and reruns.
BystandersUntouched ==
    \A p \in DOMAIN Original \ DOMAIN Pack :
      (\A i \in 1..Commands : ~ About(script[i], p)) =>
        Exists(tree, p) /\ tree[p] = Original[p]
=============================================================================
