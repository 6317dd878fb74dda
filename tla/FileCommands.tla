---------------------------- MODULE FileCommands ----------------------------
(***************************************************************************)
(* The commands of an update script that rearrange the collection: MOVE    *)
(* and REPLACE (MoveReplace.cpp), DELETE and MKDIR (Update.cpp).           *)
(*                                                                         *)
(* One process executes any sequence of these commands.  A file is moved   *)
(* in steps: the old version is removed (REPLACE), the destination is      *)
(* opened and filled (fs::copy_file), the source is removed.  The process  *)
(* ends early when an exception leaves main ("aborted") or when it is      *)
(* killed between two steps; a later run starts on the tree left behind.   *)
(*                                                                         *)
(* An operator named Wrong... is the definition below it with a mistake a  *)
(* programmer could make: what the properties have to notice.              *)
(***************************************************************************)
EXTENDS HvscTree

CONSTANTS
    Collection,     \* the trees a first run can find
    Command,        \* the commands scripts are made of
    Kills           \* whether the process can be killed

ASSUME CollectionAssumption ==
    \A t \in Collection : WellFormed(t) /\ IsFiniteSet(DOMAIN t)
ASSUME KillsAssumption == Kills \in BOOLEAN

MoveCommand == [op : {"MOVE", "REPLACE"}, src : Line, dst : Line]
OtherCommand == [op : {"DELETE", "MKDIR"}, path : Line]

ASSUME CommandAssumption == Command \subseteq MoveCommand \cup OtherCommand

\* The path lines of the scripts.
ScriptLine ==
    UNION {IF command.op \in {"MOVE", "REPLACE"} THEN {command.src, command.dst}
           ELSE {command.path} : command \in Command}

VARIABLES
    tree,      \* the collection
    pc,        \* what the process does next
    cmd,       \* the command being executed
    job,       \* the local variables of move_replace
    logged     \* whether the last command logged an error

vars == <<tree, pc, cmd, job, logged>>

Idle == "idle"
Ended == {"aborted", "killed"}

NoCommand == [op |-> "none"]

\* source:    the resolved path of the file being moved
\* folder:    the resolved source directory, where the source is a directory
\* todo:      the names in that directory not yet taken
\* dir, name: where the file is moved to
\* old:       the existing file REPLACE removes first, or NoPath
NoJob == [source |-> NoPath, folder |-> NoPath, todo |-> {},
          dir |-> NoPath, name |-> "no path", old |-> NoPath]

Destination == Append(job.dir, job.name)

Init ==
    /\ tree \in Collection
    /\ pc = Idle
    /\ cmd = NoCommand
    /\ job = NoJob
    /\ logged = FALSE

-----------------------------------------------------------------------------

WrongForget(where) ==
    /\ pc' = where
    /\ job' = NoJob
    /\ UNCHANGED cmd

\* The process is at "where" with nothing left of the command's local state.
Forget(where) ==
    /\ pc' = where
    /\ cmd' = NoCommand
    /\ job' = NoJob

Complete == Forget(Idle) /\ logged' = FALSE
LogError == Forget(Idle) /\ logged' = TRUE

\* An exception that nobody catches ends the process; nothing is logged.
Abort == Forget("aborted") /\ logged' = FALSE

WrongReplaceFilename(line, name) == Append(Parent(line.names), name)

\* The path of a line with its file name exchanged (replace_filename): a line
\* that does not end with a slash loses its last name.
ReplaceFilename(line, name) ==
    IF line.slash THEN Append(line.names, name)
    ELSE Append(Parent(line.names), name)

\* fs::remove of a path that was looked up.
RemovePath(path) ==
    IF RemoveThrows(tree, path) THEN Abort /\ UNCHANGED tree
    ELSE IF Exists(tree, path) THEN Complete /\ tree' = Without(tree, path)
    ELSE LogError /\ UNCHANGED tree

-----------------------------------------------------------------------------
(* DELETE and MKDIR are one step each.                                     *)

Delete(command) ==
    LET victim == Resolve(tree, command.path.names)
    IN  /\ pc = Idle
        /\ CASE victim.status = "throws" -> Abort /\ UNCHANGED tree
             [] victim.status = "missing" -> LogError /\ UNCHANGED tree
             [] victim.status = "found" -> RemovePath(victim.path)

MakeDirectory(command) ==
    LET made == MakeDir(tree, command.path.names)
    IN  /\ pc = Idle
        /\ tree' = made.tree
        /\ CASE made.status = "throws" -> Abort
             [] made.status = "logged" -> LogError
             [] made.status = "made" -> Complete

-----------------------------------------------------------------------------
(* MOVE and REPLACE.                                                       *)

\* A destination line that resolves to nothing but ends with a slash names a
\* directory to make, after which it is looked up again.
Prepared(line) ==
    LET at == Resolve(tree, line.names)
        made == MakeDir(tree, line.names)
    IN  IF at.status # "missing" \/ ~ line.slash
        THEN [tree |-> tree, at |-> at]
        ELSE IF made.status = "throws"
        THEN [tree |-> made.tree, at |-> Throws]
        ELSE [tree |-> made.tree, at |-> Resolve(made.tree, line.names)]

\* The process turns to one file.  REPLACE first removes what the name of the
\* destination resolves to.
Transfer(command, file, previous) ==
    IF previous.status = "throws" THEN Abort
    ELSE /\ cmd' = command
         /\ logged' = FALSE
         /\ job' = [file EXCEPT !.old = IF command.op = "REPLACE"
                                        THEN previous.path ELSE NoPath]
         /\ pc' = IF job'.old = NoPath THEN "open" ELSE "removeOld"

\* The source is a file: its destination is a file in the directory that the
\* destination line names or lies in.  (A line that ends with a slash but
\* resolves to a file is its own parent path, and nothing can be made in it.)
BeginFile(command, from, at) ==
    LET dst == command.dst
        name == LastName(command.src.names)
        parent == IF dst.slash THEN at ELSE Resolve(tree', Parent(dst.names))
        file == [NoJob EXCEPT !.source = from]
    IN  IF at.status = "found" /\ IsDirectory(tree', at.path)
        THEN Transfer(command, [file EXCEPT !.dir = at.path, !.name = name],
                      Resolve(tree', ReplaceFilename(dst, name)))
        ELSE CASE parent.status = "throws" -> Abort
               [] parent.status = "missing" -> LogError
               [] parent.status = "found" ->
                    Transfer(command,
                             [file EXCEPT !.dir = parent.path, !.name = LastName(dst.names)],
                             Resolve(tree', dst.names))

\* The source is a directory: all its files are moved, the directories in it
\* are not.
BeginFolder(command, from, at) ==
    IF at.status = "found" /\ IsDirectory(tree', at.path)
    THEN /\ pc' = "next"
         /\ cmd' = command
         /\ job' = [NoJob EXCEPT !.folder = from, !.dir = at.path,
                                !.todo = FileNames(tree', from)]
         /\ logged' = FALSE
    ELSE LogError

Begin(command) ==
    LET from == Resolve(tree, command.src.names)
        prepared == Prepared(command.dst)
    IN  /\ pc = Idle
        /\ tree' = IF from.status = "found" THEN prepared.tree ELSE tree
        /\ CASE from.status = "throws" -> Abort
             [] from.status = "missing" -> LogError
             [] from.status = "found" ->
                  CASE prepared.at.status = "throws" -> Abort
                    [] prepared.at.status = "missing" /\ command.dst.slash -> LogError
                    [] OTHER -> IF IsDirectory(tree', from.path)
                                THEN BeginFolder(command, from.path, prepared.at)
                                ELSE BeginFile(command, from.path, prepared.at)

\* Only the first file is taken.
WrongNextFile ==
    /\ pc = "next"
    /\ \E name \in job.todo :
         Transfer(cmd,
                  [job EXCEPT !.source = Append(job.folder, name), !.name = name,
                              !.todo = {}],
                  IF cmd.op = "REPLACE"
                  THEN Resolve(tree, ReplaceFilename(cmd.dst, name))
                  ELSE Missing)
    /\ UNCHANGED tree

\* The next file of the source directory, in any order.
NextFile ==
    /\ pc = "next"
    /\ \E name \in job.todo :
         Transfer(cmd,
                  [job EXCEPT !.source = Append(job.folder, name), !.name = name,
                              !.todo = @ \ {name}],
                  IF cmd.op = "REPLACE"
                  THEN Resolve(tree, ReplaceFilename(cmd.dst, name))
                  ELSE Missing)
    /\ UNCHANGED tree

EndCommand ==
    /\ pc = "next"
    /\ job.todo = {}
    /\ Complete
    /\ UNCHANGED tree

\* The old version is forgotten.
WrongRemoveOld ==
    /\ pc = "removeOld"
    /\ pc' = "open"
    /\ UNCHANGED <<tree, cmd, job, logged>>

\* A path that names nothing any more is not an error here.
RemoveOld ==
    /\ pc = "removeOld"
    /\ IF RemoveThrows(tree, job.old) THEN Abort /\ UNCHANGED tree
       ELSE /\ tree' = Without(tree, job.old)
            /\ pc' = "open"
            /\ UNCHANGED <<cmd, job, logged>>

\* copy_options::overwrite_existing.
WrongOpenDestination ==
    /\ pc = "open"
    /\ IF IsFile(tree, job.source) /\ IsDirectory(tree, job.dir)
       THEN /\ tree' = With(tree, Destination, Partial)
            /\ pc' = "fill"
            /\ UNCHANGED <<cmd, job, logged>>
       ELSE Abort /\ UNCHANGED tree

\* fs::copy_file makes a new file, or throws when there is no such source
\* file, no such directory, or already something at the destination.
OpenDestination ==
    /\ pc = "open"
    /\ IF IsFile(tree, job.source) /\ CanCreate(tree, job.dir, job.name)
       THEN /\ tree' = With(tree, Destination, Partial)
            /\ pc' = "fill"
            /\ UNCHANGED <<cmd, job, logged>>
       ELSE Abort /\ UNCHANGED tree

\* A copy that ends early passes for a whole one.
WrongFillDestination ==
    /\ pc = "fill"
    /\ pc' = "removeSource"
    /\ UNCHANGED <<tree, cmd, job, logged>>

FillDestination ==
    /\ pc = "fill"
    /\ tree' = With(tree, Destination, tree[job.source])
    /\ pc' = "removeSource"
    /\ UNCHANGED <<cmd, job, logged>>

WrongRemoveSource ==
    /\ pc = "removeSource"
    /\ pc' = "next"
    /\ UNCHANGED <<tree, cmd, job, logged>>

\* A command on a single file ends the way the last file of a directory does.
RemoveSource ==
    /\ pc = "removeSource"
    /\ tree' = Without(tree, job.source)
    /\ pc' = "next"
    /\ UNCHANGED <<cmd, job, logged>>

-----------------------------------------------------------------------------

\* The process is killed between two steps; the tree stays as it is.
Kill ==
    /\ Kills
    /\ pc \notin Ended
    /\ Forget("killed")
    /\ logged' = FALSE
    /\ UNCHANGED tree

\* The user runs the tool again, on the collection as it was left.
Rerun ==
    /\ pc \in Ended
    /\ Forget(Idle)
    /\ logged' = FALSE
    /\ UNCHANGED tree

Execute ==
    \/ \E command \in Command : command.op \in {"MOVE", "REPLACE"} /\ Begin(command)
    \/ \E command \in Command : command.op = "DELETE" /\ Delete(command)
    \/ \E command \in Command : command.op = "MKDIR" /\ MakeDirectory(command)
    \/ NextFile
    \/ EndCommand
    \/ RemoveOld
    \/ OpenDestination
    \/ FillDestination
    \/ RemoveSource

Next == Execute \/ Kill \/ Rerun

Spec == Init /\ [][Next]_vars

-----------------------------------------------------------------------------
(* Properties.                                                             *)

\* The steps that move one file.
Transferring == {"removeOld", "open", "fill", "removeSource"}

Job ==
    {j \in [source : Path \cup {NoPath}, folder : Path \cup {NoPath},
            todo : SUBSET Name, dir : Path \cup {NoPath},
            name : Name \cup {"no path"}, old : Path \cup {NoPath}] :
       j.todo # {} => j.folder \in Path}

\* Types of the local state of a command; the tree has an invariant of its own.
TypeOK ==
    /\ pc \in {Idle, "next"} \cup Transferring \cup Ended
    /\ cmd \in MoveCommand \cup {NoCommand}
    /\ cmd = NoCommand <=> pc \in {Idle} \cup Ended
    /\ job \in Job
    /\ pc \in Transferring => job.name \in Name
    /\ pc = "removeOld" => cmd.op = "REPLACE"
    /\ logged \in BOOLEAN

\* No sequence of commands, errors, exceptions and kills leaves an entry whose
\* directory is gone, or a file where a directory is needed.
TreeStaysWellFormed == WellFormed(tree)

Tunes(t) == {t[p] : p \in DOMAIN t} \cap Tune

\* While the copy of a file is being made the source is still there, and when
\* fs::remove(source) is due the copy is complete and is another file.
SourceOutlivesCopy ==
    pc \in {"fill", "removeSource"} =>
      /\ IsFile(tree, job.source)
      /\ IsFile(tree, Destination)
      /\ job.source # Destination
      /\ pc = "fill" => tree[Destination] = Partial
      /\ pc = "removeSource" => tree[Destination] = tree[job.source]

\* MOVE loses no tune, at whatever step it fails or is killed.
MoveLosesNothing ==
    [][cmd.op = "MOVE" \/ cmd'.op = "MOVE" => Tunes(tree) \subseteq Tunes(tree')]_vars

\* No command writes over a file: a file keeps its content for as long as its
\* path exists, except the one that is being filled.
NothingIsOverwritten ==
    [][\A p \in DOMAIN tree \cap DOMAIN tree' :
         tree[p] # tree'[p] => tree[p] = Partial /\ pc = "fill" /\ p = Destination]_vars

\* In an unambiguous collection the lookup finds the entry of that name
\* whatever its case, and finds nothing else.
LookupIgnoresCase ==
    Unambiguous(tree) =>
      \A line \in ScriptLine :
        LET at == Resolve(tree, line.names)
        IN  /\ at.status = "found" <=>
                 \E p \in DOMAIN tree : SameButForCase(p, line.names)
            /\ at.status = "found" =>
                 Exists(tree, at.path) /\ SameButForCase(at.path, line.names)

\* REPLACE removes nothing but the entry it then writes, whatever the case of
\* its name.
ReplaceRemovesItsDestination ==
    [][cmd.op = "REPLACE" /\ pc = "removeOld" /\ Unambiguous(tree) =>
         \A p \in DOMAIN tree \ DOMAIN tree' : SameButForCase(p, Destination)]_vars

\* No command but MOVE puts two names that differ only in case side by side.
NamesStayUnambiguous ==
    [][cmd.op # "MOVE" /\ cmd'.op # "MOVE" /\ Unambiguous(tree) => Unambiguous(tree')]_vars

\* A directory whose MOVE or REPLACE ended without an exception is left
\* without files.
FolderIsEmptied ==
    [][pc = "next" /\ pc' = Idle /\ job.folder # NoPath =>
         FileNames(tree, job.folder) = {}]_vars

\* The file being copied is not part of the collection until its source is
\* about to go: then both happen at once.
VisibleTree ==
    IF pc \in {"fill", "removeSource"} THEN Without(tree, Destination) ELSE tree

\* Where a tune is, the copy of it that is being made left out.
Places(tune) == {p \in DOMAIN VisibleTree : VisibleTree[p] = tune}

\* A tune gets into a second place only by a kill between the copy and the
\* removal of its source; there is none that MOVE or REPLACE leaves by itself.
OnlyKillsDuplicate ==
    [][\A tune \in Tune :
         Cardinality(Places(tune)) < Cardinality(Places(tune)') => pc' = "killed"]_vars

\* The commands rearrange the collection by whole steps of CollectionStore.
Store == INSTANCE CollectionStore WITH tree <- VisibleTree
ImplementsStore == Store!Spec

-----------------------------------------------------------------------------
(* What the documentation says and the code does not do.                   *)

\* HVSC_Update.txt: a MOVE onto an existing file and a DELETE of a directory
\* that is not empty are errors, and errors are logged.
ErrorsAreLogged == pc # "aborted"

\* HVSC_Update.txt: REPLACE replaces the destination file with the source
\* file; so removing the old destination does not take the source away.
ReplaceKeepsItsSource ==
    [][pc = "removeOld" /\ IsFile(tree, job.source) => IsFile(tree', job.source)]_vars

\* HVSC_Update.txt: a destination directory that exists needs no slash at its
\* end; so REPLACE does there what it does with the slash.
ReplaceNeedsNoSlash ==
    [][cmd.op = "REPLACE" /\ pc = "removeOld" /\ Unambiguous(tree) =>
         \A p \in DOMAIN tree \ DOMAIN tree' : SameButForCase(p, Destination)]_vars
=============================================================================
