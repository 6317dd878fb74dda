------------------------- MODULE FileCommandsProofs -------------------------
(***************************************************************************)
(* What holds of FileCommands for every set of names, every collection and *)
(* every script: types, the shape of the tree, and that no tune is lost.   *)
(***************************************************************************)
EXTENDS FileCommands, HvscTreeProofs, FiniteSetTheorems

-----------------------------------------------------------------------------
(* What the helpers return.                                                *)

\* The root is found at once.
LEMMA ResolveRoot ==
    ASSUME NEW t PROVE Resolve(t, Root) = Found(Root)
<1>1. Root \in Path /\ Len(Root) = 0
  BY DEF Root, Path
<1>2. PICK f : /\ \A i \in 0..Len(Root) : f[i] = WalkStep(t, Root, f, i)
               /\ Resolve(t, Root) = f[Len(Root)]
  BY <1>1, ResolveIsWalk
<1> QED
  BY <1>1, <1>2 DEF WalkStep

\* A lookup that finds something has a path.
LEMMA ResultFacts ==
    ASSUME NEW r \in Result
    PROVE  /\ r.status \in {"found", "missing", "throws"}
           /\ r.path \in Path \cup {NoPath}
           /\ r.status = "found" => r.path \in Path
<1>1. CASE r \in {Missing, Throws}
  BY <1>1 DEF Missing, Throws
<1>2. CASE r \notin {Missing, Throws}
  <2>1. PICK p \in Path : r = Found(p)
    BY <1>2 DEF Result
  <2> QED
    BY <2>1 DEF Found
<1> QED
  BY <1>1, <1>2

\* makeHVSCdir leaves the tree as it is or makes one directory in it.
LEMMA MakeDirFacts ==
    ASSUME NEW t, WellFormed(t), NEW names \in Path
    PROVE  LET made == MakeDir(t, names)
           IN  /\ made.status \in {"made", "logged", "throws"}
               /\ \/ made.tree = t
                  \/ \E d \in DOMAIN t, n \in Name :
                       CanCreate(t, d, n) /\ made.tree = With(t, Append(d, n), Directory)
<1> DEFINE at == Resolve(t, names)
           parent == Resolve(t, Parent(names))
<1>1. at \in Result /\ parent \in Result
  BY ParentType, ResolveType
<1>2. /\ at.status \in {"found", "missing", "throws"}
      /\ parent.status \in {"found", "missing", "throws"}
  BY <1>1, ResultFacts
<1>3. at.status = "missing" => LastName(names) \in Name
  BY ResolveRoot, ParentType DEF Found
<1> HIDE DEF at, parent
<1>4. MakeDir(t, names) =
        LET Logged == [status |-> "logged", tree |-> t]
            Escapes == [status |-> "throws", tree |-> t]
            Made(u) == [status |-> "made", tree |-> u]
        IN  CASE at.status = "throws" -> Escapes
              [] at.status = "found" ->
                   IF IsDirectory(t, at.path) THEN Made(t) ELSE Logged
              [] at.status = "missing" ->
                   IF parent.status = "throws" THEN Escapes
                   ELSE IF parent.status = "missing" THEN Logged
                   ELSE IF CanCreate(t, parent.path, LastName(names))
                   THEN Made(With(t, Append(parent.path, LastName(names)), Directory))
                   ELSE IF IsDirectory(t, Append(parent.path, LastName(names)))
                   THEN Logged
                   ELSE Escapes
  BY DEF MakeDir, at, parent
<1>5. CanCreate(t, parent.path, LastName(names)) => parent.path \in DOMAIN t
  BY DEF CanCreate, IsDirectory
<1> QED
  BY <1>2, <1>3, <1>4, <1>5

\* A new entry in an existing directory leaves a tree.
LEMMA CreateWellFormed ==
    ASSUME NEW t, WellFormed(t), NEW d, NEW n \in Name, CanCreate(t, d, n),
           NEW node \in Tune \cup {Partial, Directory}
    PROVE  WellFormed(With(t, Append(d, n), node))
BY WithWellFormed DEF CanCreate, IsDirectory, Exists

\* So does a directory made, or not made, for a line.
LEMMA MakeDirWellFormed ==
    ASSUME NEW t, WellFormed(t), NEW names \in Path
    PROVE  WellFormed(MakeDir(t, names).tree)
BY MakeDirFacts, CreateWellFormed

\* Looking up a destination creates one directory at most.
LEMMA PreparedFacts ==
    ASSUME NEW line \in Line, WellFormed(tree)
    PROVE  /\ Prepared(line).at \in Result
           /\ \/ Prepared(line).tree = tree
              \/ \E d \in DOMAIN tree, n \in Name :
                   /\ CanCreate(tree, d, n)
                   /\ Prepared(line).tree = With(tree, Append(d, n), Directory)
           /\ line.names = Root => Prepared(line).at = Found(Root)
<1> DEFINE at == Resolve(tree, line.names)
           made == MakeDir(tree, line.names)
<1>1. line.names \in Path
  BY DEF Line
<1>2. at \in Result /\ Resolve(made.tree, line.names) \in Result /\ Throws \in Result
  BY <1>1, ResolveType DEF Result
<1>3. \/ made.tree = tree
      \/ \E d \in DOMAIN tree, n \in Name :
           CanCreate(tree, d, n) /\ made.tree = With(tree, Append(d, n), Directory)
  BY <1>1, MakeDirFacts
<1>4. line.names = Root => at = Found(Root)
  BY ResolveRoot
<1> HIDE DEF at, made
<1>5. Prepared(line) =
        IF at.status # "missing" \/ ~ line.slash THEN [tree |-> tree, at |-> at]
        ELSE IF made.status = "throws" THEN [tree |-> made.tree, at |-> Throws]
        ELSE [tree |-> made.tree, at |-> Resolve(made.tree, line.names)]
  BY DEF Prepared, at, made
<1>6. line.names = Root => at.status # "missing"
  BY <1>4 DEF Found
<1> QED
  BY <1>2, <1>3, <1>4, <1>5, <1>6

\* The path of a line with its last name replaced is a path.
LEMMA ReplaceFilenameType ==
    ASSUME NEW line \in Line, NEW name \in Name
    PROVE  ReplaceFilename(line, name) \in Path
<1>1. line.names \in Path /\ Parent(line.names) \in Path
  BY ParentType DEF Line
<1> QED
  BY <1>1, AppendParent DEF ReplaceFilename

-----------------------------------------------------------------------------
(* The inductive invariant: while a file is copied its source is there,    *)
(* its destination is another file, and lies in an existing directory.     *)

IndInv ==
    /\ TypeOK
    /\ WellFormed(tree)
    /\ SourceOutlivesCopy
    /\ pc \in {"fill", "removeSource"} => IsDirectory(tree, job.dir)

\* Having nothing to do is a job.
LEMMA NoJobType == NoJob \in Job
BY DEF NoJob, Job

\* A command that has ended leaves no job.
LEMMA ForgetType ==
    ASSUME NEW where \in {Idle} \cup Ended, Forget(where), logged' \in BOOLEAN
    PROVE  TypeOK' /\ pc' \notin Transferring
BY NoJobType DEF Forget, TypeOK, Idle, Ended, Transferring

\* A file to be sent has a path and a place to go to.
LEMMA TransferType ==
    ASSUME NEW command \in MoveCommand, NEW file \in Job, file.name \in Name,
           NEW previous \in Result, Transfer(command, file, previous)
    PROVE  TypeOK' /\ pc' \notin {"fill", "removeSource"}
<1>1. CASE previous.status = "throws"
  <2>1. Forget("aborted") /\ logged' = FALSE
    BY <1>1 DEF Transfer, Abort
  <2> QED
    BY <2>1, ForgetType DEF Ended, Transferring
<1>2. CASE previous.status # "throws"
  <2>1. previous.path \in Path \cup {NoPath}
    BY ResultFacts
  <2>2. /\ cmd' = command
        /\ logged' = FALSE
        /\ job' = [file EXCEPT !.old = IF command.op = "REPLACE"
                                       THEN previous.path ELSE NoPath]
        /\ pc' = IF job'.old = NoPath THEN "open" ELSE "removeOld"
    BY <1>2 DEF Transfer
  <2>3. job' \in Job /\ job'.name \in Name
    BY <2>1, <2>2 DEF Job
  <2>4. cmd' # NoCommand
    BY <2>2 DEF MoveCommand, NoCommand
  <2>5. pc' \in {"open", "removeOld"}
    BY <2>2
  <2>6. pc' = "removeOld" => cmd'.op = "REPLACE"
    <3>1. command.op # "REPLACE" => job'.old = NoPath
      BY <2>2 DEF Job
    <3> QED
      BY <2>2, <3>1
  <2> QED
    BY <2>2, <2>3, <2>4, <2>5, <2>6 DEF TypeOK, Idle, Ended, Transferring
<1> QED
  BY <1>1, <1>2

\* The same of a command on one file, however it is looked up.
LEMMA BeginFileType ==
    ASSUME NEW command \in MoveCommand, NEW from \in Path, NEW at \in Result,
           command.src.names # Root, command.dst.names = Root => at = Found(Root),
           WellFormed(tree'), BeginFile(command, from, at)
    PROVE  TypeOK' /\ pc' \notin {"fill", "removeSource"}
<1> DEFINE dst == command.dst
           name == LastName(command.src.names)
           parent == IF dst.slash THEN at ELSE Resolve(tree', Parent(dst.names))
           file == [NoJob EXCEPT !.source = from]
<1>1. /\ dst \in Line /\ dst.names \in Path /\ Parent(dst.names) \in Path
      /\ name \in Name
  BY ParentType DEF MoveCommand, Line
<1>2. file \in Job
  BY NoJobType DEF Job
<1>3. CASE at.status = "found" /\ IsDirectory(tree', at.path)
  <2>1. Transfer(command, [file EXCEPT !.dir = at.path, !.name = name],
                 Resolve(tree', ReplaceFilename(dst, name)))
    BY <1>3 DEF BeginFile
  <2>2. Resolve(tree', ReplaceFilename(dst, name)) \in Result
    BY <1>1, ReplaceFilenameType, ResolveType
  <2>3. [file EXCEPT !.dir = at.path, !.name = name] \in Job
    BY <1>1, <1>2, ResultFacts DEF Job
  <2>4. [file EXCEPT !.dir = at.path, !.name = name].name \in Name
    BY <1>1, <1>2 DEF Job
  <2> QED
    BY <2>1, <2>2, <2>3, <2>4, TransferType
<1>4. CASE ~ (at.status = "found" /\ IsDirectory(tree', at.path))
  <2>1. dst.names # Root
    BY <1>4 DEF WellFormed, Found
  <2>2. LastName(dst.names) \in Name
    BY <1>1, <2>1, ParentType
  <2>3. parent \in Result
    BY <1>1, ResolveType
  <2>4. parent.status \in {"found", "missing", "throws"} /\ parent.path \in Path \cup {NoPath}
    BY <2>3, ResultFacts
  <2>5. CASE parent.status = "throws"
    <3>1. Forget("aborted") /\ logged' = FALSE
      BY <1>4, <2>5 DEF BeginFile, Abort
    <3> QED
      BY <3>1, ForgetType DEF Ended, Transferring
  <2>6. CASE parent.status = "missing"
    <3>1. Forget(Idle) /\ logged' = TRUE
      BY <1>4, <2>6 DEF BeginFile, LogError
    <3> QED
      BY <3>1, ForgetType DEF Idle, Transferring
  <2>7. CASE parent.status = "found"
    <3> DEFINE j == [file EXCEPT !.dir = parent.path, !.name = LastName(dst.names)]
    <3>1. Transfer(command, j, Resolve(tree', dst.names))
      BY <1>4, <2>7 DEF BeginFile
    <3>2. j \in Job /\ j.name \in Name
      BY <1>2, <2>2, <2>4 DEF Job
    <3>3. Resolve(tree', dst.names) \in Result
      BY <1>1, ResolveType
    <3> HIDE DEF j
    <3> QED
      BY <3>1, <3>2, <3>3, TransferType
  <2> QED
    BY <2>4, <2>5, <2>6, <2>7
<1> QED
  BY <1>3, <1>4

\* And of a command on a directory, whose files are taken one by one.
LEMMA BeginFolderType ==
    ASSUME NEW command \in MoveCommand, NEW from \in Path, NEW at \in Result,
           BeginFolder(command, from, at)
    PROVE  TypeOK' /\ pc' \notin {"fill", "removeSource"}
<1>1. CASE at.status = "found" /\ IsDirectory(tree', at.path)
  <2>1. /\ pc' = "next" /\ cmd' = command /\ logged' = FALSE
        /\ job' = [NoJob EXCEPT !.folder = from, !.dir = at.path,
                                !.todo = FileNames(tree', from)]
    BY <1>1 DEF BeginFolder
  <2>2. FileNames(tree', from) \in SUBSET Name /\ at.path \in Path \cup {NoPath}
    BY ResultFacts DEF FileNames
  <2>3. job' \in Job
    BY <2>1, <2>2, NoJobType DEF Job
  <2>4. cmd' # NoCommand
    BY <2>1 DEF MoveCommand, NoCommand
  <2> QED
    BY <2>1, <2>3, <2>4 DEF TypeOK, Idle, Ended, Transferring
<1>2. CASE ~ (at.status = "found" /\ IsDirectory(tree', at.path))
  <2>1. Forget(Idle) /\ logged' = TRUE
    BY <1>2 DEF BeginFolder, LogError
  <2> QED
    BY <2>1, ForgetType DEF Idle, Transferring
<1> QED
  BY <1>1, <1>2

\* A command that begins leaves the tree as it is or makes one directory.
LEMMA BeginTree ==
    ASSUME NEW command \in MoveCommand, WellFormed(tree), Begin(command)
    PROVE  \/ tree' = tree
           \/ \E d \in DOMAIN tree, n \in Name :
                CanCreate(tree, d, n) /\ tree' = With(tree, Append(d, n), Directory)
<1>1. command.dst \in Line
  BY DEF MoveCommand
<1>2. tree' = tree \/ tree' = Prepared(command.dst).tree
  BY DEF Begin
<1> QED
  BY <1>1, <1>2, PreparedFacts

\* The start of MOVE or REPLACE keeps the invariant, the early returns included.
LEMMA BeginInv ==
    ASSUME NEW command \in MoveCommand, WellFormed(tree), Begin(command)
    PROVE  IndInv' /\ pc' \notin {"fill", "removeSource"}
<1> DEFINE from == Resolve(tree, command.src.names)
           at == Prepared(command.dst).at
<1>1. command.src.names \in Path /\ command.dst \in Line
  BY DEF MoveCommand, Line
<1>2. from \in Result /\ at \in Result
  BY <1>1, ResolveType, PreparedFacts
<1>3. WellFormed(tree')
  BY BeginTree, CreateWellFormed
<1>4. TypeOK' /\ pc' \notin {"fill", "removeSource"}
  <2>1. from.status \in {"found", "missing", "throws"}
    BY <1>2, ResultFacts
  <2>2. CASE Abort
    BY <2>2, ForgetType DEF Abort, Ended, Transferring
  <2>3. CASE LogError
    BY <2>3, ForgetType DEF LogError, Transferring
  <2>4. CASE from.status = "found" /\ ~ Abort /\ ~ LogError
    <3>1. from.path \in Path
      BY <2>4, <1>2, ResultFacts
    <3>2. IF IsDirectory(tree', from.path)
          THEN BeginFolder(command, from.path, at)
          ELSE BeginFile(command, from.path, at)
      BY <2>4 DEF Begin
    <3>3. CASE IsDirectory(tree', from.path)
      BY <3>1, <3>2, <3>3, <1>2, BeginFolderType
    <3>4. CASE ~ IsDirectory(tree', from.path)
      <4>1. command.src.names # Root
        BY <3>4, <1>3, ResolveRoot DEF WellFormed, Found
      <4>2. command.dst.names = Root => at = Found(Root)
        BY <1>1, PreparedFacts
      <4> HIDE DEF at, from
      <4> QED
        BY <3>1, <3>2, <3>4, <4>1, <4>2, <1>2, <1>3, BeginFileType
    <3> QED
      BY <3>3, <3>4
  <2>5. CASE from.status # "found"
    <3>1. Abort \/ LogError
      BY <2>1, <2>5 DEF Begin
    <3> QED
      BY <3>1, <2>2, <2>3
  <2> QED
    BY <2>2, <2>3, <2>4, <2>5
<1> QED
  BY <1>3, <1>4 DEF IndInv, SourceOutlivesCopy

\* DELETE ends at once and removes one entry at most.
LEMMA DeleteEnds ==
    ASSUME NEW command \in OtherCommand, Delete(command)
    PROVE  /\ Abort \/ LogError \/ Complete
           /\ cmd' = NoCommand
           /\ \/ tree' = tree
              \/ \E p : ~ RemoveThrows(tree, p) /\ Exists(tree, p) /\ tree' = Without(tree, p)
<1> DEFINE victim == Resolve(tree, command.path.names)
<1>1. command.path.names \in Path
  BY DEF OtherCommand, Line
<1>2. victim.status \in {"found", "missing", "throws"}
  BY <1>1, ResolveType, ResultFacts
<1>3. \/ Abort /\ tree' = tree
      \/ LogError /\ tree' = tree
      \/ /\ Complete
         /\ ~ RemoveThrows(tree, victim.path) /\ Exists(tree, victim.path)
         /\ tree' = Without(tree, victim.path)
  BY <1>2 DEF Delete, RemovePath
<1> QED
  BY <1>3 DEF Abort, LogError, Complete, Forget

\* MKDIR ends at once and creates one directory at most.
LEMMA MakeDirectoryEnds ==
    ASSUME NEW command \in OtherCommand, WellFormed(tree), MakeDirectory(command)
    PROVE  /\ Abort \/ LogError \/ Complete
           /\ cmd' = NoCommand
           /\ \/ tree' = tree
              \/ \E d \in DOMAIN tree, n \in Name :
                   CanCreate(tree, d, n) /\ tree' = With(tree, Append(d, n), Directory)
<1> DEFINE made == MakeDir(tree, command.path.names)
<1>1. command.path.names \in Path
  BY DEF OtherCommand, Line
<1>2. /\ made.status \in {"made", "logged", "throws"}
      /\ \/ made.tree = tree
         \/ \E d \in DOMAIN tree, n \in Name :
              CanCreate(tree, d, n) /\ made.tree = With(tree, Append(d, n), Directory)
  BY <1>1, MakeDirFacts
<1>3. tree' = made.tree /\ (Abort \/ LogError \/ Complete)
  BY <1>2 DEF MakeDirectory
<1> QED
  BY <1>2, <1>3 DEF Abort, LogError, Complete, Forget

\* A command that ends in one step is no transfer.
LEMMA EndsInv ==
    ASSUME Abort \/ LogError \/ Complete, WellFormed(tree')
    PROVE  IndInv'
<1>1. TypeOK' /\ pc' \notin Transferring
  BY ForgetType DEF Abort, LogError, Complete, Ended
<1> QED
  BY <1>1 DEF IndInv, SourceOutlivesCopy, Transferring

\* So DELETE keeps the invariant.
LEMMA DeleteInv ==
    ASSUME NEW command \in OtherCommand, WellFormed(tree), Delete(command)
    PROVE  IndInv'
BY DeleteEnds, EndsInv, WithoutWellFormed

\* And so does MKDIR.
LEMMA MakeDirectoryInv ==
    ASSUME NEW command \in OtherCommand, WellFormed(tree), MakeDirectory(command)
    PROVE  IndInv'
BY MakeDirectoryEnds, EndsInv, CreateWellFormed

\* The next file of a directory is there, or the lookup throws.
LEMMA NextFileInv ==
    ASSUME IndInv, NextFile
    PROVE  IndInv' /\ pc' \notin {"fill", "removeSource"}
<1>1. PICK name \in job.todo :
        Transfer(cmd,
                 [job EXCEPT !.source = Append(job.folder, name), !.name = name,
                             !.todo = @ \ {name}],
                 IF cmd.op = "REPLACE"
                 THEN Resolve(tree, ReplaceFilename(cmd.dst, name))
                 ELSE Missing)
  BY DEF NextFile
<1>2. cmd \in MoveCommand /\ job \in Job /\ name \in Name /\ job.folder \in Path
  BY DEF IndInv, TypeOK, NextFile, Idle, Ended, Job
<1> DEFINE file == [job EXCEPT !.source = Append(job.folder, name), !.name = name,
                               !.todo = @ \ {name}]
           previous == IF cmd.op = "REPLACE"
                       THEN Resolve(tree, ReplaceFilename(cmd.dst, name)) ELSE Missing
<1>3. file \in Job /\ file.name \in Name
  BY <1>2, AppendParent DEF Job
<1>4. previous \in Result
  <2>1. cmd.dst \in Line
    BY <1>2 DEF MoveCommand
  <2>2. Missing \in Result
    BY DEF Result
  <2> QED
    BY <1>2, <2>1, <2>2, ReplaceFilenameType, ResolveType
<1> HIDE DEF file, previous
<1>5. Transfer(cmd, file, previous)
  BY <1>1 DEF file, previous
<1>6. TypeOK' /\ pc' \notin {"fill", "removeSource"}
  BY <1>2, <1>3, <1>4, <1>5, TransferType
<1> QED
  BY <1>6 DEF IndInv, SourceOutlivesCopy, NextFile

\* Removing the old file keeps the invariant.
LEMMA RemoveOldInv ==
    ASSUME IndInv, RemoveOld
    PROVE  IndInv'
<1>1. CASE RemoveThrows(tree, job.old)
  <2>1. Abort /\ tree' = tree
    BY <1>1 DEF RemoveOld
  <2> QED
    BY <2>1, EndsInv DEF IndInv
<1>2. CASE ~ RemoveThrows(tree, job.old)
  <2>1. /\ pc = "removeOld" /\ pc' = "open"
        /\ tree' = Without(tree, job.old)
        /\ UNCHANGED <<cmd, job, logged>>
    BY <1>2 DEF RemoveOld
  <2>2. TypeOK'
    BY <2>1 DEF IndInv, TypeOK, Transferring, Idle, Ended
  <2>3. WellFormed(tree')
    BY <1>2, <2>1, WithoutWellFormed DEF IndInv
  <2> QED
    BY <2>1, <2>2, <2>3 DEF IndInv, SourceOutlivesCopy
<1> QED
  BY <1>1, <1>2

\* Once the destination is open its source is another file, which is there.
LEMMA OpenDestinationInv ==
    ASSUME IndInv, OpenDestination
    PROVE  IndInv'
<1> DEFINE fits == IsFile(tree, job.source) /\ CanCreate(tree, job.dir, job.name)
<1>1. CASE fits
  <2>1. /\ pc = "open" /\ pc' = "fill"
        /\ tree' = With(tree, Destination, Partial)
        /\ UNCHANGED <<cmd, job, logged>>
    BY <1>1 DEF OpenDestination
  <2>2. TypeOK'
    BY <2>1 DEF IndInv, TypeOK, Transferring, Idle, Ended
  <2>3. job.name \in Name
    BY <2>1 DEF IndInv, TypeOK, Transferring
  <2>4. WellFormed(tree')
    BY <1>1, <2>1, <2>3, CreateWellFormed DEF IndInv, Destination
  <2>5. /\ IsFile(tree', job.source) /\ IsFile(tree', Destination)
        /\ tree'[Destination] = Partial
        /\ job.source # Destination /\ IsDirectory(tree', job.dir)
    BY <1>1, <2>1, KindAssumption
      DEF IsFile, IsDirectory, CanCreate, Exists, With, Destination
  <2> QED
    BY <2>1, <2>2, <2>4, <2>5 DEF IndInv, SourceOutlivesCopy, Destination
<1>2. CASE ~ fits
  <2>1. Abort /\ tree' = tree
    BY <1>2 DEF OpenDestination
  <2> QED
    BY <2>1, EndsInv DEF IndInv
<1> QED
  BY <1>1, <1>2

\* When the copy is complete it is what its source is.
LEMMA FillDestinationInv ==
    ASSUME IndInv, FillDestination
    PROVE  IndInv'
<1>1. /\ pc = "fill" /\ pc' = "removeSource"
      /\ tree' = With(tree, Destination, tree[job.source])
      /\ UNCHANGED <<cmd, job, logged>>
  BY DEF FillDestination
<1>2. /\ IsFile(tree, job.source) /\ IsFile(tree, Destination)
      /\ job.source # Destination /\ IsDirectory(tree, job.dir)
  BY <1>1 DEF IndInv, SourceOutlivesCopy
<1>3. TypeOK'
  BY <1>1 DEF IndInv, TypeOK, Transferring, Idle, Ended
<1>4. job.name \in Name
  BY <1>1 DEF IndInv, TypeOK, Transferring
<1>5. tree[job.source] \in Tune \cup {Partial, Directory}
  BY <1>2 DEF IndInv, WellFormed, IsFile
<1>6. ~ IsDirectory(tree, Destination)
  BY <1>2 DEF IsFile, IsDirectory
<1>7. WellFormed(tree')
  BY <1>1, <1>2, <1>4, <1>5, <1>6, WithWellFormed DEF IndInv, Destination
<1>8. /\ IsFile(tree', job.source) /\ IsFile(tree', Destination)
      /\ tree'[Destination] = tree'[job.source]
      /\ IsDirectory(tree', job.dir)
  BY <1>1, <1>2 DEF IsFile, IsDirectory, With
<1> QED
  BY <1>1, <1>2, <1>3, <1>7, <1>8 DEF IndInv, SourceOutlivesCopy, Destination

\* The source goes when its copy is complete.
LEMMA RemoveSourceInv ==
    ASSUME IndInv, RemoveSource
    PROVE  IndInv'
<1>1. /\ pc = "removeSource" /\ pc' = "next"
      /\ tree' = Without(tree, job.source)
      /\ UNCHANGED <<cmd, job, logged>>
  BY DEF RemoveSource
<1>2. ~ RemoveThrows(tree, job.source)
  BY <1>1 DEF IndInv, SourceOutlivesCopy, RemoveThrows, IsFile, IsDirectory
<1>3. WellFormed(tree')
  BY <1>1, <1>2, WithoutWellFormed DEF IndInv
<1>4. TypeOK'
  BY <1>1 DEF IndInv, TypeOK, Transferring, Idle, Ended
<1> QED
  BY <1>1, <1>3, <1>4 DEF IndInv, SourceOutlivesCopy

\* A collection at rest keeps to the invariant.
LEMMA InitInv == Init => IndInv
<1> SUFFICES ASSUME Init PROVE IndInv
  OBVIOUS
<1>1. WellFormed(tree)
  BY CollectionAssumption DEF Init
<1>2. TypeOK
  BY NoJobType DEF Init, TypeOK, Idle, Ended, Transferring
<1> QED
  BY <1>1, <1>2 DEF Init, IndInv, SourceOutlivesCopy, Idle

\* Every file-system call keeps the invariant.
LEMMA NextInv == IndInv /\ [Next]_vars => IndInv'
<1> SUFFICES ASSUME IndInv, [Next]_vars PROVE IndInv'
  OBVIOUS
<1>0. WellFormed(tree)
  BY DEF IndInv
<1>1. ASSUME NEW command \in Command, command.op \in {"MOVE", "REPLACE"}, Begin(command)
      PROVE  IndInv'
  <2>1. command \in MoveCommand
    BY <1>1, CommandAssumption DEF MoveCommand, OtherCommand
  <2> QED
    BY <2>1, <1>0, <1>1, BeginInv
<1>2. ASSUME NEW command \in Command, command.op = "DELETE", Delete(command)
      PROVE  IndInv'
  <2>1. command \in OtherCommand
    BY <1>2, CommandAssumption DEF MoveCommand, OtherCommand
  <2> QED
    BY <2>1, <1>0, <1>2, DeleteInv
<1>3. ASSUME NEW command \in Command, command.op = "MKDIR", MakeDirectory(command)
      PROVE  IndInv'
  <2>1. command \in OtherCommand
    BY <1>3, CommandAssumption DEF MoveCommand, OtherCommand
  <2> QED
    BY <2>1, <1>0, <1>3, MakeDirectoryInv
<1>4. CASE EndCommand
  <2>1. TypeOK' /\ pc' \notin Transferring /\ tree' = tree
    BY <1>4, ForgetType DEF EndCommand, Complete, Ended
  <2> QED
    BY <2>1, <1>0 DEF IndInv, SourceOutlivesCopy, Transferring
<1>5. CASE Kill \/ Rerun
  <2>1. TypeOK' /\ pc' \notin Transferring /\ tree' = tree
    BY <1>5, ForgetType DEF Kill, Rerun, Ended
  <2> QED
    BY <2>1, <1>0 DEF IndInv, SourceOutlivesCopy, Transferring
<1>6. CASE UNCHANGED vars
  BY <1>6 DEF vars, IndInv, TypeOK, SourceOutlivesCopy, Destination
<1> QED
  BY <1>1, <1>2, <1>3, <1>4, <1>5, <1>6, NextFileInv, RemoveOldInv,
     OpenDestinationInv, FillDestinationInv, RemoveSourceInv
     DEF Next, Execute

-----------------------------------------------------------------------------

\* Every reachable state satisfies the inductive invariant.
THEOREM Inductive == Spec => []IndInv
<1> QED
  BY InitInv, NextInv, PTL DEF Spec

\* The local state of every command is well typed.
THEOREM TypeCorrect == Spec => []TypeOK
<1>1. IndInv => TypeOK
  BY DEF IndInv
<1> QED
  BY Inductive, <1>1, PTL

\* Whatever the script does and wherever the tool aborts or is killed, the
\* collection stays a tree.
THEOREM TreeSafe == Spec => []TreeStaysWellFormed
<1>1. IndInv => TreeStaysWellFormed
  BY DEF IndInv, TreeStaysWellFormed
<1> QED
  BY Inductive, <1>1, PTL

\* A source file is removed only when another file holds all of it.
THEOREM CopySafe == Spec => []SourceOutlivesCopy
<1>1. IndInv => SourceOutlivesCopy
  BY DEF IndInv
<1> QED
  BY Inductive, <1>1, PTL

-----------------------------------------------------------------------------
(* What a step does to the tree, whatever the command.                     *)

\* One entry is made, removed or filled, or nothing changes.
LEMMA TreeStep ==
    ASSUME IndInv, [Next]_vars
    PROVE  \/ tree' = tree
           \/ \E d \in DOMAIN tree, n \in Name, node \in {Partial, Directory} :
                CanCreate(tree, d, n) /\ tree' = With(tree, Append(d, n), node)
           \/ \E p : ~ RemoveThrows(tree, p) /\ tree' = Without(tree, p)
           \/ /\ pc = "fill"
              /\ Destination \in DOMAIN tree
              /\ tree[Destination] = Partial
              /\ tree' = With(tree, Destination, tree[job.source])
<1> DEFINE Step ==
             \/ tree' = tree
             \/ \E d \in DOMAIN tree, n \in Name, node \in {Partial, Directory} :
                  CanCreate(tree, d, n) /\ tree' = With(tree, Append(d, n), node)
             \/ \E p : ~ RemoveThrows(tree, p) /\ tree' = Without(tree, p)
             \/ /\ pc = "fill"
                /\ Destination \in DOMAIN tree
                /\ tree[Destination] = Partial
                /\ tree' = With(tree, Destination, tree[job.source])
<1>0. WellFormed(tree)
  BY DEF IndInv
<1>1. ASSUME NEW command \in Command, command.op \in {"MOVE", "REPLACE"}, Begin(command)
      PROVE  Step
  <2>1. command \in MoveCommand
    BY <1>1, CommandAssumption DEF MoveCommand, OtherCommand
  <2> QED
    BY <2>1, <1>0, <1>1, BeginTree
<1>2. ASSUME NEW command \in Command, command.op = "DELETE", Delete(command)
      PROVE  Step
  <2>1. command \in OtherCommand
    BY <1>2, CommandAssumption DEF MoveCommand, OtherCommand
  <2> QED
    BY <2>1, <1>2, DeleteEnds
<1>3. ASSUME NEW command \in Command, command.op = "MKDIR", MakeDirectory(command)
      PROVE  Step
  <2>1. command \in OtherCommand
    BY <1>3, CommandAssumption DEF MoveCommand, OtherCommand
  <2> QED
    BY <2>1, <1>0, <1>3, MakeDirectoryEnds
<1>4. CASE NextFile \/ EndCommand \/ Kill \/ Rerun \/ UNCHANGED vars
  BY <1>4 DEF NextFile, EndCommand, Kill, Rerun, vars
<1>5. CASE RemoveOld
  BY <1>5 DEF RemoveOld
<1>6. CASE OpenDestination
  <2>1. tree' = tree \/ (CanCreate(tree, job.dir, job.name)
                         /\ tree' = With(tree, Destination, Partial) /\ pc = "open")
    BY <1>6 DEF OpenDestination
  <2>2. pc = "open" => job.name \in Name
    BY DEF IndInv, TypeOK, Transferring
  <2> QED
    BY <2>1, <2>2 DEF Destination, CanCreate, IsDirectory
<1>7. CASE FillDestination
  BY <1>7 DEF FillDestination, IndInv, SourceOutlivesCopy, IsFile
<1>8. CASE RemoveSource
  BY <1>8 DEF RemoveSource, IndInv, SourceOutlivesCopy, RemoveThrows, IsFile, IsDirectory
<1> QED
  BY <1>1, <1>2, <1>3, <1>4, <1>5, <1>6, <1>7, <1>8 DEF Next, Execute

\* No file is written over but the one that is being filled.
THEOREM OverwritesNothing == Spec => NothingIsOverwritten
<1> DEFINE Keeps == \A p \in DOMAIN tree \cap DOMAIN tree' :
                      tree[p] # tree'[p] => tree[p] = Partial /\ pc = "fill" /\ p = Destination
<1>1. IndInv /\ [Next]_vars => [Keeps]_vars
  <2> SUFFICES ASSUME IndInv, [Next]_vars PROVE Keeps
    OBVIOUS
  <2> QED
    BY TreeStep DEF With, Without, CanCreate, Exists
<1> QED
  BY Inductive, <1>1, PTL DEF Spec, NothingIsOverwritten

\* A tree stays finite.
LEMMA FiniteTree == Spec => []IsFiniteSet(DOMAIN tree)
<1> DEFINE Finite == IsFiniteSet(DOMAIN tree)
<1>1. Init => Finite
  BY CollectionAssumption DEF Init
<1>2. Finite /\ IndInv /\ [Next]_vars => Finite'
  <2> SUFFICES ASSUME Finite, IndInv, [Next]_vars PROVE Finite'
    OBVIOUS
  <2>1. \/ DOMAIN tree' = DOMAIN tree
        \/ \E p : DOMAIN tree' = DOMAIN tree \cup {p}
        \/ \E p : DOMAIN tree' = DOMAIN tree \ {p}
    BY TreeStep DEF With, Without
  <2> QED
    BY <2>1, FS_AddElement, FS_RemoveElement
<1> QED
  BY Inductive, <1>1, <1>2, PTL DEF Spec

-----------------------------------------------------------------------------
(* No step of a MOVE takes the last copy of a tune.                        *)

\* A new entry hides no tune.
LEMMA WithKeepsTunes ==
    ASSUME NEW t, NEW p, p \notin DOMAIN t \/ t[p] \notin Tune, NEW node
    PROVE  Tunes(t) \subseteq Tunes(With(t, p, node))
BY DEF Tunes, With

\* Of a tune in two places one can be removed.
LEMMA WithoutKeepsTunes ==
    ASSUME NEW t, NEW p, NEW q \in DOMAIN t, q # p, t[q] = t[p]
    PROVE  Tunes(t) \subseteq Tunes(Without(t, p))
<1> SUFFICES ASSUME NEW r \in DOMAIN t, t[r] \in Tune PROVE t[r] \in Tunes(Without(t, p))
  BY DEF Tunes
<1>1. \E s \in DOMAIN t : s # p /\ t[s] = t[r]
  OBVIOUS
<1> QED
  BY <1>1 DEF Tunes, Without

\* Making the destination directory loses nothing.
LEMMA CreateKeepsTunes ==
    ASSUME NEW command \in MoveCommand, WellFormed(tree), Begin(command)
    PROVE  Tunes(tree) \subseteq Tunes(tree')
BY BeginTree, WithKeepsTunes DEF CanCreate, Exists

\* Not even a kill between two steps of a MOVE loses a tune.
THEOREM MoveSafe == Spec => MoveLosesNothing
<1> DEFINE Keeps == cmd.op = "MOVE" \/ cmd'.op = "MOVE" => Tunes(tree) \subseteq Tunes(tree')
<1>1. IndInv /\ [Next]_vars => [Keeps]_vars
  <2> SUFFICES ASSUME IndInv, Next PROVE Keeps
    BY DEF vars
  <2>0. WellFormed(tree) /\ NoCommand.op # "MOVE"
    BY DEF IndInv, NoCommand
  <2>1. ASSUME NEW command \in Command, command.op \in {"MOVE", "REPLACE"}, Begin(command)
        PROVE  Keeps
    <3>1. command \in MoveCommand
      BY <2>1, CommandAssumption DEF MoveCommand, OtherCommand
    <3> QED
      BY <3>1, <2>0, <2>1, CreateKeepsTunes
  <2>2. ASSUME NEW command \in Command, command.op = "DELETE", Delete(command)
        PROVE  Keeps
    <3>1. command \in OtherCommand
      BY <2>2, CommandAssumption DEF MoveCommand, OtherCommand
    <3>2. cmd = NoCommand /\ cmd' = NoCommand
      BY <2>2, <3>1, DeleteEnds DEF Delete, IndInv, TypeOK
    <3> QED
      BY <3>2, <2>0
  <2>8. ASSUME NEW command \in Command, command.op = "MKDIR", MakeDirectory(command)
        PROVE  Keeps
    <3>1. command \in OtherCommand
      BY <2>8, CommandAssumption DEF MoveCommand, OtherCommand
    <3>2. cmd = NoCommand /\ cmd' = NoCommand
      BY <2>8, <3>1, MakeDirectoryEnds DEF MakeDirectory, IndInv, TypeOK
    <3> QED
      BY <3>2, <2>0
  <2>3. CASE NextFile \/ EndCommand \/ Kill \/ Rerun
    BY <2>3 DEF NextFile, EndCommand, Kill, Rerun
  <2>4. CASE RemoveOld
    <3>1. cmd.op # "MOVE"
      BY <2>4 DEF RemoveOld, IndInv, TypeOK
    <3>2. cmd' = cmd \/ cmd' = NoCommand
      BY <2>4 DEF RemoveOld, Abort, Forget
    <3> QED
      BY <3>1, <3>2, <2>0
  <2>5. CASE OpenDestination
    <3>1. tree' = tree \/ (Destination \notin DOMAIN tree /\ tree' = With(tree, Destination, Partial))
      BY <2>5 DEF OpenDestination, CanCreate, Exists, Destination
    <3> QED
      BY <3>1, WithKeepsTunes
  <2>6. CASE FillDestination
    <3>1. tree[Destination] \notin Tune /\ tree' = With(tree, Destination, tree[job.source])
      BY <2>6, KindAssumption DEF FillDestination, IndInv, SourceOutlivesCopy
    <3> QED
      BY <3>1, WithKeepsTunes
  <2>7. CASE RemoveSource
    <3>1. /\ Destination \in DOMAIN tree /\ Destination # job.source
          /\ tree[Destination] = tree[job.source]
          /\ tree' = Without(tree, job.source)
      BY <2>7 DEF RemoveSource, IndInv, SourceOutlivesCopy, IsFile
    <3> QED
      BY <3>1, WithoutKeepsTunes
  <2> QED
    BY <2>1, <2>2, <2>3, <2>4, <2>5, <2>6, <2>7, <2>8 DEF Next, Execute
<1> QED
  BY Inductive, <1>1, PTL DEF Spec, MoveLosesNothing

-----------------------------------------------------------------------------
(* The commands implement CollectionStore.                                 *)

\* Entries put in and taken out again.
LEMMA WithoutWith ==
    ASSUME NEW t, t = [p \in DOMAIN t |-> t[p]], NEW p, NEW node
    PROVE  /\ Without(With(t, p, node), p) = Without(t, p)
           /\ p \notin DOMAIN t => Without(t, p) = t
           /\ p \in DOMAIN t => With(Without(t, p), p, t[p]) = t
BY DEF With, Without

\* A step of the abstract collection that is not an interruption, or none.
WholeStep ==
    \/ VisibleTree' = VisibleTree
    \/ \E file, dir \in DOMAIN VisibleTree, name \in Name : Store!Relocate(file, dir, name)
    \/ \E path \in DOMAIN VisibleTree : Store!Discard(path)
    \/ \E dir \in DOMAIN VisibleTree, name \in Name : Store!CreateDirectory(dir, name)

CutStep ==
    /\ pc' = "killed"
    /\ \E file, dir \in DOMAIN VisibleTree, name \in Name : Store!Interrupt(file, dir, name)

\* A directory that is made is one of CollectionStore.
LEMMA StoreCreates ==
    ASSUME NEW d \in DOMAIN tree, NEW n \in Name, CanCreate(tree, d, n),
           VisibleTree = tree, VisibleTree' = With(tree, Append(d, n), Directory)
    PROVE  WholeStep
<1>1. Store!CreateDirectory(d, n)
  BY DEF Store!CreateDirectory, Store!CanCreate, Store!IsDirectory, Store!Exists,
         Store!With, CanCreate, IsDirectory, Exists, With
<1> QED
  BY <1>1 DEF WholeStep

\* And so is an entry that is removed.
LEMMA StoreDiscards ==
    ASSUME NEW p, ~ RemoveThrows(tree, p), Exists(tree, p),
           VisibleTree = tree, VisibleTree' = Without(tree, p)
    PROVE  WholeStep
<1>1. p \in DOMAIN VisibleTree
  BY DEF Exists
<1>2. Store!Discard(p)
  BY DEF Store!Discard, Store!Exists, Store!RemoveThrows, Store!IsDirectory, Store!Root,
         Store!Children, Store!Without, RemoveThrows, IsDirectory, Exists, Root, Children,
         Without
<1> QED
  BY <1>1, <1>2 DEF WholeStep

\* A step of a command is a whole step or invisible; only a kill cuts a
\* relocation short.
LEMMA StoreStep ==
    ASSUME IndInv, IndInv', [Next]_vars
    PROVE  WholeStep \/ CutStep
<1>0. WellFormed(tree) /\ tree = [p \in DOMAIN tree |-> tree[p]]
  BY DEF IndInv, WellFormed
<1>a. VisibleTree' = VisibleTree => WholeStep
  BY DEF WholeStep
<1>1. ASSUME NEW command \in Command, command.op \in {"MOVE", "REPLACE"}, Begin(command)
      PROVE  WholeStep \/ CutStep
  <2>1. command \in MoveCommand
    BY <1>1, CommandAssumption DEF MoveCommand, OtherCommand
  <2>2. VisibleTree = tree /\ VisibleTree' = tree'
    BY <1>1, <2>1, <1>0, BeginInv DEF Begin, VisibleTree, Idle
  <2> QED
    BY <1>1, <2>1, <2>2, <1>a, <1>0, BeginTree, StoreCreates
<1>2. ASSUME NEW command \in Command, command.op = "DELETE", Delete(command)
      PROVE  WholeStep \/ CutStep
  <2>1. command \in OtherCommand
    BY <1>2, CommandAssumption DEF MoveCommand, OtherCommand
  <2>2. VisibleTree = tree /\ VisibleTree' = tree'
    BY <1>2, <2>1, DeleteEnds
      DEF Delete, VisibleTree, Idle, Abort, LogError, Complete, Forget
  <2> QED
    BY <1>2, <2>1, <2>2, <1>a, DeleteEnds, StoreDiscards
<1>3. ASSUME NEW command \in Command, command.op = "MKDIR", MakeDirectory(command)
      PROVE  WholeStep \/ CutStep
  <2>1. command \in OtherCommand
    BY <1>3, CommandAssumption DEF MoveCommand, OtherCommand
  <2>2. VisibleTree = tree /\ VisibleTree' = tree'
    BY <1>3, <2>1, <1>0, MakeDirectoryEnds
      DEF MakeDirectory, VisibleTree, Idle, Abort, LogError, Complete, Forget
  <2> QED
    BY <1>3, <2>1, <2>2, <1>a, <1>0, MakeDirectoryEnds, StoreCreates
<1>4. CASE NextFile
  <2>1. pc = "next" /\ tree' = tree /\ pc' \notin {"fill", "removeSource"}
    BY <1>4, NextFileInv DEF NextFile
  <2> QED
    BY <2>1, <1>a DEF VisibleTree
<1>5. CASE EndCommand \/ Rerun
  BY <1>5, <1>a DEF EndCommand, Rerun, Complete, Forget, VisibleTree, Idle, Ended
<1>6. CASE Kill
  <2>1. Kills /\ VisibleTree' = tree /\ pc' = "killed"
    BY <1>6 DEF Kill, Forget, VisibleTree
  <2>2. CASE pc \in {"fill", "removeSource"}
    <3> DEFINE v == Without(tree, Destination)
    <3>1. /\ IsFile(tree, job.source) /\ IsFile(tree, Destination)
          /\ job.source # Destination /\ IsDirectory(tree, job.dir)
          /\ tree[Destination] \in {Partial, tree[job.source]}
          /\ job.name \in Name
      BY <2>2 DEF IndInv, SourceOutlivesCopy, TypeOK, Transferring
    <3>2. VisibleTree = v
      BY <2>2 DEF VisibleTree
    <3>3. tree = With(v, Destination, tree[Destination])
      BY <3>1, <1>0, WithoutWith DEF IsFile
    <3>4. /\ IsFile(v, job.source) /\ v[job.source] = tree[job.source]
          /\ CanCreate(v, job.dir, job.name)
          /\ job.source \in DOMAIN v /\ job.dir \in DOMAIN v
      BY <3>1 DEF IsFile, IsDirectory, Without, CanCreate, Exists, Destination
    <3> HIDE DEF v
    <3>5. Store!Interrupt(job.source, job.dir, job.name)
      BY <2>1, <3>1, <3>2, <3>3, <3>4
        DEF Store!Interrupt, Store!IsFile, Store!CanCreate, Store!IsDirectory,
            Store!Exists, Store!With, IsFile, CanCreate, IsDirectory, Exists, With,
            Destination
    <3> QED
      BY <2>1, <3>1, <3>2, <3>4, <3>5 DEF CutStep
  <2>3. CASE pc \notin {"fill", "removeSource"}
    BY <2>1, <2>3, <1>a DEF VisibleTree
  <2> QED
    BY <2>2, <2>3
<1>7. CASE RemoveOld
  <2>1. VisibleTree = tree /\ VisibleTree' = tree'
    BY <1>7 DEF RemoveOld, Abort, Forget, VisibleTree
  <2>2. CASE RemoveThrows(tree, job.old)
    BY <1>7, <2>1, <2>2, <1>a DEF RemoveOld
  <2>3. CASE ~ RemoveThrows(tree, job.old) /\ Exists(tree, job.old)
    BY <1>7, <2>1, <2>3, StoreDiscards DEF RemoveOld
  <2>4. CASE ~ RemoveThrows(tree, job.old) /\ ~ Exists(tree, job.old)
    BY <1>7, <2>1, <2>4, <1>0, <1>a, WithoutWith DEF RemoveOld, Exists
  <2> QED
    BY <2>2, <2>3, <2>4
<1>8. CASE OpenDestination
  <2>1. CASE pc' = "fill"
    <3>1. /\ pc = "open" /\ job' = job
          /\ Destination \notin DOMAIN tree
          /\ tree' = With(tree, Destination, Partial)
      BY <1>8, <2>1 DEF OpenDestination, CanCreate, Exists, Destination, Abort, Forget
    <3>2. VisibleTree = tree /\ VisibleTree' = Without(tree', Destination)
      BY <2>1, <3>1 DEF VisibleTree, Destination
    <3> QED
      BY <3>1, <3>2, <1>0, <1>a, WithoutWith
  <2>2. CASE pc' # "fill"
    BY <1>8, <2>2, <1>a DEF OpenDestination, Abort, Forget, VisibleTree
  <2> QED
    BY <2>1, <2>2
<1>9. CASE FillDestination
  <2>1. /\ VisibleTree = Without(tree, Destination)
        /\ VisibleTree' = Without(With(tree, Destination, tree[job.source]), Destination)
    BY <1>9 DEF FillDestination, VisibleTree, Destination
  <2> QED
    BY <2>1, <1>0, <1>a, WithoutWith
<1>10. CASE RemoveSource
  <2> DEFINE v == Without(tree, Destination)
  <2>1. /\ pc = "removeSource" /\ pc' = "next" /\ tree' = Without(tree, job.source)
    BY <1>10 DEF RemoveSource
  <2>2. /\ IsFile(tree, job.source) /\ IsFile(tree, Destination)
        /\ job.source # Destination /\ IsDirectory(tree, job.dir)
        /\ tree[Destination] = tree[job.source]
        /\ job.name \in Name
    BY <2>1 DEF IndInv, SourceOutlivesCopy, TypeOK, Transferring
  <2>3. VisibleTree = v /\ VisibleTree' = Without(tree, job.source)
    BY <2>1 DEF VisibleTree
  <2>4. tree = With(v, Destination, tree[Destination])
    BY <2>2, <1>0, WithoutWith DEF IsFile
  <2>5. /\ IsFile(v, job.source) /\ v[job.source] = tree[job.source]
        /\ CanCreate(v, job.dir, job.name)
        /\ job.source \in DOMAIN v /\ job.dir \in DOMAIN v
    BY <2>2 DEF IsFile, IsDirectory, Without, CanCreate, Exists, Destination
  <2> HIDE DEF v
  <2>6. VisibleTree' = Without(With(v, Destination, v[job.source]), job.source)
    BY <2>2, <2>3, <2>4, <2>5
  <2>7. Store!Relocate(job.source, job.dir, job.name)
    BY <2>3, <2>5, <2>6
      DEF Store!Relocate, Store!IsFile, Store!CanCreate, Store!IsDirectory,
          Store!Exists, Store!With, Store!Without, IsFile, CanCreate, IsDirectory,
          Exists, With, Without, Destination
  <2> QED
    BY <2>2, <2>3, <2>5, <2>7 DEF WholeStep
<1>11. CASE UNCHANGED vars
  BY <1>11, <1>a DEF vars, VisibleTree, Destination
<1> QED
  BY <1>1, <1>2, <1>3, <1>4, <1>5, <1>6, <1>7, <1>8, <1>9, <1>10, <1>11
    DEF Next, Execute

\* Every step of a command is a step of the abstract collection or invisible.
THEOREM Refinement == Spec => ImplementsStore
<1>1. Init => Store!Init
  BY DEF Init, Store!Init, VisibleTree, Idle
<1>2. IndInv /\ IndInv' /\ [Next]_vars => [Store!Next]_VisibleTree
  BY StoreStep DEF WholeStep, CutStep, Store!Next
<1> QED
  BY <1>1, <1>2, Inductive, PTL DEF Spec, ImplementsStore, Store!Spec

-----------------------------------------------------------------------------
(* Where a tune is, counted.                                               *)

\* A part of a finite set is no larger.
LEMMA FewerPlaces ==
    ASSUME NEW S, IsFiniteSet(S), NEW T, T \subseteq S
    PROVE  ~ (Cardinality(S) < Cardinality(T))
<1>1. Cardinality(T) <= Cardinality(S) /\ Cardinality(T) \in Nat /\ Cardinality(S) \in Nat
  BY FS_Subset, FS_CardinalityType
<1> QED
  BY <1>1

\* Nor is one with one member in the place of another.
LEMMA PlaceMoved ==
    ASSUME NEW S, IsFiniteSet(S), NEW p \in S, NEW q, NEW T, T \subseteq (S \ {p}) \cup {q}
    PROVE  ~ (Cardinality(S) < Cardinality(T))
<1>1. /\ IsFiniteSet(S \ {p}) /\ Cardinality(S \ {p}) = Cardinality(S) - 1
      /\ Cardinality(S) \in Nat
  BY FS_RemoveElement, FS_CardinalityType
<1>2. /\ IsFiniteSet((S \ {p}) \cup {q})
      /\ \/ Cardinality((S \ {p}) \cup {q}) = Cardinality(S \ {p})
         \/ Cardinality((S \ {p}) \cup {q}) = Cardinality(S \ {p}) + 1
  BY <1>1, FS_AddElement
<1>3. /\ Cardinality(T) <= Cardinality((S \ {p}) \cup {q})
      /\ Cardinality(T) \in Nat /\ Cardinality((S \ {p}) \cup {q}) \in Nat
  BY <1>2, FS_Subset, FS_CardinalityType
<1> QED
  BY <1>1, <1>2, <1>3

\* Unless the process is killed, no step of any command leaves a tune in more
\* places than before.
THEOREM NothingIsDuplicated == Spec => OnlyKillsDuplicate
<1> DEFINE Once == \A tune \in Tune :
                     Cardinality(Places(tune)) < Cardinality(Places(tune)') => pc' = "killed"
<1>1. IndInv /\ IndInv' /\ IsFiniteSet(DOMAIN tree) /\ [Next]_vars => [Once]_vars
  <2> SUFFICES ASSUME IndInv, IndInv', IsFiniteSet(DOMAIN tree), [Next]_vars,
                      pc' # "killed", NEW tune \in Tune
               PROVE  ~ (Cardinality(Places(tune)) < Cardinality(Places(tune)'))
    OBVIOUS
  <2> DEFINE S == Places(tune)
             T == Places(tune)'
  <2>1. IsFiniteSet(S)
    <3>1. S \subseteq DOMAIN tree
      BY DEF Places, VisibleTree, Without
    <3> QED
      BY <3>1, FS_Subset
  <2>2. WholeStep
    BY StoreStep DEF CutStep
  <2>3. T \subseteq S \/ \E p \in S : \E q : T \subseteq (S \ {p}) \cup {q}
    <3>1. CASE VisibleTree' = VisibleTree
      BY <3>1 DEF Places
    <3>2. ASSUME NEW file \in DOMAIN VisibleTree, NEW dir \in DOMAIN VisibleTree,
                 NEW name \in Name, Store!Relocate(file, dir, name)
          PROVE  T \subseteq S \/ \E p \in S : \E q : T \subseteq (S \ {p}) \cup {q}
      <4> DEFINE q == Append(dir, name)
      <4>1. VisibleTree' = Without(With(VisibleTree, q, VisibleTree[file]), file)
        BY <3>2 DEF Store!Relocate, Store!With, Store!Without, With, Without
      <4>2. T \subseteq (S \ {file}) \cup {q}
        BY <4>1 DEF Places, With, Without
      <4>3. VisibleTree[file] # tune => T \subseteq S
        BY <4>1 DEF Places, With, Without
      <4> QED
        BY <4>2, <4>3 DEF Places
    <3>3. ASSUME NEW path \in DOMAIN VisibleTree, Store!Discard(path)
          PROVE  T \subseteq S
      BY <3>3 DEF Store!Discard, Store!Without, Places
    <3>4. ASSUME NEW dir \in DOMAIN VisibleTree, NEW name \in Name,
                 Store!CreateDirectory(dir, name)
          PROVE  T \subseteq S
      BY <3>4, KindAssumption DEF Store!CreateDirectory, Store!With, Places
    <3> QED
      BY <2>2, <3>1, <3>2, <3>3, <3>4 DEF WholeStep
  <2> HIDE DEF S, T
  <2>4. ~ (Cardinality(S) < Cardinality(T))
    BY <2>1, <2>3, FewerPlaces, PlaceMoved
  <2> QED
    BY <2>4 DEF S, T
<1> QED
  BY Inductive, FiniteTree, <1>1, PTL DEF Spec, OnlyKillsDuplicate

-----------------------------------------------------------------------------

\* In every reachable tree with one spelling of each name, every path line is
\* found exactly when an entry has that name in some case.
THEOREM LookupSafe == Spec => []LookupIgnoresCase
<1>1. IndInv => LookupIgnoresCase
  <2> SUFFICES ASSUME WellFormed(tree), Unambiguous(tree), NEW line \in ScriptLine
               PROVE  LET at == Resolve(tree, line.names)
                      IN  /\ at.status = "found" <=>
                               \E p \in DOMAIN tree : SameButForCase(p, line.names)
                          /\ at.status = "found" =>
                               Exists(tree, at.path) /\ SameButForCase(at.path, line.names)
    BY DEF IndInv, LookupIgnoresCase
  <2>1. line.names \in Path
    <3>1. PICK command \in Command :
            line \in IF command.op \in {"MOVE", "REPLACE"} THEN {command.src, command.dst}
                    ELSE {command.path}
      BY DEF ScriptLine
    <3>2. command \in MoveCommand \/ command \in OtherCommand
      BY CommandAssumption
    <3> QED
      BY <3>1, <3>2 DEF MoveCommand, OtherCommand, Line
  <2>2. ASSUME NEW p \in DOMAIN tree, SameButForCase(p, line.names)
        PROVE  Resolve(tree, line.names).status = "found"
    BY <2>1, <2>2, LookupComplete DEF Found
  <2> QED
    BY <2>1, <2>2, LookupSound DEF Exists
<1> QED
  BY <1>1, Inductive, PTL

-----------------------------------------------------------------------------
(* The MOVE or REPLACE of a directory leaves no file in it: what is still  *)
(* there is still to be taken, or is being taken.                          *)

\* A file is sent, or its command has been left by an exception.
LEMMA TransferEnds ==
    ASSUME NEW command, NEW file, NEW previous, Transfer(command, file, previous)
    PROVE  \/ cmd' = NoCommand /\ job' = NoJob /\ pc' = "aborted"
           \/ /\ previous.status # "throws"
              /\ cmd' = command
              /\ job' = [file EXCEPT !.old = IF command.op = "REPLACE"
                                             THEN previous.path ELSE NoPath]
              /\ pc' = IF job'.old = NoPath THEN "open" ELSE "removeOld"
BY DEF Transfer, Abort, Forget

\* There is no path that stands for none.
LEMMA NoPathIsNoPath == NoPath \notin Path
<1> SUFFICES ASSUME NoPath \in Path PROVE FALSE
  OBVIOUS
<1>1. LastName(NoPath) = "no path" /\ NoPath # Root
  BY DEF NoPath, LastName, Root
<1>2. LastName(NoPath) \in Name
  BY <1>1, ParentType
<1> QED
  BY <1>1, <1>2, NameAssumption

\* Who has nothing to do has no directory to empty.
LEMMA NoJobHasNoFolder == NoJob.folder = NoPath
BY DEF NoJob

\* The process turns to the single file of a command.
Sent(command, dir, name, previous) ==
    /\ previous.status # "throws"
    /\ cmd' = command
    /\ job'.folder = NoPath
    /\ job'.dir = dir
    /\ job'.name = name
    /\ job'.old = IF command.op = "REPLACE" THEN previous.path ELSE NoPath
    /\ pc' = IF job'.old = NoPath THEN "open" ELSE "removeOld"

\* What is known of a file once it has been sent.
LEMMA FileSent ==
    ASSUME NEW command, NEW from, NEW dir, NEW name, NEW previous,
           NEW file, file = [NoJob EXCEPT !.source = from],
           Transfer(command, [file EXCEPT !.dir = dir, !.name = name], previous)
    PROVE  (cmd' = NoCommand /\ job' = NoJob) \/ Sent(command, dir, name, previous)
<1> DEFINE sent == [file EXCEPT !.dir = dir, !.name = name]
           old == IF command.op = "REPLACE" THEN previous.path ELSE NoPath
           j == [sent EXCEPT !.old = old]
<1>1. j.folder = NoPath /\ j.dir = dir /\ j.name = name /\ j.old = old
  BY DEF NoJob
<1> HIDE DEF sent
<1>2. Transfer(command, sent, previous)
  BY DEF sent
<1>3. CASE previous.status = "throws"
  BY <1>2, <1>3 DEF Transfer, Abort, Forget
<1>4. CASE previous.status # "throws"
  <2>1. /\ cmd' = command /\ job' = j
        /\ pc' = IF job'.old = NoPath THEN "open" ELSE "removeOld"
    BY <1>2, <1>4 DEF Transfer
  <2> HIDE DEF j
  <2> QED
    BY <2>1, <1>1, <1>4 DEF Sent
<1> QED
  BY <1>3, <1>4

\* How a MOVE or REPLACE begins: with a directory, with a file that goes into
\* the directory the destination names, or with one that becomes it.
LEMMA BeginEnds ==
    ASSUME NEW command \in MoveCommand, WellFormed(tree), Begin(command)
    PROVE  LET from == Resolve(tree, command.src.names).path
               at == Prepared(command.dst).at
               into == at.status = "found" /\ IsDirectory(tree', at.path)
               name == LastName(command.src.names)
               parent == IF command.dst.slash THEN at
                         ELSE Resolve(tree', Parent(command.dst.names))
           IN  \/ cmd' = NoCommand /\ job' = NoJob
               \/ /\ tree' = Prepared(command.dst).tree
                  /\ \/ /\ into
                        /\ pc' = "next" /\ cmd' = command
                        /\ job'.folder = from /\ job'.dir = at.path
                        /\ job'.todo = FileNames(tree', from)
                     \/ /\ into
                        /\ Sent(command, at.path, name,
                                Resolve(tree', ReplaceFilename(command.dst, name)))
                     \/ /\ ~ into
                        /\ parent.status = "found"
                        /\ Sent(command, parent.path, LastName(command.dst.names),
                                Resolve(tree', command.dst.names))
<1> DEFINE r == Resolve(tree, command.src.names)
           from == r.path
           at == Prepared(command.dst).at
           into == at.status = "found" /\ IsDirectory(tree', at.path)
           name == LastName(command.src.names)
           file == [NoJob EXCEPT !.source = from]
           parent == IF command.dst.slash THEN at
                     ELSE Resolve(tree', Parent(command.dst.names))
<1>1. command.src.names \in Path /\ command.dst \in Line /\ command.dst.names \in Path
  BY DEF MoveCommand, Line
<1>2. r.status \in {"found", "missing", "throws"}
  BY <1>1, ResolveType, ResultFacts
<1>3. parent.status \in {"found", "missing", "throws"}
  BY <1>1, ParentType, PreparedFacts, ResolveType, ResultFacts
<1>4. Abort \/ LogError => cmd' = NoCommand /\ job' = NoJob
  BY DEF Abort, LogError, Forget
<1>5. CASE ~ Abort /\ ~ LogError
  <2>1. /\ r.status = "found"
        /\ tree' = Prepared(command.dst).tree
        /\ \/ BeginFolder(command, from, at)
           \/ BeginFile(command, from, at)
    BY <1>2, <1>5 DEF Begin
  <2>2. CASE BeginFolder(command, from, at)
    <3>1. into /\ pc' = "next" /\ cmd' = command
          /\ job' = [NoJob EXCEPT !.folder = from, !.dir = at.path,
                                  !.todo = FileNames(tree', from)]
      BY <2>2, <1>5 DEF BeginFolder
    <3> HIDE DEF at, from
    <3>2. /\ job'.folder = from /\ job'.dir = at.path
          /\ job'.todo = FileNames(tree', from)
      BY <3>1 DEF NoJob
    <3> QED
      BY <2>1, <3>1, <3>2 DEF at, from
  <2>3. CASE BeginFile(command, from, at)
    <3>1. CASE into
      <4>1. Transfer(command, [file EXCEPT !.dir = at.path, !.name = name],
                     Resolve(tree', ReplaceFilename(command.dst, name)))
        BY <2>3, <3>1 DEF BeginFile
      <4> HIDE DEF file, at, name
      <4>2. \/ cmd' = NoCommand /\ job' = NoJob
            \/ Sent(command, at.path, name, Resolve(tree', ReplaceFilename(command.dst, name)))
        BY <4>1, FileSent DEF file
      <4> QED
        BY <2>1, <3>1, <4>2 DEF at, name
    <3>2. CASE ~ into
      <4>1. /\ parent.status = "found"
            /\ Transfer(command,
                        [file EXCEPT !.dir = parent.path, !.name = LastName(command.dst.names)],
                        Resolve(tree', command.dst.names))
        BY <2>3, <3>2, <1>3, <1>5 DEF BeginFile
      <4> HIDE DEF file, parent
      <4>2. \/ cmd' = NoCommand /\ job' = NoJob
            \/ Sent(command, parent.path, LastName(command.dst.names),
                    Resolve(tree', command.dst.names))
        BY <4>1, FileSent DEF file
      <4> QED
        BY <2>1, <3>2, <4>1, <4>2 DEF parent
    <3> QED
      BY <3>1, <3>2
  <2> QED
    BY <2>1, <2>2, <2>3
<1> QED
  BY <1>4, <1>5

\* An operation has lines of its kind.
LEMMA MoveOnly ==
    ASSUME NEW command \in Command
    PROVE  /\ command.op \in {"MOVE", "REPLACE"} => command \in MoveCommand
           /\ command.op \in {"DELETE", "MKDIR"} => command \in OtherCommand
BY CommandAssumption DEF MoveCommand, OtherCommand

\* The files still in the source directory are those not yet taken.
Emptied ==
    job.folder # NoPath =>
      /\ job.folder \in Path
      /\ FileNames(tree, job.folder) \subseteq
           job.todo \cup (IF pc \in Transferring THEN {job.name} ELSE {})
      /\ pc \in Transferring => job.source = Append(job.folder, job.name)

\* The copy of a file lies outside the directory it comes from.
LEMMA CopyLeavesFolder ==
    ASSUME NEW folder \in Path, NEW dir \in Path, NEW name \in Name, NEW n \in Name,
           Append(folder, name) # Append(dir, name)
    PROVE  Append(folder, n) # Append(dir, name)
BY AppendParent

\* No call puts a file into the directory being emptied.
LEMMA EmptiedInv == Emptied /\ IndInv /\ [Next]_vars => Emptied'
<1> SUFFICES ASSUME Emptied, IndInv, [Next]_vars PROVE Emptied'
  OBVIOUS
<1>0. WellFormed(tree) /\ NoPath \notin Path
  BY NoPathIsNoPath DEF IndInv
<1>a. job' = NoJob => Emptied'
  BY NoJobHasNoFolder DEF Emptied
<1>1. ASSUME NEW command \in Command, command.op \in {"MOVE", "REPLACE"}, Begin(command)
      PROVE  Emptied'
  <2>1. command \in MoveCommand
    BY <1>1, MoveOnly
  <2>2. \/ job'.folder = NoPath
        \/ /\ pc' = "next"
           /\ job'.folder = Resolve(tree, command.src.names).path
           /\ job'.todo = FileNames(tree', job'.folder)
    BY <2>1, <1>0, <1>1, BeginEnds, NoJobHasNoFolder DEF Sent
  <2>3. Resolve(tree, command.src.names).path \in Path \cup {NoPath}
    BY <2>1, ResolveType, ResultFacts DEF MoveCommand, Line
  <2> QED
    BY <2>2, <2>3 DEF Emptied, Transferring
<1>2. ASSUME NEW command \in Command, command.op = "DELETE", Delete(command)
      PROVE  Emptied'
  BY <1>a, <1>2, MoveOnly, DeleteEnds DEF Abort, LogError, Complete, Forget
<1>3. ASSUME NEW command \in Command, command.op = "MKDIR", MakeDirectory(command)
      PROVE  Emptied'
  BY <1>a, <1>0, <1>3, MoveOnly, MakeDirectoryEnds DEF Abort, LogError, Complete, Forget
<1>4. CASE NextFile
  <2>1. PICK name \in job.todo :
          Transfer(cmd,
                   [job EXCEPT !.source = Append(job.folder, name), !.name = name,
                               !.todo = @ \ {name}],
                   IF cmd.op = "REPLACE"
                   THEN Resolve(tree, ReplaceFilename(cmd.dst, name))
                   ELSE Missing)
    BY <1>4 DEF NextFile
  <2>2. job \in Job /\ pc = "next" /\ tree' = tree
    BY <1>4 DEF NextFile, IndInv, TypeOK
  <2>3. CASE job' = NoJob
    BY <2>3, <1>a
  <2>4. CASE job' # NoJob
    <3> DEFINE file == [job EXCEPT !.source = Append(job.folder, name), !.name = name,
                                   !.todo = @ \ {name}]
    <3>a. /\ file.folder = job.folder /\ file.todo = job.todo \ {name}
          /\ file.name = name /\ file.source = Append(job.folder, name)
      BY <2>2 DEF Job
    <3> HIDE DEF file
    <3>b. \E old : job' = [file EXCEPT !.old = old] /\ pc' \in {"open", "removeOld"}
      BY <2>1, <2>4, TransferEnds DEF file
    <3>1. /\ job'.folder = job.folder /\ job'.todo = job.todo \ {name}
          /\ job'.name = name /\ job'.source = Append(job.folder, name)
          /\ pc' \in Transferring
      BY <3>a, <3>b DEF Transferring
    <3> QED
      BY <3>1, <2>2 DEF Emptied, Transferring
  <2> QED
    BY <2>3, <2>4
<1>5. CASE EndCommand \/ Kill \/ Rerun
  BY <1>a, <1>5 DEF EndCommand, Kill, Rerun, Complete, Forget
<1>6. CASE RemoveOld
  <2>1. job' = NoJob \/ (pc = "removeOld" /\ pc' = "open" /\ job' = job
                         /\ tree' = Without(tree, job.old))
    BY <1>6 DEF RemoveOld, Abort, Forget
  <2>2. \A d : FileNames(Without(tree, job.old), d) \subseteq FileNames(tree, d)
    BY DEF FileNames, IsFile, Without
  <2> QED
    BY <2>1, <2>2, <1>a DEF Emptied, Transferring
<1>7. CASE OpenDestination
  <2>1. CASE job' = NoJob
    BY <2>1, <1>a
  <2>2. CASE job' # NoJob /\ job.folder # NoPath
    <3>1. /\ pc = "open" /\ pc' = "fill" /\ job' = job
          /\ IsFile(tree, job.source) /\ CanCreate(tree, job.dir, job.name)
          /\ tree' = With(tree, Destination, Partial)
      BY <1>7, <2>2 DEF OpenDestination, Abort, Forget
    <3>2. /\ job.folder \in Path /\ job.dir \in Path /\ job.name \in Name
          /\ job.source = Append(job.folder, job.name)
      BY <2>2, <3>1, <1>0
        DEF Emptied, IndInv, TypeOK, Transferring, CanCreate, IsDirectory, WellFormed
    <3>3. \A n \in Name : Append(job.folder, n) # Destination
      BY <3>1, <3>2, CopyLeavesFolder DEF CanCreate, Exists, IsFile, Destination
    <3>4. FileNames(tree', job.folder) \subseteq FileNames(tree, job.folder)
      BY <3>1, <3>3 DEF FileNames, IsFile, With
    <3> QED
      BY <3>1, <3>4 DEF Emptied, Transferring
  <2>3. CASE job' # NoJob /\ job.folder = NoPath
    BY <1>7, <2>3 DEF OpenDestination, Abort, Forget, Emptied
  <2> QED
    BY <2>1, <2>2, <2>3
<1>8. CASE FillDestination
  <2>1. /\ pc = "fill" /\ pc' = "removeSource" /\ job' = job
        /\ IsFile(tree, Destination)
        /\ tree' = With(tree, Destination, tree[job.source])
    BY <1>8 DEF FillDestination, IndInv, SourceOutlivesCopy
  <2>2. \A d : FileNames(tree', d) \subseteq FileNames(tree, d)
    BY <2>1 DEF FileNames, IsFile, With
  <2> QED
    BY <2>1, <2>2 DEF Emptied, Transferring
<1>9. CASE RemoveSource
  <2>1. /\ pc = "removeSource" /\ pc' = "next" /\ job' = job
        /\ tree' = Without(tree, job.source)
    BY <1>9 DEF RemoveSource
  <2>2. FileNames(tree', job.folder) \subseteq FileNames(tree, job.folder)
    BY <2>1 DEF FileNames, IsFile, Without
  <2>3. job.source = Append(job.folder, job.name) => job.name \notin FileNames(tree', job.folder)
    BY <2>1 DEF FileNames, IsFile, Without
  <2> QED
    BY <2>1, <2>2, <2>3 DEF Emptied, Transferring
<1>10. CASE UNCHANGED vars
  BY <1>10 DEF vars, Emptied
<1> QED
  BY <1>1, <1>2, <1>3, <1>4, <1>5, <1>6, <1>7, <1>8, <1>9, <1>10 DEF Next, Execute

\* When the MOVE or REPLACE of a directory ends without an exception, no file
\* is left in the directory, in whatever order its files were taken.
THEOREM FoldersAreEmptied == Spec => FolderIsEmptied
<1> DEFINE Empty == pc = "next" /\ pc' = Idle /\ job.folder # NoPath =>
                      FileNames(tree, job.folder) = {}
<1>1. Init => Emptied
  BY NoJobHasNoFolder DEF Init, Emptied
<1>2. Emptied /\ IndInv /\ [Next]_vars => [Empty]_vars
  <2> SUFFICES ASSUME Emptied, IndInv, Next, pc = "next", pc' = Idle, job.folder # NoPath
               PROVE  FileNames(tree, job.folder) = {}
    OBVIOUS
  <2>1. ~ NextFile
    <3> SUFFICES ASSUME NextFile PROVE FALSE
      OBVIOUS
    <3>1. pc' \in {"aborted", "open", "removeOld"}
      BY TransferEnds DEF NextFile
    <3> QED
      BY <3>1 DEF Idle
  <2>2. job.todo = {}
    BY <2>1 DEF Next, Execute, Begin, Delete, MakeDirectory, EndCommand, RemoveOld,
                OpenDestination, FillDestination, RemoveSource, Kill, Rerun, Forget, Idle, Ended
  <2> QED
    BY <2>2 DEF Emptied, Transferring
<1> QED
  BY Inductive, <1>1, <1>2, EmptiedInv, PTL DEF Spec, FolderIsEmptied

-----------------------------------------------------------------------------
(* REPLACE and the spelling of names.  A name can lie on both sides of the *)
(* lookup: what REPLACE removes is found ignoring case, what it writes is  *)
(* spelled as the line has it.  The two are the same entry as long as the  *)
(* collection has one spelling of each name, and the line ends in a slash  *)
(* exactly where it names a directory.                                     *)

\* To differ in case only is symmetric ...
LEMMA SameSymmetric ==
    ASSUME NEW p, NEW q, SameButForCase(p, q)
    PROVE  SameButForCase(q, p)
BY DEF SameButForCase

\* ... and transitive ...
LEMMA SameTransitive ==
    ASSUME NEW p, NEW q, NEW r, SameButForCase(p, q), SameButForCase(q, r)
    PROVE  SameButForCase(p, r)
BY DEF SameButForCase

\* ... and carries over to the entries of two directories.
LEMMA SameAppend ==
    ASSUME NEW p \in Path, NEW q \in Path, NEW n \in Name, SameButForCase(p, q)
    PROVE  SameButForCase(Append(p, n), Append(q, n))
BY DEF SameButForCase, Path

\* A new entry whose name is new in any case leaves names unambiguous.
LEMMA WithUnambiguous ==
    ASSUME NEW t, Unambiguous(t), NEW new, NEW node,
           new \in DOMAIN t \/ \A p \in DOMAIN t : ~ SameButForCase(p, new)
    PROVE  Unambiguous(With(t, new, node))
<1>1. DOMAIN With(t, new, node) = DOMAIN t \cup {new}
  BY DEF With
<1> QED
  BY <1>1, SameSymmetric DEF Unambiguous

\* No removal makes a name ambiguous.
LEMMA WithoutUnambiguous ==
    ASSUME NEW t, Unambiguous(t), NEW p
    PROVE  Unambiguous(Without(t, p))
BY DEF Unambiguous, Without

\* What the lookup says of an entry that is written another way: where it is,
\* or that it is not there.
LEMMA LookupDecides ==
    ASSUME NEW t, WellFormed(t), Unambiguous(t), NEW names \in Path,
           NEW as, SameButForCase(as, names), Resolve(t, names).status # "throws"
    PROVE  LET at == Resolve(t, names)
           IN  IF at.path = NoPath THEN \A p \in DOMAIN t : ~ SameButForCase(p, as)
               ELSE at.path \in DOMAIN t /\ SameButForCase(at.path, as)
<1> DEFINE at == Resolve(t, names)
<1>1. at \in Result
  BY ResolveType
<1>2. CASE at.status = "found"
  <2>1. at.path \in DOMAIN t /\ SameButForCase(at.path, names)
    BY <1>2, LookupSound
  <2>2. at.path # NoPath
    BY <1>1, <1>2, ResultFacts, NoPathIsNoPath
  <2> QED
    BY <2>1, <2>2, SameSymmetric, SameTransitive
<1>3. CASE at.status # "found"
  <2>1. \A p \in DOMAIN t : ~ SameButForCase(p, names)
    BY <1>3, LookupComplete DEF Found
  <2>2. at.path = NoPath
    <3>1. at \in {Missing, Throws}
      BY <1>1, <1>3 DEF Result, Found
    <3> QED
      BY <3>1 DEF Missing, Throws
  <2> QED
    BY <2>1, <2>2, SameTransitive
<1> QED
  BY <1>2, <1>3

\* makeHVSCdir makes no directory beside one of the same name.
LEMMA MakeDirUnambiguous ==
    ASSUME NEW t, WellFormed(t), Unambiguous(t), NEW names \in Path
    PROVE  Unambiguous(MakeDir(t, names).tree)
<1> DEFINE at == Resolve(t, names)
           parent == Resolve(t, Parent(names))
           new == Append(parent.path, LastName(names))
<1>1. at \in Result /\ parent \in Result
  BY ParentType, ResolveType
<1>2. CASE MakeDir(t, names).tree = t
  BY <1>2
<1>3. CASE MakeDir(t, names).tree # t
  <2>0. /\ at.status \in {"found", "missing", "throws"}
        /\ parent.status \in {"found", "missing", "throws"}
    BY <1>1, ResultFacts
  <2>1. /\ at.status = "missing" /\ parent.status = "found"
        /\ MakeDir(t, names).tree = With(t, new, Directory)
    BY <1>3, <2>0 DEF MakeDir
  <2>2. names # Root
    BY <2>1, ResolveRoot DEF Found
  <2>3. SameButForCase(parent.path, Parent(names)) /\ parent.path \in Path
    BY <2>1, ParentType, LookupSound DEF WellFormed
  <2>4. SameButForCase(new, names)
    BY <2>2, <2>3, ParentType, SameAppend
  <2>5. \A p \in DOMAIN t : ~ SameButForCase(p, names)
    BY <2>1, LookupComplete DEF Found
  <2>6. \A p \in DOMAIN t : ~ SameButForCase(p, new)
    BY <2>4, <2>5, SameTransitive
  <2> QED
    BY <2>1, <2>6, WithUnambiguous
<1> QED
  BY <1>2, <1>3

\* Nor does making the directory of a destination, which is looked up first.
LEMMA PreparedUnambiguous ==
    ASSUME NEW line \in Line, WellFormed(tree), Unambiguous(tree)
    PROVE  Unambiguous(Prepared(line).tree)
<1>1. Prepared(line).tree \in {tree, MakeDir(tree, line.names).tree}
  BY DEF Prepared
<1> QED
  BY <1>1, MakeDirUnambiguous DEF Line

\* What is prepared is what the lookup then finds.
LEMMA PreparedResolves ==
    ASSUME NEW line, Prepared(line).at.status = "found"
    PROVE  Prepared(line).at = Resolve(Prepared(line).tree, line.names)
BY DEF Prepared, Throws

\* A slash ends the line exactly if what it names is a directory.
SlashMeansDirectory(t, line) ==
    \A p \in DOMAIN t : SameButForCase(p, line.names) => (line.slash <=> IsDirectory(t, p))

\* Every REPLACE finds a collection with one spelling of each name, and its
\* destination is written the way the documentation writes directories.
ReplacesStartRight ==
    [][pc = Idle /\ cmd'.op = "REPLACE" =>
         Unambiguous(tree') /\ SlashMeansDirectory(tree', cmd'.dst)]_vars

\* While such a REPLACE is executed, what it will remove is what is where it
\* will write, and nothing is there when it writes.
ReplaceRight ==
    cmd.op = "REPLACE" =>
      /\ Unambiguous(tree)
      /\ job.folder # NoPath =>
           /\ cmd.dst.slash
           /\ job.dir \in Path
           /\ SameButForCase(job.dir, cmd.dst.names)
      /\ pc = "removeOld" => job.old \in DOMAIN tree /\ SameButForCase(job.old, Destination)
      /\ pc = "open" => \A p \in DOMAIN tree : ~ SameButForCase(p, Destination)

\* The process turns to a file whose destination the looked-up line names.
LEMMA SentRight ==
    ASSUME cmd'.op = "REPLACE", WellFormed(tree'), Unambiguous(tree'),
           NEW names \in Path, SameButForCase(Destination', names),
           Resolve(tree', names).status # "throws",
           job'.old = Resolve(tree', names).path,
           pc' = IF job'.old = NoPath THEN "open" ELSE "removeOld",
           job'.folder # NoPath =>
             /\ cmd'.dst.slash
             /\ job'.dir \in Path
             /\ SameButForCase(job'.dir, cmd'.dst.names)
    PROVE  ReplaceRight'
<1>1. IF job'.old = NoPath THEN \A p \in DOMAIN tree' : ~ SameButForCase(p, Destination')
      ELSE job'.old \in DOMAIN tree' /\ SameButForCase(job'.old, Destination')
  BY LookupDecides
<1> QED
  BY <1>1 DEF ReplaceRight

\* A REPLACE that starts right knows what it will remove.
LEMMA BeginRight ==
    ASSUME NEW command \in MoveCommand, WellFormed(tree), Begin(command),
           cmd'.op = "REPLACE" =>
             Unambiguous(tree') /\ SlashMeansDirectory(tree', cmd'.dst)
    PROVE  ReplaceRight'
<1> DEFINE at == Prepared(command.dst).at
           into == at.status = "found" /\ IsDirectory(tree', at.path)
           name == LastName(command.src.names)
           parent == IF command.dst.slash THEN at
                     ELSE Resolve(tree', Parent(command.dst.names))
<1>0. SUFFICES ASSUME cmd'.op = "REPLACE" PROVE ReplaceRight'
  BY DEF ReplaceRight
<1>1. Unambiguous(tree') /\ SlashMeansDirectory(tree', cmd'.dst)
  BY <1>0
<1>2. WellFormed(tree') /\ TypeOK'
  BY BeginInv DEF IndInv
<1>3. command.dst \in Line /\ command.dst.names \in Path
  BY DEF MoveCommand, Line
<1>4. cmd' # NoCommand
  BY <1>0 DEF NoCommand
<1>5. tree' = Prepared(command.dst).tree
  BY <1>4, BeginEnds
<1>6. at.status = "found" =>
        /\ at.path \in DOMAIN tree' /\ at.path \in Path
        /\ SameButForCase(at.path, command.dst.names)
  <2> SUFFICES ASSUME at.status = "found"
               PROVE  /\ at.path \in DOMAIN tree' /\ at.path \in Path
                      /\ SameButForCase(at.path, command.dst.names)
    OBVIOUS
  <2>1. at = Resolve(tree', command.dst.names)
    BY <1>5, PreparedResolves
  <2> HIDE DEF at
  <2> QED
    BY <2>1, <1>1, <1>2, <1>3, LookupSound DEF WellFormed
<1>7. cmd' = command => (at.status = "found" => (into <=> command.dst.slash))
  BY <1>1, <1>6 DEF SlashMeansDirectory
<1> HIDE DEF at, name, parent
<1>8. CASE /\ into /\ pc' = "next" /\ cmd' = command /\ job'.dir = at.path
  BY <1>1, <1>6, <1>7, <1>8 DEF ReplaceRight
<1>9. CASE into /\ Sent(command, at.path, name,
                        Resolve(tree', ReplaceFilename(command.dst, name)))
  <2>1. /\ cmd' = command /\ job'.folder = NoPath
        /\ job'.dir = at.path /\ job'.name = name
        /\ Resolve(tree', ReplaceFilename(command.dst, name)).status # "throws"
        /\ job'.old = Resolve(tree', ReplaceFilename(command.dst, name)).path
        /\ pc' = IF job'.old = NoPath THEN "open" ELSE "removeOld"
    BY <1>0, <1>9 DEF Sent
  <2>2. name \in Name
    BY <2>1, <1>2 DEF TypeOK, Transferring
  <2>3. ReplaceFilename(command.dst, name) = Append(command.dst.names, name)
    BY <2>1, <1>7, <1>9 DEF ReplaceFilename
  <2>4. SameButForCase(Destination', ReplaceFilename(command.dst, name))
    BY <2>1, <2>2, <2>3, <1>3, <1>6, <1>9, SameAppend DEF Destination
  <2>5. ReplaceFilename(command.dst, name) \in Path
    BY <2>2, <1>3, ReplaceFilenameType
  <2> QED
    BY <2>1, <2>4, <2>5, <1>0, <1>1, <1>2, SentRight
<1>10. CASE /\ ~ into /\ parent.status = "found"
            /\ Sent(command, parent.path, LastName(command.dst.names),
                    Resolve(tree', command.dst.names))
  <2> DEFINE names == command.dst.names
  <2>1. /\ cmd' = command /\ job'.folder = NoPath
        /\ job'.dir = parent.path /\ job'.name = LastName(names)
        /\ Resolve(tree', names).status # "throws"
        /\ job'.old = Resolve(tree', names).path
        /\ pc' = IF job'.old = NoPath THEN "open" ELSE "removeOld"
    BY <1>0, <1>10 DEF Sent
  <2>2. ~ command.dst.slash
    <3> SUFFICES ASSUME command.dst.slash PROVE FALSE
      OBVIOUS
    <3>1. at.status = "found"
      BY <1>10 DEF parent
    <3> QED
      BY <3>1, <2>1, <1>7, <1>10
  <2>3. names # Root
    <3> SUFFICES ASSUME names = Root PROVE FALSE
      OBVIOUS
    <3>1. at = Found(Root)
      BY <1>3, PreparedFacts DEF at
    <3> QED
      BY <3>1, <1>2, <1>10 DEF Found, WellFormed
  <2>4. Parent(names) \in Path /\ LastName(names) \in Name
        /\ names = Append(Parent(names), LastName(names))
    BY <2>3, <1>3, ParentType
  <2>5. parent.path \in Path /\ SameButForCase(parent.path, Parent(names))
    BY <2>2, <2>4, <1>1, <1>2, <1>10, LookupSound DEF parent, WellFormed
  <2>6. SameButForCase(Destination', names)
    BY <2>1, <2>4, <2>5, SameAppend DEF Destination
  <2> QED
    BY <2>1, <2>6, <1>0, <1>1, <1>2, <1>3, SentRight
<1> QED
  BY <1>4, <1>8, <1>9, <1>10, BeginEnds DEF at, name, parent

\* It knows so of each file of a directory.
LEMMA NextFileRight ==
    ASSUME IndInv, ReplaceRight, NextFile
    PROVE  ReplaceRight'
<1>0. SUFFICES ASSUME cmd'.op = "REPLACE" PROVE ReplaceRight'
  BY DEF ReplaceRight
<1>1. PICK name \in job.todo :
        Transfer(cmd,
                 [job EXCEPT !.source = Append(job.folder, name), !.name = name,
                             !.todo = @ \ {name}],
                 IF cmd.op = "REPLACE"
                 THEN Resolve(tree, ReplaceFilename(cmd.dst, name))
                 ELSE Missing)
  BY DEF NextFile
<1> DEFINE file == [job EXCEPT !.source = Append(job.folder, name), !.name = name,
                               !.todo = @ \ {name}]
           names == ReplaceFilename(cmd.dst, name)
<1>2. /\ tree' = tree /\ WellFormed(tree) /\ job \in Job /\ name \in Name
      /\ cmd \in MoveCommand \cup {NoCommand}
  BY DEF NextFile, IndInv, TypeOK, Job
<1>3. file.folder = job.folder /\ file.dir = job.dir /\ file.name = name
  BY <1>2 DEF Job
<1> HIDE DEF file
<1>4. Transfer(cmd, file, IF cmd.op = "REPLACE" THEN Resolve(tree, names) ELSE Missing)
  BY <1>1 DEF file
<1>5. cmd' = cmd /\ cmd.op = "REPLACE"
  BY <1>0, <1>4, TransferEnds DEF NoCommand
<1>6. /\ Resolve(tree, names).status # "throws"
      /\ job' = [file EXCEPT !.old = Resolve(tree, names).path]
      /\ pc' = IF job'.old = NoPath THEN "open" ELSE "removeOld"
  BY <1>0, <1>4, <1>5, TransferEnds DEF NoCommand
<1>7. /\ job'.folder = job.folder /\ job'.dir = job.dir /\ job'.name = name
      /\ job'.old = Resolve(tree, names).path
  <2>1. "old" \in DOMAIN file
    BY <1>2 DEF file, Job
  <2> QED
    BY <2>1, <1>3, <1>6
<1>8. job.folder # NoPath
  BY <1>2, NoPathIsNoPath DEF Job
<1>9. /\ Unambiguous(tree) /\ cmd.dst.slash /\ job.dir \in Path
      /\ SameButForCase(job.dir, cmd.dst.names)
  BY <1>5, <1>8 DEF ReplaceRight
<1>10. cmd.dst \in Line /\ cmd.dst.names \in Path
  BY <1>2, <1>5 DEF MoveCommand, NoCommand, Line
<1>11. names \in Path /\ names = Append(cmd.dst.names, name)
  BY <1>2, <1>9, <1>10, ReplaceFilenameType DEF ReplaceFilename
<1>12. SameButForCase(Destination', names)
  BY <1>2, <1>7, <1>9, <1>10, <1>11, SameAppend DEF Destination
<1> HIDE DEF names
<1> QED
  BY <1>0, <1>2, <1>5, <1>6, <1>7, <1>9, <1>11, <1>12, SentRight

StartRight ==
    pc = Idle /\ cmd'.op = "REPLACE" =>
      Unambiguous(tree') /\ SlashMeansDirectory(tree', cmd'.dst)

\* No call of it changes that.
LEMMA ReplaceRightInv ==
    ASSUME IndInv, ReplaceRight, [Next]_vars, [StartRight]_vars
    PROVE  ReplaceRight'
<1>0. WellFormed(tree)
  BY DEF IndInv
<1>a. cmd' = NoCommand => ReplaceRight'
  BY DEF NoCommand, ReplaceRight
<1>1. CASE UNCHANGED vars
  BY <1>1 DEF vars, ReplaceRight, Destination
<1>2. ASSUME NEW command \in Command, command.op \in {"MOVE", "REPLACE"}, Begin(command),
             StartRight
      PROVE  ReplaceRight'
  <2>1. command \in MoveCommand /\ pc = Idle
    BY <1>2, MoveOnly DEF Begin
  <2> QED
    BY <2>1, <1>0, <1>2, BeginRight DEF StartRight
<1>3. ASSUME NEW command \in Command, command.op = "DELETE", Delete(command)
      PROVE  ReplaceRight'
  BY <1>a, <1>3, MoveOnly, DeleteEnds
<1>4. ASSUME NEW command \in Command, command.op = "MKDIR", MakeDirectory(command)
      PROVE  ReplaceRight'
  BY <1>a, <1>0, <1>4, MoveOnly, MakeDirectoryEnds
<1>5. CASE EndCommand \/ Kill \/ Rerun
  BY <1>a, <1>5 DEF EndCommand, Kill, Rerun, Complete, Forget
<1>6. CASE RemoveOld
  <2>1. CASE cmd' = NoCommand
    BY <2>1, <1>a
  <2>2. CASE cmd' # NoCommand /\ cmd.op = "REPLACE"
    <3>1. /\ pc = "removeOld" /\ pc' = "open" /\ cmd' = cmd /\ job' = job
          /\ tree' = Without(tree, job.old)
      BY <1>6, <2>2 DEF RemoveOld, Abort, Forget
    <3>2. \A p \in DOMAIN tree : SameButForCase(p, Destination) => p = job.old
      BY <2>2, <3>1, SameSymmetric, SameTransitive DEF ReplaceRight, Unambiguous
    <3>3. \A p \in DOMAIN tree' : ~ SameButForCase(p, Destination)
      BY <3>1, <3>2 DEF Without
    <3> QED
      BY <2>2, <3>1, <3>3, WithoutUnambiguous DEF ReplaceRight, Destination
  <2>3. CASE cmd' # NoCommand /\ cmd.op # "REPLACE"
    BY <1>6, <2>3 DEF RemoveOld, Abort, Forget, ReplaceRight
  <2> QED
    BY <2>1, <2>2, <2>3
<1>7. CASE OpenDestination
  <2>1. \/ cmd' = NoCommand
        \/ /\ pc = "open" /\ pc' = "fill" /\ cmd' = cmd /\ job' = job
           /\ tree' = With(tree, Destination, Partial)
    BY <1>7 DEF OpenDestination, Abort, Forget
  <2> QED
    BY <2>1, <1>a, WithUnambiguous DEF ReplaceRight
<1>8. CASE FillDestination
  <2>1. /\ pc' = "removeSource" /\ cmd' = cmd /\ job' = job
        /\ Destination \in DOMAIN tree
        /\ tree' = With(tree, Destination, tree[job.source])
    BY <1>8 DEF FillDestination, IndInv, SourceOutlivesCopy, IsFile
  <2> QED
    BY <2>1, WithUnambiguous DEF ReplaceRight
<1>9. CASE RemoveSource
  <2>1. /\ pc' = "next" /\ cmd' = cmd /\ job' = job
        /\ tree' = Without(tree, job.source)
    BY <1>9 DEF RemoveSource
  <2> QED
    BY <2>1, WithoutUnambiguous DEF ReplaceRight
<1>10. CASE NextFile
  BY <1>10, NextFileRight
<1>11. StartRight \/ UNCHANGED vars
  OBVIOUS
<1> QED
  BY <1>1, <1>2, <1>3, <1>4, <1>5, <1>6, <1>7, <1>8, <1>9, <1>10, <1>11 DEF Next, Execute

\* So it always removes what is where it writes.
LEMMA ReplacesRight == Spec /\ ReplacesStartRight => []ReplaceRight
<1>1. Init => ReplaceRight
  BY DEF Init, ReplaceRight, NoCommand
<1>2. IndInv /\ ReplaceRight /\ [Next]_vars /\ [StartRight]_vars => ReplaceRight'
  BY ReplaceRightInv
<1> QED
  BY <1>1, <1>2, Inductive, PTL DEF Spec, ReplacesStartRight, StartRight

\* A REPLACE that starts right removes nothing but the entry it then writes.
THEOREM ReplaceTakesItsOwn == Spec /\ ReplacesStartRight => ReplaceRemovesItsDestination
<1> DEFINE Own == cmd.op = "REPLACE" /\ pc = "removeOld" /\ Unambiguous(tree) =>
                    \A p \in DOMAIN tree \ DOMAIN tree' : SameButForCase(p, Destination)
<1>1. IndInv /\ ReplaceRight /\ [Next]_vars => [Own]_vars
  <2> SUFFICES ASSUME ReplaceRight, Next, cmd.op = "REPLACE", pc = "removeOld",
                      NEW p \in DOMAIN tree \ DOMAIN tree'
               PROVE  SameButForCase(p, Destination)
    OBVIOUS
  <2>1. tree' = Without(tree, job.old)
    BY DEF Next, Execute, Begin, Delete, MakeDirectory, NextFile, EndCommand, RemoveOld,
           OpenDestination, FillDestination, RemoveSource, Kill, Rerun, Idle, Ended
  <2>2. p = job.old
    BY <2>1 DEF Without
  <2> QED
    BY <2>2 DEF ReplaceRight
<1> QED
  BY <1>1, Inductive, ReplacesRight, PTL DEF Spec, ReplaceRemovesItsDestination

\* Where every REPLACE starts right, no command but MOVE puts two spellings of
\* a name side by side; DELETE and MKDIR never do.
THEOREM OneSpelling == Spec /\ ReplacesStartRight => NamesStayUnambiguous
<1> DEFINE Stay == cmd.op # "MOVE" /\ cmd'.op # "MOVE" /\ Unambiguous(tree) =>
                     Unambiguous(tree')
<1>1. IndInv /\ ReplaceRight /\ [Next]_vars => [Stay]_vars
  <2> SUFFICES ASSUME IndInv, ReplaceRight, Next, cmd.op # "MOVE", Unambiguous(tree)
               PROVE  Unambiguous(tree')
    OBVIOUS
  <2>0. WellFormed(tree) /\ cmd \in MoveCommand \cup {NoCommand}
    BY DEF IndInv, TypeOK
  <2>1. ASSUME NEW command \in Command, command.op \in {"MOVE", "REPLACE"}, Begin(command)
        PROVE  Unambiguous(tree')
    <3>1. command.dst \in Line
      BY <2>1, MoveOnly DEF MoveCommand
    <3>2. tree' \in {tree, Prepared(command.dst).tree}
      BY <2>1 DEF Begin
    <3> QED
      BY <3>1, <3>2, <2>0, PreparedUnambiguous
  <2>2. ASSUME NEW command \in Command, command.op = "DELETE", Delete(command)
        PROVE  Unambiguous(tree')
    BY <2>2, MoveOnly, DeleteEnds, WithoutUnambiguous
  <2>3. ASSUME NEW command \in Command, command.op = "MKDIR", MakeDirectory(command)
        PROVE  Unambiguous(tree')
    <3>1. command.path.names \in Path
      BY <2>3, MoveOnly DEF OtherCommand, Line
    <3> QED
      BY <3>1, <2>0, <2>3, MakeDirUnambiguous DEF MakeDirectory
  <2>4. CASE NextFile \/ EndCommand \/ Kill \/ Rerun
    BY <2>4 DEF NextFile, EndCommand, Kill, Rerun
  <2>5. CASE RemoveOld
    BY <2>5, WithoutUnambiguous DEF RemoveOld
  <2>6. CASE OpenDestination
    <3>1. cmd.op = "REPLACE" /\ pc = "open"
      BY <2>0, <2>6 DEF OpenDestination, IndInv, TypeOK, Idle, Ended, MoveCommand
    <3> QED
      BY <3>1, <2>6, WithUnambiguous DEF OpenDestination, ReplaceRight
  <2>7. CASE FillDestination
    <3>1. Destination \in DOMAIN tree
      BY <2>7 DEF FillDestination, IndInv, SourceOutlivesCopy, IsFile
    <3> QED
      BY <3>1, <2>7, WithUnambiguous DEF FillDestination
  <2>8. CASE RemoveSource
    BY <2>8, WithoutUnambiguous DEF RemoveSource
  <2> QED
    BY <2>1, <2>2, <2>3, <2>4, <2>5, <2>6, <2>7, <2>8 DEF Next, Execute
<1> QED
  BY <1>1, Inductive, ReplacesRight, PTL DEF Spec, NamesStayUnambiguous

=============================================================================
