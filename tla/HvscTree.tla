------------------------------ MODULE HvscTree ------------------------------
(***************************************************************************)
(* The collection as the update tool sees it: a file tree below the HVSC   *)
(* root (".." of the update directory the tool runs in), the               *)
(* case-insensitive path lookup of helpers.cpp and the std::filesystem     *)
(* calls the tool makes.                                                   *)
(*                                                                         *)
(* A path is the sequence of the entry names below the root; a tree maps   *)
(* each existing path to Directory or to the content of the file there.    *)
(* The tree is that of a case-sensitive file system.  A line of the script *)
(* that names a path is a record: the names, and whether a slash ends it.  *)
(*                                                                         *)
(* An operator named Wrong... is the definition below it with a mistake a  *)
(* programmer could make: what the properties have to notice.              *)
(***************************************************************************)
EXTENDS Naturals, Sequences, FiniteSets

CONSTANTS
    Name,        \* the names directory entries can have
    Lower,       \* Lower[n] is the lower-case form of the name n
    Listing,     \* Listing[S]: the order an iterator delivers the names of S in
    Tune,        \* what a sidtune file can contain
    Partial,     \* what a file holds while it is being copied
    Directory    \* marks a path as a directory

ASSUME LowerAssumption == Lower \in [Name -> Name]

ASSUME NameAssumption == "no path" \notin Name

ASSUME KindAssumption ==
    /\ Partial \notin Tune
    /\ Directory \notin Tune
    /\ Directory # Partial

\* A directory iterator delivers every entry, and each one once.
ASSUME ListingAssumption ==
    \A S \in SUBSET Name :
      /\ Listing[S] \in Seq(S)
      /\ \A n \in S : \E i \in 1..Len(Listing[S]) : Listing[S][i] = n
      /\ \A i, j \in 1..Len(Listing[S]) : Listing[S][i] = Listing[S][j] => i = j

Path == Seq(Name)
Line == [names : Path, slash : BOOLEAN]

Root == <<>>
NoPath == <<"no path">>

\* The path without its last name: fs::path::parent_path of an entry.
Parent(path) == SubSeq(path, 1, Len(path) - 1)
LastName(path) == path[Len(path)]

-----------------------------------------------------------------------------
(* The file system.                                                        *)

Exists(tree, path) == path \in DOMAIN tree
IsDirectory(tree, path) == path \in DOMAIN tree /\ tree[path] = Directory
IsFile(tree, path) == path \in DOMAIN tree /\ tree[path] # Directory
Children(tree, dir) == {n \in Name : Append(dir, n) \in DOMAIN tree}

\* The files of a directory, as the loop over the source of MOVE takes them.
FileNames(tree, dir) == {n \in Name : IsFile(tree, Append(dir, n))}

\* An entry can be made where its directory exists and its name is free.
CanCreate(tree, dir, name) ==
    IsDirectory(tree, dir) /\ ~ Exists(tree, Append(dir, name))

\* fs::remove_all in the place of fs::remove.
WrongRemoveThrows(tree, path) == path = Root

\* fs::remove takes a file or an empty directory; it throws on the root of
\* the collection (never empty: the tool runs below it) and on any other
\* directory with entries, and returns false where nothing exists.
RemoveThrows(tree, path) ==
    IsDirectory(tree, path) /\ (path = Root \/ Children(tree, path) # {})

With(tree, path, node) ==
    [p \in DOMAIN tree \cup {path} |-> IF p = path THEN node ELSE tree[p]]
Without(tree, path) == [p \in DOMAIN tree \ {path} |-> tree[p]]

\* What makes a tree a tree: each entry is a file or a directory, and lies in
\* a directory.
WellFormed(tree) ==
    /\ tree \in [DOMAIN tree -> Tune \cup {Partial, Directory}]
    /\ DOMAIN tree \subseteq Path
    /\ IsDirectory(tree, Root)
    /\ \A p \in DOMAIN tree \ {Root} : IsDirectory(tree, Parent(p))

SameButForCase(p, q) ==
    /\ Len(p) = Len(q)
    /\ \A i \in 1..Len(p) : Lower[p[i]] = Lower[q[i]]

\* The collection as scripts assume it: a name has one spelling at most.
Unambiguous(tree) == \A p, q \in DOMAIN tree : SameButForCase(p, q) => p = q

-----------------------------------------------------------------------------
(* getHVSCpath: each name of the line is looked up, ignoring case, in the  *)
(* directory found so far.  EVERY entry that matches is appended, so two   *)
(* entries that differ only in case give a path nobody asked for.          *)

Found(path) == [status |-> "found", path |-> path]
Missing == [status |-> "missing", path |-> NoPath]
Throws == [status |-> "throws", path |-> NoPath]

\* Names are compared without to_lower.
WrongMatches(tree, dir, name) == {n \in Children(tree, dir) : n = name}

Matches(tree, dir, name) == {n \in Children(tree, dir) : Lower[n] = Lower[name]}

\* Iterating over a file throws; a path made of two matches usually names
\* nothing, which ends the lookup without a result.
LookupName(tree, dir, name) ==
    IF ~ Exists(tree, dir) THEN Missing
    ELSE IF ~ IsDirectory(tree, dir) THEN Throws
    ELSE IF Matches(tree, dir, name) = {} THEN Missing
    ELSE Found(dir \o Listing[Matches(tree, dir, name)])

Resolve(tree, names) ==
    LET walk[i \in 0..Len(names)] ==
          IF i = 0 THEN Found(Root)
          ELSE IF walk[i - 1].status # "found" THEN walk[i - 1]
          ELSE LookupName(tree, walk[i - 1].path, names[i])
    IN  walk[Len(names)]

-----------------------------------------------------------------------------
(* makeHVSCdir: the last directory of a path, made when only it is absent. *)
(* The result says what happened to the tree and whether errors were       *)
(* logged; "throws" is an exception nobody catches.                        *)

MakeDir(tree, names) ==
    LET at == Resolve(tree, names)
        parent == Resolve(tree, Parent(names))
        Logged == [status |-> "logged", tree |-> tree]
        Escapes == [status |-> "throws", tree |-> tree]
        Made(t) == [status |-> "made", tree |-> t]
    IN  CASE at.status = "throws" -> Escapes
          [] at.status = "found" ->
               IF IsDirectory(tree, at.path) THEN Made(tree) ELSE Logged
          [] at.status = "missing" ->
               IF parent.status = "throws" THEN Escapes
               ELSE IF parent.status = "missing" THEN Logged
               ELSE IF CanCreate(tree, parent.path, LastName(names))
               THEN Made(With(tree, Append(parent.path, LastName(names)), Directory))
               ELSE IF IsDirectory(tree, Append(parent.path, LastName(names)))
               THEN Logged
               ELSE Escapes

=============================================================================
