--------------------------- MODULE CollectionStore ---------------------------
(***************************************************************************)
(* What MOVE, REPLACE, DELETE and MKDIR promise about the collection when  *)
(* nobody looks inside a command: files are relocated in one piece, files  *)
(* and empty directories are discarded, directories are made, and nothing  *)
(* is ever written over an existing entry.  Only a process that is killed  *)
(* in the middle of a relocation leaves a second copy or a fragment.       *)
(***************************************************************************)
EXTENDS HvscTree

CONSTANTS
    Collection,     \* the trees to start from
    Kills           \* whether a relocation can be interrupted

VARIABLE tree

Init == tree \in Collection

\* The file becomes dir/name; its content and every other entry stay.
Relocate(file, dir, name) ==
    /\ IsFile(tree, file)
    /\ CanCreate(tree, dir, name)
    /\ tree' = Without(With(tree, Append(dir, name), tree[file]), file)

Discard(path) ==
    /\ Exists(tree, path)
    /\ ~ RemoveThrows(tree, path)
    /\ tree' = Without(tree, path)

CreateDirectory(dir, name) ==
    /\ CanCreate(tree, dir, name)
    /\ tree' = With(tree, Append(dir, name), Directory)

\* Where the relocation was going there is now part of the file, or all of it.
Interrupt(file, dir, name) ==
    /\ Kills
    /\ IsFile(tree, file)
    /\ CanCreate(tree, dir, name)
    /\ \E content \in {Partial, tree[file]} :
         tree' = With(tree, Append(dir, name), content)

Next ==
    \/ \E file, dir \in DOMAIN tree, name \in Name : Relocate(file, dir, name)
    \/ \E path \in DOMAIN tree : Discard(path)
    \/ \E dir \in DOMAIN tree, name \in Name : CreateDirectory(dir, name)
    \/ \E file, dir \in DOMAIN tree, name \in Name : Interrupt(file, dir, name)

Spec == Init /\ [][Next]_tree
=============================================================================
