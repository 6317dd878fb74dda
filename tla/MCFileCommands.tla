--------------------------- MODULE MCFileCommands ---------------------------
(***************************************************************************)
(* Small collections and path lines for FileCommands: an update directory  *)
(* "u" with new files, a directory "d" of the collection, and the names    *)
(* "x" and "X" that differ only in case.                                   *)
(***************************************************************************)
EXTENDS FileCommands

CONSTANTS t1, t2, t3

MCName == {"d", "u", "x", "X", "y"}
MCLower == [n \in MCName |-> IF n = "X" THEN "x" ELSE n]
MCListing ==
    [S \in SUBSET MCName |-> SelectSeq(<<"x", "u", "X", "y", "d">>, LAMBDA n : n \in S)]
MCTune == {t1, t2, t3}

Dirs(paths) == [p \in paths |-> Directory]

\* New files "x" and "y" for a collection that has an older "X".
MCUpdate ==
    [p \in {<<>>, <<"u">>, <<"u", "x">>, <<"u", "y">>, <<"d">>, <<"d", "X">>} |->
        CASE p = <<"u", "x">> -> t1
          [] p = <<"u", "y">> -> t2
          [] p = <<"d", "X">> -> t3
          [] OTHER -> Directory]

MCCollection == {[p \in DOMAIN MCUpdate \ {<<"u", "y">>} |-> MCUpdate[p]]}
NoSlashCollection == {MCUpdate}

Plain(names) == [names |-> names, slash |-> FALSE]
Slash(names) == [names |-> names, slash |-> TRUE]

Moves(ops, sources, targets) == [op : ops, src : sources, dst : targets]
Others(op, lines) == [op : {op}, path : lines]

FileLine == {Plain(<<"u", "x">>), Plain(<<"d", "x">>), Plain(<<"d", "X">>)}
DirLine == {Slash(<<"u">>), Slash(<<"d">>), Slash(<<"d", "u">>)}

\* Every directory is written with a slash at its end.
MCCommand ==
    Moves({"MOVE", "REPLACE"},
          (FileLine \ {Plain(<<"d", "x">>)}) \cup DirLine, (FileLine \cup DirLine) \ {Slash(<<"u">>)})
      \cup Others("DELETE", {Plain(<<"u", "x">>), Plain(<<"d", "x">>), Slash(<<"d">>), Slash(<<"d", "u">>)})
      \cup Others("MKDIR", {Slash(<<"d">>), Slash(<<"d", "u">>)})

\* A MOVE onto an existing file, a DELETE of a directory that is not empty.
ErrorCommand ==
    Moves({"MOVE"}, {Plain(<<"u", "x">>)}, {Plain(<<"d", "X">>)})
      \cup Others("DELETE", {Slash(<<"d">>)})

\* An existing directory named without its slash, and a file above it.
NoSlashCommand ==
    Moves({"MOVE"}, {Plain(<<"u", "x">>)}, {Plain(<<"x">>)})
      \cup Moves({"REPLACE"}, {Plain(<<"u", "y">>)}, {Plain(<<"d">>), Slash(<<"d">>)})
      \cup Moves({"MOVE"}, {Plain(<<"x">>)}, {Plain(<<"y">>)})
=============================================================================
