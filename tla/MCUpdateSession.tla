--------------------------- MODULE MCUpdateSession ---------------------------
(***************************************************************************)
(* An update for UpdateSession: the pack has a directory "n" of new tunes, *)
(* a single new tune and a new HVSC.txt; the collection has a directory    *)
(* "d" with one tune, which is also what the scripts change or delete.     *)
(***************************************************************************)
EXTENDS UpdateSession

CONSTANTS t1, t2, t3, t4, e3, text, old, new

MCName == {"u", "s", "n", "x", "a", "b", "h", "D", "d"}
MCLower == [name \in MCName |-> name]
MCListing ==
    [S \in SUBSET MCName |->
       SelectSeq(<<"x", "a", "b", "h", "s", "u", "n", "D", "d">>, LAMBDA name : name \in S)]
MCTune == {t1, t2, t3, t4, e3, text, old, new}
MCEdited == [t \in {t1, t2, t3, t4, e3} |-> IF t = t3 THEN e3 ELSE t]

MCOriginal ==
    [p \in {<<>>, <<"u">>, <<"D">>, <<"D", "h">>, <<"d">>, <<"d", "x">>} |->
       CASE p = <<"D", "h">> -> old
         [] p = <<"d", "x">> -> t3
         [] OTHER -> Directory]

MCPack ==
    [p \in {<<"u", "s">>, <<"u", "h">>, <<"u", "b">>, <<"u", "n">>,
            <<"u", "n", "x">>, <<"u", "n", "a">>} |->
       CASE p = <<"u", "s">> -> text
         [] p = <<"u", "h">> -> new
         [] p = <<"u", "b">> -> t4
         [] p = <<"u", "n", "x">> -> t1
         [] p = <<"u", "n", "a">> -> t2
         [] OTHER -> Directory]

MCScriptPath == <<"u", "s">>
MCArchiveDir == <<"D">>
MCReleasePath == <<"D", "h">>

Plain(names) == [names |-> names, slash |-> FALSE]
Slash(names) == [names |-> names, slash |-> TRUE]
Move(src, dst) == [op |-> "MOVE", src |-> src, dst |-> dst]
Replace(src, dst) == [op |-> "REPLACE", src |-> src, dst |-> dst]
Other(o, line) == [op |-> o, path |-> line]

MCFirst == {Other("EDIT", Plain(<<"d", "x">>)), Other("DELETE", Plain(<<"d", "x">>)),
            Other("MKDIR", Slash(<<"d", "n">>))}
MCSecond == {Move(Slash(<<"u", "n">>), Slash(<<"d">>)),
             Replace(Slash(<<"u", "n">>), Slash(<<"d">>)),
             Replace(Slash(<<"u", "n">>), Slash(<<"d", "n">>))}
MCThird == {Move(Plain(<<"u", "b">>), Slash(<<"d">>)),
            Replace(Plain(<<"u", "b">>), Plain(<<"d", "x">>)),
            Other("DELETE", Slash(<<"u", "n">>))}
MCLast == Replace(Plain(<<"u", "h">>), Slash(<<"D">>))

\* The directories, and in each of them the names that can come into it.
MCEntries ==
    DOMAIN MCOriginal \cup DOMAIN MCPack \cup {<<"D", "s">>}
      \cup {Append(dir, n) : dir \in {<<"d">>, <<"d", "n">>}, n \in {"x", "a", "b", "n"}}

\* A command can be executed as documented.
Fits(t, command) ==
    CASE command.op = "MOVE" ->
           /\ Exists(t, command.src.names)
           /\ \A m \in Transfers(t, command) : ~ Exists(t, m[2])
      [] command.op = "REPLACE" -> Exists(t, command.src.names)
      [] command.op = "DELETE" ->
           Exists(t, command.path.names) /\ ~ RemoveThrows(t, command.path.names)
      [] command.op = "MKDIR" -> TRUE
      [] command.op = "EDIT" -> IsFile(t, command.path.names)

MCStart ==
    [p \in DOMAIN MCOriginal \cup DOMAIN MCPack |->
       IF p \in DOMAIN MCPack THEN MCPack[p] ELSE MCOriginal[p]]

MCScripts ==
    {<<c[1], c[2], c[3], MCLast>> : c \in
       {c \in MCFirst \X MCSecond \X MCThird :
          /\ Fits(MCStart, c[1])
          /\ Fits(Effect(MCStart, c[1]), c[2])
          /\ Fits(Effect(Effect(MCStart, c[1]), c[2]), c[3])}}
=============================================================================
