---------------------------- MODULE UpdateScript ----------------------------
(***************************************************************************)
(* A script as main reads it: a first time in header mode, for the         *)
(* versions (HvscVersion), and then again from its first line for the      *)
(* commands (ScriptReader), to which the header is nothing but comments,   *)
(* or errors where it is indented: header mode removes all white space.    *)
(***************************************************************************)
EXTENDS HvscVersion, ScriptReader

CONSTANT Files      \* <<t, s>>: the files as header mode sees them, and the script

\* Header mode and command mode see the same lines.
ASSUME FilesAssumption ==
    \A f \in Files :
      /\ f \in Texts \X Script
      /\ \A i \in DOMAIN f[1].script \cap DOMAIN f[2] :
           f[1].script[i].key # "none" => f[2][i].kind = "comment"

ScriptInit ==
    /\ \E f \in Files : texts = f[1] /\ script = f[2]
    /\ HeaderInit
    /\ Init

ReadHeader == HeaderNext /\ UNCHANGED vars

\* Without a header main does not open the script a second time.
ReadCommands == stage = "commands" /\ Next /\ UNCHANGED headerVars

ScriptNext == ReadHeader \/ ReadCommands

\* One thread does all of this and nothing makes it wait.
ScriptSpec ==
    ScriptInit /\ [][ScriptNext]_<<headerVars, vars>>
      /\ WF_<<headerVars, vars>>(ScriptNext)

-----------------------------------------------------------------------------

\* Every script is refused for its header or read to its end, unless a command
\* throws.
ReadingEnds == <>(stage = "exit1" \/ pc \in {"end", "aborted"})
=============================================================================
