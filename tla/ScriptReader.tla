---------------------------- MODULE ScriptReader ----------------------------
(***************************************************************************)
(* The line-by-line loop of main (Update.cpp) over UpdateReader::NextLine  *)
(* (TextFile.cpp): which lines of a script become which parameters of      *)
(* which command, whatever the commands themselves run into.               *)
(*                                                                         *)
(* A script is a sequence of lines.  A line is a keyword, or "blank" (also *)
(* white space), "comment" (it begins with '#' or ';') or "text", and may  *)
(* be indented.  The loop and the format do not take every line for the    *)
(* same (Seen and Meant).  A parameter is known by the number of its line. *)
(* Whether a path exists and how a command ends are free choices here.     *)
(*                                                                         *)
(* An operator named Wrong... is the definition below it with a mistake a  *)
(* programmer could make: what the properties have to notice.              *)
(***************************************************************************)
EXTENDS Naturals, Sequences, FiniteSets, SequencesExt

\* The keywords string_to_mode knows, NO_MODE included.
CreditMode == {"TITLE", "AUTHOR", "RELEASED"}
ValueMode == {"SPEED", "SONGS", "INITPLAY", "MUSPLAYER", "PLAYSID", "CLOCK",
              "SIDMODEL", "FREEPAGES"}
SidMode == CreditMode \cup ValueMode \cup {"CREDITS", "FIXLOAD", "FLAGS"}
PathMode == {"MOVE", "REPLACE", "DELETE", "MKDIR"}
\* In no case of the switch: each line is a mismatch.
UnusedMode == {"COPYRIGHT", "NO_MODE"}
Mode == SidMode \cup PathMode \cup UnusedMode

\* kind is what the line is behind the white space it may begin with.
ScriptLine == [kind : Mode \cup {"text", "comment", "blank"}, indented : BOOLEAN]

\* What the loop takes a line for: isComment and string_to_mode look at its first
\* character, and NextLine removes white space only at the end.
Seen(l) == IF l.indented /\ l.kind # "blank" THEN "text" ELSE l.kind

CONSTANT Script     \* the scripts to read
ASSUME ScriptAssumption == Script \subseteq Seq(ScriptLine)

VARIABLES
    script,    \* the script being read
    line,      \* how many of its lines have been read (UpdateReader::line)
    buf,       \* the number of the line NextLine delivered last
    mode,      \* the keyword in force
    pc,        \* where the loop is
    left,      \* lines still to read, or to skip, for the current block
    block,     \* the current block: its mode, its lines, and whether it failed
    blocks,    \* the blocks dealt with
    errors     \* errorCount

vars == <<script, line, buf, mode, pc, left, block, blocks, errors>>

NoBlock == [mode |-> "NO_MODE", lines |-> <<>>, failed |-> FALSE]

Init ==
    /\ script \in Script
    /\ line = 0
    /\ buf = 0
    /\ mode = "NO_MODE"
    /\ pc = "top"
    /\ left = 0
    /\ block = NoBlock
    /\ blocks = <<>>
    /\ errors = 0

-----------------------------------------------------------------------------

\* The lines NextLine can still deliver; it skips the others on its way.
Readable == {i \in (line + 1)..Len(script) : Seen(script[i]) \notin {"blank", "comment"}}

\* NextLine returns true with the next such line.
NextLine ==
    /\ Readable # {}
    /\ buf' = CHOOSE i \in Readable : \A j \in Readable : i <= j
    /\ line' = buf'

\* NextLine returns false at the end of the file; the last line stays in the
\* buffer.
NoNextLine ==
    /\ Readable = {}
    /\ line' = Len(script)
    /\ UNCHANGED buf

\* Two credit lines where there are three.
WrongParameterLines(m) ==
    CASE m = "CREDITS" -> 2
      [] m = "FLAGS" -> 4
      [] m = "FIXLOAD" -> 0
      [] OTHER -> 1

\* Parameter lines read after the first one when the file has been found.
ParameterLines(m) ==
    CASE m = "CREDITS" -> 3
      [] m = "FLAGS" -> 4
      [] m = "FIXLOAD" -> 0
      [] OTHER -> 1

\* One line, whatever the keyword; and the line of the path counted as well.
WrongSkippedLines(m) == 1
WrongSkippedBlock(m) == ParameterLines(m) + 1

\* Lines skipped after the first one when it has not (skipLinesAfterError).
SkippedLines(m) ==
    CASE m = "CREDITS" -> 3
      [] m = "FLAGS" -> 4
      [] m = "FIXLOAD" -> 0
      [] OTHER -> 1

\* The block is over and the loop goes on with the next line.
Finish(failed) ==
    /\ blocks' = Append(blocks, [block EXCEPT !.failed = failed])
    /\ block' = NoBlock
    /\ left' = 0
    /\ pc' = "top"

-----------------------------------------------------------------------------

EndOfScript ==
    /\ pc = "top"
    /\ NoNextLine
    /\ pc' = "end"
    /\ UNCHANGED <<script, mode, left, block, blocks, errors>>

\* A line that equals a keyword selects its mode; a line under no keyword, or
\* under one the switch has no case for, is an error; any other starts a block.
ReadTop ==
    /\ pc = "top"
    /\ NextLine
    /\ \/ /\ Seen(script[buf']) \in Mode
          /\ mode' = Seen(script[buf'])
          /\ UNCHANGED <<pc, block, errors>>
       \/ /\ Seen(script[buf']) \notin Mode
          /\ mode \in UnusedMode
          /\ errors' = errors + 1
          /\ UNCHANGED <<mode, pc, block>>
       \/ /\ Seen(script[buf']) \notin Mode
          /\ mode \notin UnusedMode
          /\ pc' = "lookup"
          /\ block' = [mode |-> mode, lines |-> <<buf'>>, failed |-> FALSE]
          /\ UNCHANGED <<mode, errors>>
    /\ UNCHANGED <<script, left, blocks>>

\* getHVSCpath on the first parameter.  A sidtune that is not found has the
\* rest of its block skipped; MOVE and REPLACE read on for the destination.
FoundPath ==
    /\ pc = "lookup"
    /\ left' = CASE mode \in SidMode -> ParameterLines(mode)
                 [] mode \in {"MOVE", "REPLACE"} -> 1
                 [] OTHER -> 0
    /\ pc' = "parameters"
    /\ UNCHANGED <<script, line, buf, mode, block, blocks, errors>>

\* The error is not counted.
WrongPathNotFound ==
    /\ pc = "lookup"
    /\ block' = [block EXCEPT !.failed = TRUE]
    /\ CASE mode \in SidMode -> pc' = "skip" /\ left' = SkippedLines(mode)
         [] mode \in {"MOVE", "REPLACE"} -> pc' = "parameters" /\ left' = 1
         [] OTHER -> pc' = "skip" /\ left' = 0
    /\ UNCHANGED <<script, line, buf, mode, blocks, errors>>

PathNotFound ==
    /\ pc = "lookup"
    /\ errors' = errors + 1
    /\ block' = [block EXCEPT !.failed = TRUE]
    /\ CASE mode \in SidMode -> pc' = "skip" /\ left' = SkippedLines(mode)
         [] mode \in {"MOVE", "REPLACE"} -> pc' = "parameters" /\ left' = 1
         [] OTHER -> pc' = "skip" /\ left' = 0
    /\ UNCHANGED <<script, line, buf, mode, blocks>>

\* A credit line can be too long, which is logged; it is used all the same.
ReadParameter ==
    /\ pc = "parameters"
    /\ left > 0
    /\ NextLine
    /\ block' = [block EXCEPT !.lines = Append(@, buf')]
    /\ left' = left - 1
    /\ \/ UNCHANGED errors
       \/ mode \in CreditMode \cup {"CREDITS"} /\ errors' = errors + 1
    /\ UNCHANGED <<script, mode, pc, blocks>>

\* The premature end is not counted.
WrongMissingParameter ==
    /\ pc = "parameters"
    /\ left > 0
    /\ NoNextLine
    /\ IF mode \in SidMode
       THEN /\ block' = [block EXCEPT !.lines = Append(@, buf)]
            /\ left' = left - 1
            /\ UNCHANGED <<pc, blocks>>
       ELSE Finish(TRUE)
    /\ UNCHANGED <<script, mode, errors>>

\* The script ends inside a block: a sidtune command goes on with the line
\* that is still in the buffer, which can be too long besides; MOVE and
\* REPLACE give up.
MissingParameter ==
    /\ pc = "parameters"
    /\ left > 0
    /\ NoNextLine
    /\ \/ errors' = errors + 1
       \/ mode \in CreditMode \cup {"CREDITS"} /\ errors' = errors + 2
    /\ IF mode \in SidMode
       THEN /\ block' = [block EXCEPT !.lines = Append(@, buf)]
            /\ left' = left - 1
            /\ UNCHANGED <<pc, blocks>>
       ELSE Finish(TRUE)
    /\ UNCHANGED <<script, mode>>

\* The command itself: it succeeds, logs an error (two for a sidtune that can
\* be neither loaded nor written), or ends the process with an exception.
\* Nothing is executed for a source that was not found.
ExecuteBlock ==
    /\ pc = "parameters"
    /\ left = 0
    /\ \/ Finish(block.failed) /\ UNCHANGED errors
       \/ ~ block.failed /\ Finish(TRUE) /\ errors' \in {errors + 1, errors + 2}
       \/ ~ block.failed /\ pc' = "aborted" /\ UNCHANGED <<left, block, blocks, errors>>
    /\ UNCHANGED <<script, line, buf, mode>>

\* The lines are not counted down.
WrongSkipLine ==
    /\ pc = "skip"
    /\ left > 0
    /\ NextLine \/ NoNextLine
    /\ UNCHANGED <<script, mode, pc, left, block, blocks, errors>>

\* The loop at the end of the body; the end of the file is no matter here.
SkipLine ==
    /\ pc = "skip"
    /\ left > 0
    /\ left' = left - 1
    /\ NextLine \/ NoNextLine
    /\ UNCHANGED <<script, mode, pc, block, blocks, errors>>

EndSkip ==
    /\ pc = "skip"
    /\ left = 0
    /\ Finish(TRUE)
    /\ UNCHANGED <<script, line, buf, mode, errors>>

Next ==
    \/ EndOfScript
    \/ ReadTop
    \/ FoundPath
    \/ PathNotFound
    \/ ReadParameter
    \/ MissingParameter
    \/ ExecuteBlock
    \/ SkipLine
    \/ EndSkip

Spec == Init /\ [][Next]_vars

-----------------------------------------------------------------------------
(* The format as HVSC_Update.txt defines it.                               *)

\* The parameter lines a block of each keyword consists of.
DocumentedLines(m) ==
    CASE m = "FLAGS" -> 5
      [] m = "CREDITS" -> 4
      [] m \in {"DELETE", "FIXLOAD", "MKDIR"} -> 1
      [] OTHER -> 2

\* What the format takes a line for outside of a block: white space in front is
\* skipped, and NO_MODE is no keyword.
Meant(l) == IF l.kind = "NO_MODE" THEN "text" ELSE l.kind

\* The line after line i that is none of the given kinds; 0 if there is none.
LineAfter(s, i, kinds) ==
    LET later == {j \in (i + 1)..Len(s) : Meant(s[j]) \notin kinds}
    IN  IF later = {} THEN 0 ELSE CHOOSE j \in later : \A k \in later : j <= k

\* The block of at most n lines that starts at line i; a comment is skipped
\* only outside of a block.
BlockAt(s, i, n) ==
    LET taken[k \in Nat] ==
          IF k <= 1 THEN <<i>>
          ELSE LET next == LineAfter(s, Last(taken[k - 1]), {"blank"})
               IN  IF next = 0 THEN taken[k - 1] ELSE Append(taken[k - 1], next)
    IN  taken[n]

\* The blocks behind line i of a script under a keyword m, in order; lines before
\* the first keyword are none.
BlocksFrom(s) ==
    LET from[i \in 0..Len(s)] ==
          LET top == LineAfter(s, i, {"blank", "comment"})
              taken(m) == BlockAt(s, top, DocumentedLines(m))
          IN  [m \in Mode |->
                 IF top = 0 THEN <<>>
                 ELSE IF Meant(s[top]) \in Mode THEN from[top][Meant(s[top])]
                 ELSE IF m = "NO_MODE" THEN from[top][m]
                 ELSE <<[mode |-> m, lines |-> taken(m)]>> \o from[Last(taken(m))][m]]
    IN  from

DocumentedBlocks(s) == BlocksFrom(s)[0]["NO_MODE"]

\* The lines behind the first one of each block, all of which are parameters.
FurtherLines(documented) ==
    UNION {{documented[i].lines[k] : k \in DOMAIN documented[i].lines \ {1}} :
             i \in DOMAIN documented}

\* Loop and format are known to differ in three things.  The loop knows no
\* COPYRIGHT.  It skips a parameter that begins like a comment.  And where a block
\* or a keyword can begin, it takes comments and keywords that are indented for
\* text, and NO_MODE for a keyword.
Regular(s) ==
    LET documented == DocumentedBlocks(s)
        further == FurtherLines(documented)
    IN  /\ \A i \in DOMAIN documented : documented[i].mode # "COPYRIGHT"
        /\ \A i \in further : Seen(s[i]) # "comment"
        /\ \A i \in DOMAIN s \ further : Seen(s[i]) = Meant(s[i])

-----------------------------------------------------------------------------
(* Properties.                                                             *)

\* Types, and the numbers that lines are known by.
TypeOK ==
    /\ script \in Script
    /\ line \in 0..Len(script)
    /\ buf \in 0..line
    /\ mode \in Mode
    /\ pc \in {"top", "lookup", "parameters", "skip", "end", "aborted"}
    /\ left \in 0..4
    /\ block \in [mode : Mode, lines : Seq(1..Len(script)), failed : BOOLEAN]
    /\ blocks \in Seq([mode : Mode, lines : Seq(1..Len(script)), failed : BOOLEAN])
    /\ errors \in Nat

Started ==
    [i \in DOMAIN blocks |-> <<blocks[i].mode, blocks[i].lines[1]>>]
DocumentedStarts ==
    LET documented == DocumentedBlocks(script)
    IN  [i \in DOMAIN documented |-> <<documented[i].mode, documented[i].lines[1]>>]

\* No missing file, failing command or premature end makes the loop take a
\* line for something it is not: blocks start where the format says, under the
\* keyword that is in force there.
BlocksInSync == Regular(script) => IsPrefix(Started, DocumentedStarts)

\* What a command that succeeded was given are the lines of its block.
ParametersInSync ==
    LET documented == DocumentedBlocks(script)
    IN  Regular(script) =>
          \A i \in DOMAIN blocks :
            ~ blocks[i].failed
                /\ Len(documented[i].lines) = DocumentedLines(documented[i].mode)
              => blocks[i].lines = documented[i].lines

\* Zero errors at the end of the script, which is what makes main archive it,
\* means that every block of it was executed, on exactly its lines.
CleanEndMeansAllDone ==
    pc = "end" /\ errors = 0 /\ Regular(script) =>
      [i \in DOMAIN blocks |-> [mode |-> blocks[i].mode, lines |-> blocks[i].lines]]
        = DocumentedBlocks(script)

\* A block that failed was counted.
FailuresAreCounted == errors >= Cardinality({i \in DOMAIN blocks : blocks[i].failed})
=============================================================================
