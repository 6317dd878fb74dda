------------------------------ MODULE UpdateRun ------------------------------
(***************************************************************************)
(* A run of the tool from main's first prompt to its exit code             *)
(* (Update.cpp), and the runs that follow it on what it has left behind.   *)
(*                                                                         *)
(* Update n takes the collection from version n to version n + 1.  Its     *)
(* script lies in the update directory until every command of it has been  *)
(* executed without an error; it is then copied to DOCUMENTS and removed.  *)
(* What a command does to the collection is the matter of FileCommands;    *)
(* here it takes effect or not, logs an error, or ends the process.        *)
(*                                                                         *)
(* An operator named Wrong... is the definition below it with a mistake a  *)
(* programmer could make: what the properties have to notice.              *)
(***************************************************************************)
EXTENDS Naturals, FiniteSets

CONSTANTS
    LastUpdate,    \* updates are numbered 1..LastUpdate
    Commands,      \* the commands of a script are numbered 1..Commands
    Repeatable,    \* those that can succeed again (MKDIR, changes of sidtunes)
    Headerless,    \* the updates whose script does not tell its versions
    OldRelease,    \* what hv_sids.txt of an initial collection can say
    Prompts,       \* what prompt_user() can return
    May            \* what can go wrong, a subset of Trouble

\* "fail"   a command logs an error or throws when it is first executed
\* "kill"   the process is killed
\* "fault"  a directory is not there, or a removal whose result is ignored fails
\* "trap"   the tool was built with NDEBUG, where DEBUGGER is a trap
\* "repack" the user unpacks an update that has been applied before
Trouble == {"fail", "kill", "fault", "trap", "repack"}

Updates == 1..LastUpdate

\* A documentation file without a release line, or with one that has no number.
NoRelease == 0
BadRelease == LastUpdate + 2
Release == 0..BadRelease

ASSUME SizeAssumption == LastUpdate \in Nat \ {0} /\ Commands \in Nat \ {0}
ASSUME ScriptAssumption == Repeatable \subseteq 1..Commands /\ Headerless \subseteq Updates
ASSUME ReleaseAssumption == OldRelease \subseteq Release
ASSUME ChoiceAssumption == Prompts \subseteq BOOLEAN /\ May \subseteq Trouble

VARIABLES
    scripts,       \* the updates whose script is in the update directory
    archive,       \* the copies of scripts in DOCUMENTS
    errorsFile,    \* the files ErrorsXY.hvs
    release,       \* the version DOCUMENTS/HVSC.txt tells
    oldRelease,    \* the version DOCUMENTS/hv_sids.txt tells
    applied        \* <<n, i>>: command i of update n has taken effect

world == <<scripts, archive, errorsFile, release, oldRelease, applied>>

VARIABLES
    pc,            \* where main is, or how it ended
    prompts,       \* prompt_user(): HVSC_NO_PROMPT is not set
    num,           \* updateNum
    found,         \* HVSCversion.found
    warning,       \* HVSCversion.printWarning
    confirmed,     \* the user has answered the last warning with 'y'
    step,          \* the next command; 0 before the Errors file is open
    errors         \* errorCount

run == <<prompts, num, found, warning, confirmed, step, errors>>
vars == <<scripts, archive, errorsFile, release, oldRelease, applied,
          pc, prompts, num, found, warning, confirmed, step, errors>>

Stopped == {"idle", "exit0", "exit1", "aborted", "trapped", "killed"}
Asking == {"welcome", "askHubbard", "warn"}
Working == {"directories", "version", "script", "hubbard", "header", "check", "open",
            "commands", "archive", "copying", "removeScript", "removeErrors"}

\* A collection of some version, with the scripts that have led there.
Init ==
    /\ \E v \in 1..(LastUpdate + 1) :
         /\ release \in {NoRelease, v, BadRelease}
         /\ archive = [n \in Updates |-> IF n < v THEN "whole" ELSE "none"]
         /\ applied = (1..(v - 1)) \X (1..Commands)
    /\ scripts = {}
    /\ errorsFile = [n \in Updates |-> "none"]
    /\ oldRelease \in OldRelease
    /\ pc = "idle"
    /\ prompts = FALSE
    /\ num = 0
    /\ found = NoRelease
    /\ warning = FALSE
    /\ confirmed = FALSE
    /\ step = 0
    /\ errors = 0

-----------------------------------------------------------------------------
(* The user.                                                               *)

\* An update pack is unpacked into the collection.
Unpack(n) ==
    /\ pc \in Stopped
    /\ n \notin scripts
    /\ "repack" \in May \/ archive[n] = "none"
    /\ scripts' = scripts \cup {n}
    /\ pc' = "idle"
    /\ UNCHANGED <<archive, errorsFile, release, oldRelease, applied, run>>

StartRun ==
    /\ pc \in Stopped
    /\ prompts' \in Prompts
    /\ pc' = IF prompts' THEN "welcome" ELSE "directories"
    /\ num' = 0
    /\ found' = NoRelease
    /\ warning' = FALSE
    /\ confirmed' = FALSE
    /\ step' = 0
    /\ errors' = 0
    /\ UNCHANGED world

\* 'y' or 'Y' goes on; any other answer, or none, ends the run with exit code 0.
Answer(question, next) ==
    /\ pc = question
    /\ pc' \in {next, "exit0"}
    /\ confirmed' = (question = "warn" /\ pc' = next)
    /\ UNCHANGED <<world, prompts, num, found, warning, step, errors>>

AnswerWelcome == Answer("welcome", "directories")
AnswerHubbard == Answer("askHubbard", "header")
AnswerWarning == Answer("warn", "open")

-----------------------------------------------------------------------------
(* What main looks at before it changes anything.                          *)

CheckDirectories ==
    /\ pc = "directories"
    /\ \/ pc' = "version"
       \/ "fault" \in May /\ pc' = "exit1"
    /\ UNCHANGED <<world, run>>

\* The release line of one file, after what the files before it have told.
ReadRelease(file, sofar) ==
    CASE file = NoRelease -> sofar
      [] file = BadRelease -> [sofar EXCEPT !.ok = FALSE]
      [] OTHER -> [ok |-> TRUE, version |-> file]

\* HVSC.txt is read first, and hv_sids.txt after it in any case.
ReadVersion ==
    LET told == ReadRelease(oldRelease,
                  ReadRelease(release, [ok |-> FALSE, version |-> NoRelease]))
    IN  /\ pc = "version"
        /\ found' = told.version
        /\ warning' = ~ told.ok
        /\ pc' = "script"
        /\ UNCHANGED <<world, prompts, num, confirmed, step, errors>>

\* The search runs over its end.
WrongFindScript ==
    /\ pc = "script"
    /\ num' = IF scripts = {} THEN LastUpdate + 1
              ELSE CHOOSE n \in scripts : \A m \in scripts : n <= m
    /\ pc' = "hubbard"
    /\ UNCHANGED <<world, prompts, found, warning, confirmed, step, errors>>

\* The search starts at the highest number.
WrongSearchOrder ==
    /\ pc = "script"
    /\ \/ scripts = {} /\ pc' = "exit1" /\ UNCHANGED num
       \/ num' \in scripts /\ (\A n \in scripts : num' >= n) /\ pc' = "hubbard"
    /\ UNCHANGED <<world, prompts, found, warning, confirmed, step, errors>>

\* The script with the lowest number.
FindScript ==
    /\ pc = "script"
    /\ \/ /\ scripts = {}
          /\ pc' = "exit1"
          /\ UNCHANGED num
       \/ /\ num' \in scripts
          /\ \A n \in scripts : num' <= n
          /\ pc' = "hubbard"
    /\ UNCHANGED <<world, prompts, found, warning, confirmed, step, errors>>

CheckHubbard ==
    /\ pc = "hubbard"
    /\ \/ pc' = "header"
       \/ "fault" \in May /\ prompts /\ pc' = "askHubbard"
    /\ UNCHANGED <<world, run>>

ReadHeader ==
    /\ pc = "header"
    /\ pc' = IF num \in Headerless THEN "exit1" ELSE "check"
    /\ UNCHANGED <<world, run>>

\* Update 1 has no predecessor; a copy of any other one's script is expected
\* in DOCUMENTS.
HavePrevScript == num = 1 \/ archive[num - 1] # "none"

\* The version found is not compared with the one the script starts from.
WrongCheckVersion ==
    /\ pc = "check"
    /\ warning' = (warning \/ ~ HavePrevScript)
    /\ pc' = IF warning' /\ prompts THEN "warn" ELSE "open"
    /\ UNCHANGED <<world, prompts, num, found, confirmed, step, errors>>

CheckVersion ==
    /\ pc = "check"
    /\ warning' = (warning \/ found # num \/ ~ HavePrevScript)
    /\ pc' = IF warning' /\ prompts THEN "warn" ELSE "open"
    /\ UNCHANGED <<world, prompts, num, found, confirmed, step, errors>>

-----------------------------------------------------------------------------
(* The update.                                                             *)

\* The file is opened to append to it.
WrongOpenErrorsFile ==
    /\ pc = "open"
    /\ errorsFile' = [errorsFile EXCEPT ![num] = IF @ = "none" THEN "empty" ELSE @]
    /\ step' = 1
    /\ pc' = "commands"
    /\ UNCHANGED <<scripts, archive, release, oldRelease, applied,
                   prompts, num, found, warning, confirmed, errors>>

\* Opening the Errors file empties it.
OpenErrorsFile ==
    /\ pc = "open"
    /\ errorsFile' = [errorsFile EXCEPT ![num] = "empty"]
    /\ step' = 1
    /\ pc' = "commands"
    /\ UNCHANGED <<scripts, archive, release, oldRelease, applied,
                   prompts, num, found, warning, confirmed, errors>>

\* The effect of the current command; the last one of a script is what brings
\* the new HVSC.txt.
TakeEffect ==
    /\ applied' = applied \cup {<<num, step>>}
    /\ release' = IF step = Commands THEN num + 1 ELSE release

\* What a MOVE or DELETE needs is gone once it has been executed.
CanSucceed == <<num, step>> \notin applied \/ step \in Repeatable
CanFail == "fail" \in May \/ <<num, step>> \in applied

CommandSucceeds ==
    /\ pc = "commands"
    /\ step <= Commands
    /\ CanSucceed
    /\ TakeEffect
    /\ step' = step + 1
    /\ UNCHANGED <<scripts, archive, errorsFile, oldRelease, pc,
                   prompts, num, found, warning, confirmed, errors>>

\* logError.  A credit that is too long is logged and written all the same.
CommandLogsError ==
    /\ pc = "commands"
    /\ step <= Commands
    /\ CanFail
    /\ TakeEffect \/ UNCHANGED <<applied, release>>
    /\ errorsFile' = [errorsFile EXCEPT ![num] = "errors"]
    /\ errors' = errors + 1
    /\ IF "trap" \in May THEN pc' = "trapped" /\ UNCHANGED step
       ELSE step' = step + 1 /\ UNCHANGED pc
    /\ UNCHANGED <<scripts, archive, oldRelease, prompts, num, found, warning, confirmed>>

\* A process that ends within the last command of a script leaves HVSC.txt old,
\* new, or without a release line: cut short, or removed already.
Unfinished ==
    release' \in IF pc = "commands" /\ step = Commands
                THEN {release, num + 1, NoRelease} ELSE {release}

CommandThrows ==
    /\ pc = "commands"
    /\ step <= Commands
    /\ CanFail
    /\ Unfinished
    /\ pc' = "aborted"
    /\ UNCHANGED <<scripts, archive, errorsFile, oldRelease, applied, run>>

\* A script with errors is archived like any other, or ends with exit code 0.
WrongEndOfScript ==
    /\ pc = "commands"
    /\ step > Commands
    /\ pc' = "archive"
    /\ UNCHANGED <<world, run>>

WrongExitCode ==
    /\ pc = "commands"
    /\ step > Commands
    /\ pc' = IF errors = 0 THEN "archive" ELSE "exit0"
    /\ UNCHANGED <<world, run>>

EndOfScript ==
    /\ pc = "commands"
    /\ step > Commands
    /\ pc' = IF errors = 0 THEN "archive" ELSE "exit1"
    /\ UNCHANGED <<world, run>>

\* fs::copy_file throws when DOCUMENTS already has a script of that name.
OpenArchive ==
    /\ pc = "archive"
    /\ IF archive[num] = "none"
       THEN archive' = [archive EXCEPT ![num] = "partial"] /\ pc' = "copying"
       ELSE UNCHANGED archive /\ pc' = "aborted"
    /\ UNCHANGED <<scripts, errorsFile, release, oldRelease, applied, run>>

\* A copy that ends early passes for a whole one.
WrongFillArchive ==
    /\ pc = "copying"
    /\ pc' = "removeScript"
    /\ UNCHANGED <<world, run>>

FillArchive ==
    /\ pc = "copying"
    /\ archive' = [archive EXCEPT ![num] = "whole"]
    /\ pc' = "removeScript"
    /\ UNCHANGED <<scripts, errorsFile, release, oldRelease, applied, run>>

\* The error codes of both removals are ignored.
RemoveScript ==
    /\ pc = "removeScript"
    /\ \/ scripts' = scripts \ {num}
       \/ "fault" \in May /\ UNCHANGED scripts
    /\ pc' = "removeErrors"
    /\ UNCHANGED <<archive, errorsFile, release, oldRelease, applied, run>>

RemoveErrorsFile ==
    /\ pc = "removeErrors"
    /\ \/ errorsFile' = [errorsFile EXCEPT ![num] = "none"]
       \/ "fault" \in May /\ UNCHANGED errorsFile
    /\ pc' = "exit0"
    /\ UNCHANGED <<scripts, archive, release, oldRelease, applied, run>>

Kill ==
    /\ "kill" \in May
    /\ pc \notin Stopped
    /\ Unfinished
    /\ pc' = "killed"
    /\ UNCHANGED <<scripts, archive, errorsFile, oldRelease, applied, run>>

-----------------------------------------------------------------------------

Process ==
    \/ CheckDirectories
    \/ ReadVersion
    \/ FindScript
    \/ CheckHubbard
    \/ ReadHeader
    \/ CheckVersion
    \/ OpenErrorsFile
    \/ CommandSucceeds
    \/ CommandLogsError
    \/ CommandThrows
    \/ EndOfScript
    \/ OpenArchive
    \/ FillArchive
    \/ RemoveScript
    \/ RemoveErrorsFile

User ==
    \/ \E n \in Updates : Unpack(n)
    \/ StartRun
    \/ AnswerWelcome
    \/ AnswerHubbard
    \/ AnswerWarning

Next == Process \/ User \/ Kill

\* The process never waits for anything but an answer; the user owes nothing.
Safety == Init /\ [][Next]_vars
Spec == Safety /\ WF_vars(Process)

-----------------------------------------------------------------------------
(* Properties.                                                             *)

TypeOK ==
    /\ scripts \subseteq Updates
    /\ archive \in [Updates -> {"none", "partial", "whole"}]
    /\ errorsFile \in [Updates -> {"none", "empty", "errors"}]
    /\ release \in Release
    /\ oldRelease \in Release
    /\ applied \subseteq Updates \X (1..Commands)
    /\ pc \in Stopped \cup Asking \cup Working
    /\ prompts \in BOOLEAN
    /\ num \in 0..LastUpdate
    /\ found \in Release
    /\ warning \in BOOLEAN
    /\ confirmed \in BOOLEAN
    /\ step \in 0..(Commands + 1)
    /\ errors \in Nat

AllApplied(n) == \A i \in 1..Commands : <<n, i>> \in applied

\* Whatever a run fails at and wherever it is killed, the script of an update
\* is in the update directory or, complete, in DOCUMENTS.
ScriptIsNeverLost ==
    [][\A n \in Updates :
         n \in scripts \/ archive[n] = "whole" =>
           n \in scripts' \/ archive'[n] = "whole"]_vars

\* A script in DOCUMENTS, which is what the next update relies on, means that
\* each command of that update has taken effect, over however many runs.
ArchivedMeansApplied == \A n \in Updates : archive[n] # "none" => AllApplied(n)

\* A run that asks questions executes nothing on a collection of another
\* version, or on one the previous update was not completed on, unless the
\* user has confirmed it.
WrongCollectionIsConfirmed ==
    pc = "commands" /\ prompts /\ ~ confirmed =>
      /\ step = 1 /\ oldRelease = NoRelease => release = num
      /\ num > 1 => AllApplied(num - 1)

\* Without prompts exit code 0 means that the update has been completed, which
\* is what test.py builds the next one on.
ExitZeroMeansDone ==
    pc = "exit0" /\ ~ prompts =>
      /\ AllApplied(num)
      /\ archive[num] = "whole"
      /\ num \in scripts => "fault" \in May

\* An Errors file with errors in it lies beside the script it is about; a run
\* that got to its commands leaves such a file if it ends with exit code 1 or in
\* the trap, and none if it ends with 0.  Of one that was killed or ended by an
\* exception the file tells nothing.
ErrorsFileTellsTheOutcome ==
    /\ \A n \in Updates : errorsFile[n] = "errors" => n \in scripts
    /\ step > 0 /\ pc \in {"exit1", "trapped"} => errorsFile[num] = "errors"
    /\ step > 0 /\ pc = "exit0" => errorsFile[num] # "errors"

\* A run gets to its end, or to a question.
RunEnds == pc \in Working ~> pc \in Stopped \cup Asking

\* Something goes wrong that did not have to.
Mishap ==
    \/ Kill
    \/ CheckDirectories /\ pc' = "exit1"
    \/ CanSucceed /\ (CommandLogsError \/ CommandThrows)
    \/ RemoveScript /\ UNCHANGED scripts

\* Between two runs, no run can complete update n: it, or one before it, has
\* no header, is in DOCUMENTS, or has had a command executed that only works once.
Stuck(n) ==
    /\ pc \in Stopped
    /\ \E m \in scripts :
         /\ m <= n
         /\ \/ m \in Headerless
            \/ archive[m] # "none"
            \/ \E i \in 1..Commands \ Repeatable : <<m, i>> \in applied

\* Started again and again without prompts, as test.py does, the tool completes
\* every update that was unpacked, however many lie there at once and whatever
\* went wrong before; only a script of which it has done a part can stop it.
UpdatesComplete ==
    WF_vars(StartRun) /\ <>[](~ prompts) /\ <>[][~ Mishap]_vars =>
      \A n \in Updates :
        n \in scripts ~> Stuck(n) \/ (n \notin scripts /\ archive[n] = "whole")

-----------------------------------------------------------------------------
(* What the documentation says and the code does not do.                   *)

\* HVSC_Update.txt: if DOCUMENTS already has the script, the tool quits
\* immediately with an error.
AppliedUpdateIsRefused == pc = "commands" => archive[num] = "none"

\* HVSC_Update.txt: the errors of an update are logged (all of them, which is
\* what main counts them for).
ErrorsDoNotEndTheRun == pc # "trapped"
=============================================================================
