--------------------------- MODULE UpdateRunProofs ---------------------------
(***************************************************************************)
(* Proofs about UpdateRun, for every number of updates and of commands and *)
(* for whatever can go wrong.                                              *)
(***************************************************************************)
EXTENDS UpdateRun, TLAPS

\* From the choice of a script to its removal.
Selected == {"hubbard", "askHubbard", "header", "check", "warn", "open",
             "commands", "archive", "copying", "removeScript"}

\* Once every command has been executed without an error.
CleaningUp == {"archive", "copying", "removeScript", "removeErrors"}

Before == {"welcome", "askHubbard", "warn", "directories", "version", "script",
           "hubbard", "header", "check", "open"}

\* The script of the update is there until the tool removes it.
ScriptPresent ==
    /\ pc \in Selected => num \in scripts
    /\ pc \in Selected \cup CleaningUp => num \in Updates

\* Commands are executed in order, and one that logged nothing had its effect.
CommandsInOrder ==
    /\ pc \in Before => step = 0 /\ errors = 0
    /\ pc = "commands" => step \in 1..(Commands + 1)
    /\ pc = "commands" /\ errors = 0 => \A i \in 1..(step - 1) : <<num, i>> \in applied
    /\ pc \in CleaningUp => AllApplied(num)

ArchiveInOrder ==
    /\ pc = "copying" => archive[num] = "partial"
    /\ pc \in {"removeScript", "removeErrors"} => archive[num] = "whole"
    /\ pc = "removeErrors" /\ num \in scripts => "fault" \in May

\* The Errors file holds what errorCount counts.
ErrorsFileFilled ==
    /\ pc = "commands" => (errors = 0 <=> errorsFile[num] # "errors")
    /\ pc \in CleaningUp => errorsFile[num] # "errors"

\* No warning means that the version was read, and matched.
VersionKnown ==
    /\ pc \in {"script", "hubbard", "askHubbard", "header", "check"}
         /\ oldRelease = NoRelease /\ ~ warning => found = release
    /\ pc \in {"open", "commands"} /\ prompts /\ ~ confirmed =>
         /\ ~ warning
         /\ num > 1 => AllApplied(num - 1)
         /\ pc = "open" /\ oldRelease = NoRelease => release = num
         /\ pc = "commands" /\ step = 1 /\ oldRelease = NoRelease => release = num

\* Only a run that prompts can be at a question.
QuestionsAreAsked == pc \in Asking => prompts

Inv ==
    /\ TypeOK
    /\ ArchivedMeansApplied
    /\ ErrorsFileTellsTheOutcome
    /\ ExitZeroMeansDone
    /\ ScriptPresent
    /\ CommandsInOrder
    /\ ArchiveInOrder
    /\ ErrorsFileFilled
    /\ VersionKnown
    /\ QuestionsAreAsked

USE SizeAssumption, ScriptAssumption, ReleaseAssumption, ChoiceAssumption

\* Nothing has been run, archived or logged.
LEMMA InitInv == Init => Inv
<1> SUFFICES ASSUME Init PROVE Inv
  OBVIOUS
<1> PICK v \in 1..(LastUpdate + 1) :
      /\ release \in {NoRelease, v, BadRelease}
      /\ archive = [n \in Updates |-> IF n < v THEN "whole" ELSE "none"]
      /\ applied = (1..(v - 1)) \X (1..Commands)
  BY DEF Init
<1>1. TypeOK
  <2>1. applied \subseteq Updates \X (1..Commands)
    BY DEF Updates
  <2>2. archive \in [Updates -> {"none", "partial", "whole"}]
    BY DEF Updates
  <2>3. release \in Release /\ oldRelease \in Release
    BY DEF Init, Release, NoRelease, BadRelease
  <2>4. scripts \subseteq Updates /\ errorsFile \in [Updates -> {"none", "empty", "errors"}]
    BY DEF Init
  <2>5. num \in 0..LastUpdate /\ found \in Release /\ step \in 0..(Commands + 1) /\ errors \in Nat
    BY DEF Init, Release, NoRelease, BadRelease
  <2>6. prompts \in BOOLEAN /\ warning \in BOOLEAN /\ confirmed \in BOOLEAN
    BY Zenon DEF Init
  <2>7. pc \in Stopped
    BY DEF Init, Stopped
  <2> QED
    BY <2>1, <2>2, <2>3, <2>4, <2>5, <2>6, <2>7, Zenon DEF TypeOK
<1>2. ArchivedMeansApplied
  BY DEF Init, ArchivedMeansApplied, AllApplied, Updates
<1> QED
  BY <1>1, <1>2 DEF Init, Inv, ErrorsFileTellsTheOutcome, ExitZeroMeansDone,
    ScriptPresent, CommandsInOrder, ArchiveInOrder, ErrorsFileFilled, VersionKnown,
    QuestionsAreAsked, Selected, CleaningUp, Before, Asking

\* All the state predicates the invariant is made of.
LEMMA StepInv == Inv /\ [Next]_vars => Inv'
<1> SUFFICES ASSUME Inv, [Next]_vars PROVE Inv'
  OBVIOUS
<1> USE DEF Inv, TypeOK, ArchivedMeansApplied, ErrorsFileTellsTheOutcome,
    ExitZeroMeansDone, ScriptPresent, CommandsInOrder, ArchiveInOrder,
    ErrorsFileFilled, VersionKnown, QuestionsAreAsked, AllApplied, Selected,
    CleaningUp, Before, Stopped, Asking, Working, Updates, world, run
<1>1. CASE UNCHANGED vars
  BY <1>1 DEF vars
<1>2. ASSUME NEW n \in Updates, Unpack(n) PROVE Inv'
  <2>1. TypeOK'
    BY <1>2 DEF Unpack
  <2>2. ArchivedMeansApplied'
    BY <1>2 DEF Unpack
  <2>3. ErrorsFileTellsTheOutcome'
    BY <1>2 DEF Unpack
  <2>4. ExitZeroMeansDone'
    BY <1>2 DEF Unpack
  <2>5. ScriptPresent'
    BY <1>2 DEF Unpack
  <2>6. CommandsInOrder'
    BY <1>2 DEF Unpack
  <2>7. ArchiveInOrder'
    BY <1>2 DEF Unpack
  <2>8. ErrorsFileFilled'
    BY <1>2 DEF Unpack
  <2>9. VersionKnown'
    BY <1>2 DEF Unpack
  <2>10. QuestionsAreAsked'
    BY <1>2 DEF Unpack
  <2> QED
    BY <2>1, <2>2, <2>3, <2>4, <2>5, <2>6, <2>7, <2>8, <2>9, <2>10
<1>3. CASE StartRun
  <2>1. TypeOK'
    <3>1. prompts' \in BOOLEAN
      BY <1>3 DEF StartRun
    <3>2. pc' \in {"welcome", "directories"}
      BY <1>3, ZenonT(30) DEF StartRun
    <3>3. num' \in 0..LastUpdate /\ found' \in Release /\ step' \in 0..(Commands + 1)
          /\ errors' \in Nat
      BY <1>3 DEF StartRun, Release, NoRelease, BadRelease
    <3>4. warning' \in BOOLEAN /\ confirmed' \in BOOLEAN
      BY <1>3, Zenon DEF StartRun
    <3> QED
      BY <1>3, <3>1, <3>2, <3>3, <3>4 DEF StartRun
  <2>2. ArchivedMeansApplied'
    BY <1>3 DEF StartRun, Release, NoRelease, BadRelease
  <2>3. ErrorsFileTellsTheOutcome'
    BY <1>3 DEF StartRun, Release, NoRelease, BadRelease
  <2>4. ExitZeroMeansDone'
    BY <1>3 DEF StartRun, Release, NoRelease, BadRelease
  <2>5. ScriptPresent'
    BY <1>3 DEF StartRun, Release, NoRelease, BadRelease
  <2>6. CommandsInOrder'
    BY <1>3 DEF StartRun, Release, NoRelease, BadRelease
  <2>7. ArchiveInOrder'
    BY <1>3 DEF StartRun, Release, NoRelease, BadRelease
  <2>8. ErrorsFileFilled'
    BY <1>3 DEF StartRun, Release, NoRelease, BadRelease
  <2>9. VersionKnown'
    BY <1>3 DEF StartRun, Release, NoRelease, BadRelease
  <2>10. QuestionsAreAsked'
    BY <1>3 DEF StartRun, Release, NoRelease, BadRelease
  <2> QED
    BY <2>1, <2>2, <2>3, <2>4, <2>5, <2>6, <2>7, <2>8, <2>9, <2>10
<1>4. CASE AnswerWelcome
  BY <1>4 DEF AnswerWelcome, Answer
<1>5. CASE AnswerHubbard
  BY <1>5 DEF AnswerHubbard, Answer
<1>6. CASE AnswerWarning
  <2>1. TypeOK'
    BY <1>6 DEF AnswerWarning, Answer
  <2>2. ArchivedMeansApplied'
    BY <1>6 DEF AnswerWarning, Answer
  <2>3. ErrorsFileTellsTheOutcome'
    BY <1>6 DEF AnswerWarning, Answer
  <2>4. ExitZeroMeansDone'
    BY <1>6 DEF AnswerWarning, Answer
  <2>5. ScriptPresent'
    BY <1>6 DEF AnswerWarning, Answer
  <2>6. CommandsInOrder'
    BY <1>6 DEF AnswerWarning, Answer
  <2>7. ArchiveInOrder'
    BY <1>6 DEF AnswerWarning, Answer
  <2>8. ErrorsFileFilled'
    BY <1>6 DEF AnswerWarning, Answer
  <2>9. VersionKnown'
    BY <1>6 DEF AnswerWarning, Answer
  <2>10. QuestionsAreAsked'
    BY <1>6 DEF AnswerWarning, Answer
  <2> QED
    BY <2>1, <2>2, <2>3, <2>4, <2>5, <2>6, <2>7, <2>8, <2>9, <2>10
<1>7. CASE CheckDirectories
  BY <1>7 DEF CheckDirectories
<1>8. CASE ReadVersion
  <2>1. TypeOK'
    <3>1. found' \in Release
      BY <1>8 DEF ReadVersion, ReadRelease, Release, NoRelease, BadRelease
    <3>2. warning' \in BOOLEAN
      BY <1>8, ZenonT(30) DEF ReadVersion
    <3> QED
      BY <1>8, <3>1, <3>2 DEF ReadVersion
  <2>2. ArchivedMeansApplied'
    BY <1>8 DEF ReadVersion, ReadRelease, Release, NoRelease, BadRelease
  <2>3. ErrorsFileTellsTheOutcome'
    BY <1>8 DEF ReadVersion, ReadRelease, Release, NoRelease, BadRelease
  <2>4. ExitZeroMeansDone'
    BY <1>8 DEF ReadVersion, ReadRelease, Release, NoRelease, BadRelease
  <2>5. ScriptPresent'
    BY <1>8 DEF ReadVersion, ReadRelease, Release, NoRelease, BadRelease
  <2>6. CommandsInOrder'
    BY <1>8 DEF ReadVersion, ReadRelease, Release, NoRelease, BadRelease
  <2>7. ArchiveInOrder'
    BY <1>8 DEF ReadVersion, ReadRelease, Release, NoRelease, BadRelease
  <2>8. ErrorsFileFilled'
    BY <1>8 DEF ReadVersion, ReadRelease, Release, NoRelease, BadRelease
  <2>9. VersionKnown'
    BY <1>8 DEF ReadVersion, ReadRelease, Release, NoRelease, BadRelease
  <2>10. QuestionsAreAsked'
    BY <1>8 DEF ReadVersion, ReadRelease, Release, NoRelease, BadRelease
  <2> QED
    BY <2>1, <2>2, <2>3, <2>4, <2>5, <2>6, <2>7, <2>8, <2>9, <2>10
<1>9. CASE FindScript
  <2>1. TypeOK'
    <3>1. num' \in 0..LastUpdate
      <4>1. num' = num \/ num' \in scripts
        BY <1>9, Zenon DEF FindScript
      <4>2. scripts \subseteq 0..LastUpdate
        OBVIOUS
      <4> QED
        BY <4>1, <4>2
    <3>2. pc' \in {"exit1", "hubbard"}
      BY <1>9 DEF FindScript
    <3> QED
      BY <1>9, <3>1, <3>2 DEF FindScript
  <2>2. ArchivedMeansApplied'
    BY <1>9 DEF FindScript
  <2>3. ErrorsFileTellsTheOutcome'
    BY <1>9 DEF FindScript
  <2>4. ExitZeroMeansDone'
    BY <1>9 DEF FindScript
  <2>5. ScriptPresent'
    BY <1>9 DEF FindScript
  <2>6. CommandsInOrder'
    BY <1>9 DEF FindScript
  <2>7. ArchiveInOrder'
    BY <1>9 DEF FindScript
  <2>8. ErrorsFileFilled'
    BY <1>9 DEF FindScript
  <2>9. VersionKnown'
    BY <1>9 DEF FindScript
  <2>10. QuestionsAreAsked'
    BY <1>9 DEF FindScript
  <2> QED
    BY <2>1, <2>2, <2>3, <2>4, <2>5, <2>6, <2>7, <2>8, <2>9, <2>10
<1>10. CASE CheckHubbard
  BY <1>10 DEF CheckHubbard
<1>11. CASE ReadHeader
  BY <1>11 DEF ReadHeader
<1>12. CASE CheckVersion
  BY <1>12 DEF CheckVersion, HavePrevScript
<1>13. CASE OpenErrorsFile
  <2>1. TypeOK'
    BY <1>13 DEF OpenErrorsFile
  <2>2. ArchivedMeansApplied'
    BY <1>13 DEF OpenErrorsFile
  <2>3. ErrorsFileTellsTheOutcome'
    BY <1>13 DEF OpenErrorsFile
  <2>4. ExitZeroMeansDone'
    BY <1>13 DEF OpenErrorsFile
  <2>5. ScriptPresent'
    BY <1>13 DEF OpenErrorsFile
  <2>6. CommandsInOrder'
    BY <1>13 DEF OpenErrorsFile
  <2>7. ArchiveInOrder'
    BY <1>13 DEF OpenErrorsFile
  <2>8. ErrorsFileFilled'
    BY <1>13 DEF OpenErrorsFile
  <2>9. VersionKnown'
    BY <1>13 DEF OpenErrorsFile
  <2>10. QuestionsAreAsked'
    BY <1>13 DEF OpenErrorsFile
  <2> QED
    BY <2>1, <2>2, <2>3, <2>4, <2>5, <2>6, <2>7, <2>8, <2>9, <2>10
<1>14. CASE CommandSucceeds
  BY <1>14 DEF CommandSucceeds, TakeEffect, Release, NoRelease, BadRelease
<1>15. CASE CommandLogsError
  BY <1>15 DEF CommandLogsError, TakeEffect, Release, NoRelease, BadRelease
<1>16. CASE CommandThrows
  BY <1>16 DEF CommandThrows, Unfinished, Release, NoRelease, BadRelease
<1>17. CASE EndOfScript
  BY <1>17 DEF EndOfScript
<1>18. CASE OpenArchive
  BY <1>18 DEF OpenArchive
<1>19. CASE FillArchive
  BY <1>19 DEF FillArchive
<1>20. CASE RemoveScript
  BY <1>20 DEF RemoveScript
<1>21. CASE RemoveErrorsFile
  BY <1>21 DEF RemoveErrorsFile
<1>22. CASE Kill
  BY <1>22 DEF Kill, Unfinished, Release, NoRelease, BadRelease
<1> QED
  BY <1>1, <1>2, <1>3, <1>4, <1>5, <1>6, <1>7, <1>8, <1>9, <1>10, <1>11, <1>12, <1>13,
    <1>14, <1>15, <1>16, <1>17, <1>18, <1>19, <1>20, <1>21, <1>22
  DEF Next, Process, User

\* The invariant holds in every state of every sequence of runs.
LEMMA Inductive == Safety => []Inv
<1> QED
  BY InitInv, StepInv, PTL DEF Safety

-----------------------------------------------------------------------------

\* The state of a run and of what it works on is of the declared types.
THEOREM RunTypeCorrect == Spec => []TypeOK
<1>1. Inv => TypeOK
  BY DEF Inv
<1> QED
  BY <1>1, Inductive, PTL DEF Spec

\* A script in DOCUMENTS stands for an update that is complete.
THEOREM ArchiveSafe == Spec => []ArchivedMeansApplied
<1>1. Inv => ArchivedMeansApplied
  BY DEF Inv
<1> QED
  BY <1>1, Inductive, PTL DEF Spec

\* Nothing is executed on a collection that does not fit unless the user has
\* said so.
THEOREM CollectionSafe == Spec => []WrongCollectionIsConfirmed
<1>1. Inv => WrongCollectionIsConfirmed
  BY DEF Inv, VersionKnown, WrongCollectionIsConfirmed
<1> QED
  BY <1>1, Inductive, PTL DEF Spec

\* Exit code 0 of a run without prompts can be relied on.
THEOREM ExitSafe == Spec => []ExitZeroMeansDone
<1>1. Inv => ExitZeroMeansDone
  BY DEF Inv
<1> QED
  BY <1>1, Inductive, PTL DEF Spec

\* The Errors file tells how the last run of its script ended, if it ended by itself.
THEOREM ErrorsFileSafe == Spec => []ErrorsFileTellsTheOutcome
<1>1. Inv => ErrorsFileTellsTheOutcome
  BY DEF Inv
<1> QED
  BY <1>1, Inductive, PTL DEF Spec

\* The script of an update is never lost: only RemoveScript takes it away, and
\* at that point the copy is whole; only OpenArchive and FillArchive touch a
\* copy, and never one that is whole.
THEOREM ScriptSafe == Spec => ScriptIsNeverLost
<1> DEFINE Kept == \A n \in Updates : n \in scripts \/ archive[n] = "whole" =>
                     n \in scripts' \/ archive'[n] = "whole"
<1>1. Inv /\ [Next]_vars => [Kept]_vars
  <2> SUFFICES ASSUME Inv, Next PROVE Kept
    BY DEF vars
  <2>1. archive \in [Updates -> {"none", "partial", "whole"}]
    BY DEF Inv, TypeOK
  <2>2. CASE RemoveScript
    <3>1. archive[num] = "whole" /\ archive' = archive
      BY <2>2 DEF RemoveScript, Inv, ArchiveInOrder
    <3>2. scripts' = scripts \/ scripts' = scripts \ {num}
      BY <2>2 DEF RemoveScript
    <3> QED
      BY <3>1, <3>2
  <2>3. CASE OpenArchive \/ FillArchive
    <3>1. scripts' = scripts
      BY <2>3 DEF OpenArchive, FillArchive
    <3>2. \A n \in Updates : archive[n] = "whole" => archive'[n] = "whole"
      BY <2>1, <2>3 DEF OpenArchive, FillArchive
    <3> QED
      BY <3>1, <3>2
  <2>4. CASE \E n \in Updates : Unpack(n)
    BY <2>4 DEF Unpack
  <2>5. CASE UNCHANGED <<scripts, archive>>
    BY <2>5
  <2> QED
    BY <2>2, <2>3, <2>4, <2>5 DEF Next, Process, User, StartRun, AnswerWelcome,
      AnswerHubbard, AnswerWarning, Answer, CheckDirectories, ReadVersion, FindScript,
      CheckHubbard, ReadHeader, CheckVersion, OpenErrorsFile, CommandSucceeds,
      CommandLogsError, CommandThrows, EndOfScript, RemoveErrorsFile, Kill, world
<1> QED
  BY <1>1, Inductive, PTL DEF Spec, Safety, ScriptIsNeverLost
=============================================================================
