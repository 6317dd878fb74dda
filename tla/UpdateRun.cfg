CONSTANTS
    LastUpdate = 3
    Commands = 2
    Repeatable = {2}
    Headerless = {3}
    OldRelease = {0, 1, 5}
    Prompts = {TRUE, FALSE}
    May = {"fail", "kill", "fault", "repack"}
SPECIFICATION Spec
INVARIANTS
    TypeOK
    ArchivedMeansApplied
    WrongCollectionIsConfirmed
    ExitZeroMeansDone
    ErrorsFileTellsTheOutcome
PROPERTIES
    ScriptIsNeverLost
    UpdatesComplete
