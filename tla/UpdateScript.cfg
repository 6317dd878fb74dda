CONSTANTS
    HeaderLines = 10
    MaxUnsigned = 65535
    Texts <- MCTexts
    Script <- MCScripts
    Files <- MCFiles
SPECIFICATION ScriptSpec
INVARIANTS
    TypeOK
    BlocksInSync
    ParametersInSync
    CleanEndMeansAllDone
    FailuresAreCounted
    VersionCheckIsExact
    UnwarnedVersionsAgree
    NumbersKeepTheOrder
PROPERTY ReadingEnds
CHECK_DEADLOCK FALSE
