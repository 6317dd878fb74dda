CONSTANTS
    LastUpdate = 2
    Commands = 2
    Repeatable = {1}
    Headerless = {}
    OldRelease = {0}
    Prompts = {TRUE, FALSE}
    May = {"fail", "trap"}
SPECIFICATION Spec
INVARIANT ErrorsDoNotEndTheRun
