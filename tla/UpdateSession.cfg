CONSTANTS
    t1 = t1
    t2 = t2
    t3 = t3
    t4 = t4
    e3 = e3
    text = text
    old = old
    new = new
    Partial = Partial
    Directory = Directory
    Name <- MCName
    Lower <- MCLower
    Listing <- MCListing
    Tune <- MCTune
    Collection = {}
    Command = {}
    Kills = TRUE
    Scripts <- MCScripts
    Commands = 4
    Repeatable = {1, 2}
    Original <- MCOriginal
    Pack <- MCPack
    Edited <- MCEdited
    ScriptPath <- MCScriptPath
    ArchiveDir <- MCArchiveDir
    ReleasePath <- MCReleasePath
    Entries <- MCEntries
    OldText = old
    NewText = new
SPECIFICATION SessionSpec
INVARIANTS
    ArchivedMeansUpdated
    BystandersUntouched
PROPERTIES
    ImplementsRun
