CONSTANTS
    t1 = t1
    t2 = t2
    t3 = t3
    Partial = Partial
    Directory = Directory
    Name <- MCName
    Lower <- MCLower
    Listing <- MCListing
    Tune <- MCTune
    Collection <- MCCollection
    Command <- MCCommand
    Kills = TRUE
SPECIFICATION Spec
INVARIANTS
    TypeOK
    TreeStaysWellFormed
    SourceOutlivesCopy
    LookupIgnoresCase
PROPERTIES
    OnlyKillsDuplicate
    MoveLosesNothing
    NothingIsOverwritten
    ReplaceRemovesItsDestination
    NamesStayUnambiguous
    FolderIsEmptied
    ImplementsStore
