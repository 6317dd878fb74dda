CONSTANTS
    t1 = t1
    t2 = t2
    t3 = t3
    Partial = Partial
    Directory = Directory
    Name <- MCName
    Lower <- MCLower
    Listing <- MCListing
    Tune <- MCTune
    Collection <- NoSlashCollection
    Command <- NoSlashCommand
    Kills = FALSE
SPECIFICATION Spec
PROPERTY
    ReplaceNeedsNoSlash
