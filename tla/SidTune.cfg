CONSTANTS
    Collection <- MCCollection
    Command <- MCCommand
    Starred = {"*", "*b"}
    Length <- MCLength
    MaxCommands = 3
SPECIFICATION Spec
INVARIANTS
    TypeOK
    SavedTunesLoad
    RepeatingIsHarmless
    DataStayInPlace
PROPERTIES
    OnlyNamedFieldsChange
    EditsTakeHold
