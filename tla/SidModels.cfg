CONSTANTS
    Collection <- MCCollection
    Command <- MCCommand
    Starred = {"*", "*b"}
    Length <- MCLength
    MaxCommands = 1
SPECIFICATION Spec
PROPERTIES
    OtherChipsAreUntouched
