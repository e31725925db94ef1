SPECIFICATION Spec
CONSTANTS
    MaxCommands = 3
INVARIANTS RevisionTellsSchema NothingTwice SeededUnlessCut
PROPERTIES RowsGoWithSchema
CHECK_DEADLOCK FALSE
