SPECIFICATION Spec
CONSTANTS
    MaxCommands = 1
INVARIANTS FirstUpgradeWorks
CHECK_DEADLOCK FALSE
