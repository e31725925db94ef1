CONSTANTS
    Actions = {1, 2, 3, 4}
    Tabs = {t1, t2}
    BatchSize = 2
    MaxFaults = 2
    Shape <- OrderShapes
SPECIFICATION FairSpec
INVARIANTS AtMostOnce NothingVanishes
PROPERTIES KeepsPromise DrainEnds
CHECK_DEADLOCK FALSE
