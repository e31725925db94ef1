CONSTANTS
    Actions = {1, 2, 3}
    Tabs = {t1}
    BatchSize = 25
    MaxFaults = 1
    Shape <- QuietShapes
SPECIFICATION FairSpec
PROPERTIES RowDisappears
CHECK_DEADLOCK FALSE
