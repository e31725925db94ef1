SPECIFICATION FairSpec
CONSTANTS
    c1 = c1
    c2 = c2
    MaxNotes = 2
    PageSize = 1
    Calls = {c1, c2}
INVARIANTS ShownReadIsRead
PROPERTY BadgeSettles
