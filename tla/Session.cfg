SPECIFICATION FairSpec
CONSTANTS
    u1 = u1
    u2 = u2
    t1 = t1
    c1 = c1
    c2 = c2
    none = none
    Users = {u1, u2}
    NoUser = none
    Tabs = {t1}
    Calls = {c1, c2}
    MaxLogins = 3
    MaxFaults = 1
INVARIANTS WaitersAreRefreshed
PROPERTIES OnlyExpirySignsOut SignOutLasts UserComesToBeKnown
    ExpiredSessionEnds BellFollowsUser
