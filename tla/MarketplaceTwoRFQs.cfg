SPECIFICATION FairSpec
CONSTANTS
    o1 = o1
    r1 = r1
    r2 = r2
    s1 = s1
    Orders = {o1}
    RFQs = {r1, r2}
    Suppliers = {s1}
    ActiveSuppliers = {s1}
    PortSuppliers = {s1}
    Stockists = {s1}
    Markups = {10}
    ManualStatuses = {"cancelled"}
    MaxEdits = 0
    MaxQuoteRows = 1
    SimInvited = 9
INVARIANT ApprovedOrderWasAwarded
PROPERTY SentRFQIsClosed
