SPECIFICATION Spec
CONSTANTS
    o1 = o1
    r1 = r1
    s1 = s1
    s2 = s2
    s3 = s3
    Orders = {o1}
    RFQs = {r1}
    Suppliers = {s1, s2, s3}
    ActiveSuppliers = {s1, s2, s3}
    PortSuppliers = {s1, s2}
    Stockists = {s1}
    Markups = {10, 20}
    ManualStatuses = {"cancelled"}
    MaxEdits = 1
    MaxQuoteRows = 2
    SimInvited = 9
INVARIANTS AwardNamesLiveQuote MarkupNeverStale
PROPERTY DecidedQuotesFrozen
