SPECIFICATION Spec
CONSTANTS
    t1 = t1
    t2 = t2
    s1 = s1
    s2 = s2
    Tx = {t1, t2}
    Kinds = {"portal", "legacy", "markup", "send", "approve", "reject", "compare", "sweep"}
    Suppliers = {s1, s2}
    Invited = {s1, s2}
    Markups = {10}
    MaxQuoteRows = 2
SYMMETRY TxSymmetry
INVARIANTS CountWithinQuotes AwardedSupplierQuotes
PROPERTY AutoCloseIsComplete
