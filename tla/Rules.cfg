CONSTANTS
    o1 = o1
    o2 = o2
    paint = paint
    meat = meat
    flare = flare
    NotCreated = NotCreated
    NotAsked = NotAsked
    Ids <- MCIds
    Offers <- MCOffers
    Weights <- MCWeights
    Comparers = {q1, q2}
    Simulated <- MCSimulated
    Invited = 2
    Precision = 2
    Orders = {o1, o2}
    Products = {paint, meat, flare}
    FreeText = text
    CodedProducts = {paint}
    PortRules <- MCPortRules
    CountryRules <- MCCountryRules
    LastDay = 1
    Addresses = {ship, loopback}
    Exempt = {loopback}
    Limit = 2
    Window = 2
    LastMinute = 5
    MaxRequests = 4
    ship1 = ship1
    ship2 = ship2
    Book <- MCBook
    Draw <- MCDraw
    Seeds = {3, 42}
    CounterOffers <- MCCounterOffers
    NoCap = NoCap
    Calls = {c1, c2}
    Idle = Idle
    MaxRuns = 4
    MaxProcesses = 2
    Staff <- MCStaff
    Vessels = {ship1, ship2}
    Ashore = Ashore
    Nobody = Nobody
    PageSize = 1
    MaxRFQs = 3
SYMMETRY RequestSymmetry
SPECIFICATION RulesSpec
INVARIANTS
    RulesTypeOK
    AwardNotBeaten
    SealedTable
    CardTellsAward
    TrailHasNoGap
    ReplayAgrees
    UnflaggedIsClear
    LinesOnlyAddIssues
    TokenIsTheTables
    ListIsWhatOpens
    LimitIsExact
CHECK_DEADLOCK FALSE
