SPECIFICATION FairSpec
CONSTANTS
    MaxKey = 2
    Hook = {a, b}
    Loop = {p, q}
    Fetch = {f}
    None = none
INVARIANTS
    IInv
    BalanceShowsPayment
    RequestHasPage
PROPERTIES
    PollingStops
CHECK_DEADLOCK FALSE
