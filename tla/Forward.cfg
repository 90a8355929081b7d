CONSTANTS
    h1 = h1
    h2 = h2
    Htlcs = {h1, h2}
    InExpiry <- InExpiries
    OutExpiry <- OutExpiries
    InDeadline <- InDeadlines
    OutDeadline <- OutDeadlines
    MaxHeight = 6
    MaxDeaths = 2
    MayClose = TRUE
SPECIFICATION FairForward
INVARIANTS PaidThrough ForwardedOnce
PROPERTY HtlcsResolve
CHECK_DEADLOCK FALSE
