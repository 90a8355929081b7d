CONSTANTS
    A = A
    B = B
    MarginPct = 50
    Reserve = 2
    AnchorCost = 1
    BaseWeight = 1
    HtlcWeight = 1
    Funding = 100
    OpenerMsat = 60
    InitialFeerate = 2
    MaxAccepted = 4
    MaxInFlight = 100
    Amounts = {5}
    Budgets <- LostShutdownBudgets
SPECIFICATION FairSpec
PROPERTY ResentShutdownSuffices
CHECK_DEADLOCK FALSE
