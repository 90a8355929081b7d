CONSTANTS
    A = A
    B = B
    MarginPct = 50
    Reserve = 2
    AnchorCost = 1
    BaseWeight = 1
    HtlcWeight = 1
    Funding = 100
    OpenerMsat = 9
    InitialFeerate = 2
    MaxAccepted = 4
    MaxInFlight = 100
    Amounts = {5}
    Budgets <- AffordBudgets
SPECIFICATION Spec
INVARIANT AffordableAsWeGo
CHECK_DEADLOCK FALSE
