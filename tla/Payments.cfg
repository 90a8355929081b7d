CONSTANTS
    p1 = p1
    p2 = p2
    p3 = p3
    h1 = h1
    h2 = h2
    gold = gold
    silver = silver
    Payments = {p1, p2}
    Atoms <- Credits
    Htlcs = {h1, h2}
    Msat <- HtlcAmounts
    Balance = 8
    Reserve = 1
    Dust = 1
    MaxCuts = 1
    Assets = {gold, silver}
    NoAsset = NoAsset
    Parts = {p1, p2, p3}
    MaxMsat = 8
    Scenarios <- SetScenarios
SPECIFICATION PaymentSpec
INVARIANTS NotesBacked HonestHtlcsTaken PaidInFull NoPartForgotten
PROPERTIES NoteEnforced PaidOnce PartsSettle
CHECK_DEADLOCK FALSE
