CONSTANTS
    A = A
    B = B
    MaxIndex = 4
    Delay = 2
    React = 1
    Watchers <- OnlyOpener
SPECIFICATION FairSpec
INVARIANTS TypeOK IndicesAgree CountersignsPending HoldsNewer SettledNotRevoked
INVARIANTS KnowsSettlement RestartsBounded
PROPERTY KickoffSettles
CHECK_DEADLOCK FALSE
