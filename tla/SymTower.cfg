CONSTANTS
    First = 1
    MaxState = 3
    MaxHeight = 3
    MaxReorgs = 1
    MaxFaults = 1
    Delay = 2
SPECIFICATION FairSpec
INVARIANTS FollowsChain RecordCovers
PROPERTY EventuallyAnswered
