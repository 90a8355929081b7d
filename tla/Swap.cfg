CONSTANTS
    Lanes = {1, 2}
    Capacity <- LaneCapacity
    Share <- LaneShare
    Swaps = {1, 2}
    Terms <- SwapTerms
    Htlcs = {"ha", "hb", "hc"}
    Offer <- HtlcOffers
    Plans <- SwapPlans
    Blocks = 1
    Grace = 1
    MaxHeight = 3
SPECIFICATION FairSpec
INVARIANT LanesAgree
PROPERTY SwapsEnd
CHECK_DEADLOCK FALSE
