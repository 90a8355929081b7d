CONSTANTS
    Txs = {t1}
    Funding = t1
    MaxBlocks = 5
    MaxForks = 2
    Lookback = 1
    Announce = 2
SPECIFICATION FairTopology
INVARIANTS DepthsTold FundingDepth
PROPERTY EventuallyCaughtUp
