CONSTANTS
    Opener = Opener
    Accepter = Accepter
    Funding = 20
    OpenerOut = 10
    Plans <- ClosePlans
SPECIFICATION FairSpec
INVARIANTS SameFee AgreedIsKept
PROPERTY ClosesInTheEnd
CHECK_DEADLOCK FALSE
