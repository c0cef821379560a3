SPECIFICATION FairSpec
CONSTANTS
    Borrowers = {b1, b2, b3}
    Drainers = {d1, d2}
    MaxSize = 2
    WarmSize = 1
INVARIANTS
    TypeOK
    TokenAccounting
    InstanceAccounting
    BorrowedAccounting
    ReleaseNeverBlocks
    NoSendOnClosed
    NothingLeaks
PROPERTIES
    DrainReturns
    BorrowReturns
