SPECIFICATION FairSpec
CONSTANTS
    Null = Null
    Wallet = {"w1", "w2"}
    Request = {1, 2}
    MaxTxs = 1
    Member = {"m1", "m2"}
    Log <- MixedLog
    MaxFaults = 2
INVARIANTS NothingLost IntakeInv
PROPERTIES RowsKept HandlesUpToRefused
CHECK_DEADLOCK FALSE
