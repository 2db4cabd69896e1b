SPECIFICATION Spec
CONSTANTS
    Null = Null
    Wallet = {"w1"}
    Request = {1, 2}
    MaxTxs = 1
    Member = {"m1"}
    Log <- ReadmeLog
    MaxFaults = 0
INVARIANT DocumentedStored
CHECK_DEADLOCK FALSE
