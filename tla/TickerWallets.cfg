SPECIFICATION Spec
CONSTANTS
    Null = Null
    w1 = w1
    w2 = w2
    pA = pA
    pB = pB
    Watcher = {pA, pB}
    WalletOf <- TwoWallets
    Wallet = {w1, w2}
    Request = {1, 2}
    MaxTxs = 3
    MaxReorgDepth = 1
    MaxReorgs = 0
    MaxSlow = 0
    QuietAfter = 1
    ConfirmationBlocks = 1
    BoostAfterBlocks = 1
    DisableBoosting = TRUE
    MaxFaults = 0
    MaxInserts = 1
INVARIANT AtMostOneActive
PROPERTY ImplementsLane
