SPECIFICATION Spec
CONSTANTS
    Null = Null
    w1 = w1
    w2 = w2
    pA = pA
    pB = pB
    Watcher = {pA}
    WalletOf <- OneWallet
    Wallet = {w1}
    Request = {1, 2}
    MaxTxs = 3
    MaxReorgDepth = 1
    MaxReorgs = 1
    MaxSlow = 0
    QuietAfter = 1
    ConfirmationBlocks = 1
    BoostAfterBlocks = 1
    DisableBoosting = TRUE
    MaxFaults = 2
    MaxInserts = 1
INVARIANTS TypeOK AtMostOneActive ExecutionsBounded NoOrphanedInclusion FailedNotSent ConfirmedFinal UnannouncedBounded OneRequestPerNonce FailedInv AnnounceInv
PROPERTY ImplementsLane
