SPECIFICATION Spec
CONSTANTS
    Null = Null
    w1 = w1
    w2 = w2
    pA = pA
    pB = pB
    Watcher = {pA}
    WalletOf <- OneWallet
    Wallet = {w1}
    Request = {1}
    MaxTxs = 3
    MaxReorgDepth = 1
    MaxReorgs = 0
    MaxSlow = 1
    QuietAfter = 1
    ConfirmationBlocks = 1
    BoostAfterBlocks = 1
    DisableBoosting = FALSE
    MaxFaults = 0
    MaxInserts = 1
INVARIANT NotIncludedYet
