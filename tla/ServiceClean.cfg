SPECIFICATION ServiceSpec
CONSTANTS
    Null = Null
    w1 = w1
    w2 = w2
    pA = pA
    pB = pB
    Watcher = {pA}
    WalletOf <- OneWallet
    Wallet = {w1}
    Request = {1, 2}
    MaxTxs = 4
    MaxReorgDepth = 1
    MaxReorgs = 0
    MaxSlow = 0
    QuietAfter = 1
    ConfirmationBlocks = 1
    BoostAfterBlocks = 1
    DisableBoosting = TRUE
    MaxFaults = 1
    MaxInserts = 0
    Log <- OutOfOrder
    Configs = {{w1}}
    Caller = {"c1"}
    MaxCleans = 1
    MaxStarts = 1
INVARIANTS ServiceTypeOK ServiceInv FollowInv NoOrphanedInclusion ServiceExecutions
PROPERTIES OnlyCleanForgets CleansOldest
