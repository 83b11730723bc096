\* One mining thread and one blockchain.info request: the height and
\* the best hash are read under two separate locks.
CONSTANTS
    ZeroHash = ZeroHash
    ZeroScript <- MCZeroScript
    INITIAL_DIFFICULTY <- MCInitialDifficulty
    EASY_MINE_DIFFICULTY <- MCEasyDifficulty
    Threads <- MCThreads1
    Payout <- MCPayout
    Dest <- MCDest
    INITIAL_BLOCK_SUBSIDY = 2
    SUBSIDY_HALVING_INTERVAL = 1000
    MAX_MONEY = 4
    GenesisTime = 0
    BLOCK_TIME_TARGET = 1
    U64_HUGE = 1000000
    DIFFICULTY_INTERVAL = 2016
    MAX_MEMPOOL_SIZE = 100000
    Mnemonics = {"m1", "m2"}
    Passphrases = {""}
    NoSeed = NoSeed
    NoFile = NoFile
    InitBackup = "m1"
    RpcThread = "rpc"
    ParseKeepsParams = TRUE
    AddressDecodes = FALSE
    Amounts = {1}
    Fees = {0, 1}
    Methods = {"blockchain.info"}
    MaxRequests = 1
    MaxClock = 1
    MaxHeight = 3
INIT Init
NEXT Next
CONSTRAINT HeightBound
INVARIANT
    InfoConsistent
