\* One mining thread, an address and two sendtoaddress requests from
\* the same snapshot: a block with two spends of one output.
CONSTANTS
    ZeroHash = ZeroHash
    ZeroScript <- MCZeroScript
    INITIAL_DIFFICULTY <- MCInitialDifficulty
    EASY_MINE_DIFFICULTY <- MCEasyDifficulty
    Threads <- MCThreads1
    Payout <- MCPayout
    Dest <- MCDest
    INITIAL_BLOCK_SUBSIDY = 2
    SUBSIDY_HALVING_INTERVAL = 1000
    MAX_MONEY = 4
    GenesisTime = 0
    BLOCK_TIME_TARGET = 1
    U64_HUGE = 1000000
    DIFFICULTY_INTERVAL = 2016
    MAX_MEMPOOL_SIZE = 100000
    Mnemonics = {"m1", "m2"}
    Passphrases = {""}
    NoSeed = NoSeed
    NoFile = NoFile
    InitBackup = "m1"
    RpcThread = "rpc"
    ParseKeepsParams = TRUE
    AddressDecodes = TRUE
    Amounts = {1}
    Fees = {0}
    Methods = {"wallet.getnewaddress", "wallet.sendtoaddress"}
    MaxRequests = 3
    MaxClock = 1
    MaxHeight = 3
INIT Init
NEXT Next
CONSTRAINT HeightBound
INVARIANTS
    UtxoMatchesChain
