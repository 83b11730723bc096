\* One mining thread; the client makes two requests of the methods that
\* create addresses, send, back up or only read, chain up to height 3,
\* shutdown and one restart, wallet_tool runs with the default passphrase:
\* the sequential behaviour of the node over two runs.
CONSTANTS
    ZeroHash = ZeroHash
    ZeroScript <- MCZeroScript
    INITIAL_DIFFICULTY <- MCInitialDifficulty
    EASY_MINE_DIFFICULTY <- MCEasyDifficulty
    Threads <- MCThreads1
    Payout <- MCPayout
    Dest <- MCDest
    INITIAL_BLOCK_SUBSIDY = 2
    SUBSIDY_HALVING_INTERVAL = 1000
    MAX_MONEY = 4
    GenesisTime = 0
    BLOCK_TIME_TARGET = 1
    U64_HUGE = 1000000
    DIFFICULTY_INTERVAL = 2016
    MAX_MEMPOOL_SIZE = 100000
    Mnemonics = {"m1", "m2"}
    Passphrases = {""}
    NoSeed = NoSeed
    NoFile = NoFile
    InitBackup = "m1"
    RpcThread = "rpc"
    ParseKeepsParams = TRUE
    AddressDecodes = TRUE
    Amounts = {1}
    Fees = {0, 1}
    Methods = {"wallet.getnewaddress", "wallet.sendtoaddress", "mining.getblocktemplate", "wallet.listunspent", "wallet.getbalance", "wallet.backup", "mining.stop"}
    MaxRequests = 2
    MaxClock = 1
    MaxHeight = 3
    MaxRestarts = 1
SPECIFICATION SystemSpec
CONSTRAINT HeightBound
PROPERTIES
    LedgerRefinement
    Progress
    BackupRestoresWallet
INVARIANTS
    TypeOK
    ChainLinked
    UtxoMatchesChain
    SummaryTotalIssued
