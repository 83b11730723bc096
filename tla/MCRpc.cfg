\* No mining thread: the RPC thread's mining.submit is the only caller of
\* addBlock, with three requests of the methods that take more than one step
\* or change the seed, a client template built on any block of the chain,
\* two clock values and the chain up to height 2: every block the submit
\* path commits is a step of the abstract ledger.
CONSTANTS
    ZeroHash = ZeroHash
    ZeroScript <- MCZeroScript
    INITIAL_DIFFICULTY <- MCInitialDifficulty
    EASY_MINE_DIFFICULTY <- MCEasyDifficulty
    Threads <- MCThreadsRpc
    Payout <- MCPayout
    Dest <- MCDest
    INITIAL_BLOCK_SUBSIDY = 2
    SUBSIDY_HALVING_INTERVAL = 1000
    MAX_MONEY = 4
    GenesisTime = 0
    BLOCK_TIME_TARGET = 1
    U64_HUGE = 1000000
    DIFFICULTY_INTERVAL = 2016
    MAX_MEMPOOL_SIZE = 100000
    Mnemonics = {"m1", "m2"}
    Passphrases = {""}
    NoSeed = NoSeed
    NoFile = NoFile
    InitBackup = "m1"
    RpcThread = "rpc"
    ParseKeepsParams = TRUE
    AddressDecodes = TRUE
    Amounts = {1}
    Fees = {0}
    Methods = {"wallet.create", "wallet.restore", "wallet.getnewaddress", "wallet.sendtoaddress", "mining.submit", "blockchain.info"}
    MaxRequests = 3
    MaxClock = 1
    MaxHeight = 2
SPECIFICATION Spec
CONSTRAINT HeightBound
PROPERTY
    LedgerRefinement
