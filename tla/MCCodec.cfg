\* Codec round trip and truncation, byte-string lengths up to the 10000
\* bound; every Merkle leaf list of up to 5 txids over 3 distinct ones (5
\* leaves reach a level of width 3 and two duplications); every byte string
\* of up to 3 bytes over values that cover both nibbles at 0, 9/10 and 15;
\* every command line of up to 3 arguments with every shawncoin.conf of up
\* to 3 lines; every chain state with none, one or two stored blocks.
CONSTANTS
    SIGN_EXTENDED = 1000000000
    Lens = {0, 252, 253, 10000}
    Hashes = {h1}
    ZeroHash = ZeroHash
    Leaves = {l1, l2, l3}
    MaxLeaves = 5
    HexBytes = {0, 9, 10, 160, 255}
    MaxHexLen = 3
    ArgChoices <- MCArgChoices
    MaxArgs = 3
    LineChoices <- MCLineChoices
    MaxLines = 3
    ConfDir = "d1"
    BlockLens = {1, 80}
    Heights = {0, 10}
    Torn = Torn
INIT Init
NEXT Next
INVARIANTS RoundTrip TruncatedRejected RootMatchesReference HexRoundTrip
    StartupMatchesReference SavedFileLoads TruncatedFileFails
