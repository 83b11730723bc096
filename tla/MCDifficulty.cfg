\* Windows of 3 blocks, one every second, starting at 0..2.
CONSTANTS
    BLOCK_TIME_TARGET = 1
    U64_HUGE = 1000000
    NumBlocks = 3
    Starts = {0, 1, 2}
INIT Init
NEXT Next
INVARIANT
    RetargetIdentity
