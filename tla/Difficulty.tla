----------------------------- MODULE Difficulty -----------------------------
(***************************************************************************)
(* Retargeting of src/mining/difficulty.cpp.                               *)
(*                                                                         *)
(* A compact target is the uint32 word exp * 2^24 + mant, kept as its two  *)
(* fields so that uint32 arithmetic on the whole word (which the code      *)
(* does, and which carries from the mantissa into the exponent byte) is    *)
(* exact without exceeding TLC's 32-bit signed integers.  Times are        *)
(* seconds; the model scales BLOCK_TIME_TARGET and the interval down, as   *)
(* the products below must stay inside TLC's integers.                     *)
(***************************************************************************)
EXTENDS Naturals

CONSTANTS
    BLOCK_TIME_TARGET,  \* 600 seconds
    U64_HUGE            \* stands for (uint64)(a - b) when a < b: 2^64 - (b - a)

TWO24 == 16777216          \* 2^24
MANT_MAX == 8388607        \* 0x007fffff

Compact(e, m) == [exp |-> e, mant |-> m]

CompactSet == [exp : 0..255, mant : 0..(TWO24 - 1)]

\* uint32 comparison a < b
LessU32(a, b) == a.exp < b.exp \/ (a.exp = b.exp /\ a.mant < b.mant)

\* (uint32_t)(x * k): the carry out of the 24-bit field enters the exponent
\* byte and the carry out of the exponent byte is lost.
MulU32(x, k) ==
    LET p == x.mant * k
    IN  Compact((x.exp * k + p \div TWO24) % 256, p % TWO24)

\* x / k on the uint32 word
DivU32(x, k) == Compact(x.exp \div k, ((x.exp % k) * TWO24 + x.mant) \div k)

\* (uint64_t)(a - b)
SubU64(a, b) == IF a >= b THEN a - b ELSE U64_HUGE

ClampTime(x, lo, hi) == IF x < lo THEN lo ELSE IF x > hi THEN hi ELSE x

\* getNextDifficulty: (uint64)currentTarget * elapsed / targetTime, clamped
\* to 0x007fffff, under the exponent byte of currentTarget.  The product is
\* split as currentTarget * elapsed = A * 2^24 + B.
GetNextDifficulty(cur, last, first, numBlocks) ==
    IF numBlocks = 0 \/ first >= last THEN cur
    ELSE
      LET targetTime == BLOCK_TIME_TARGET * (numBlocks - 1)
          elapsed    == ClampTime(last - first, targetTime \div 4, targetTime * 4)
          A          == cur.exp * elapsed
          B          == cur.mant * elapsed
          \* A * 2^24 + B >= (MANT_MAX + 1) * targetTime
          tooBig     == 2 * A >= targetTime \/ (targetTime - 2 * A) * (MANT_MAX + 1) <= B
      IN  Compact(cur.exp,
                  IF tooBig THEN MANT_MAX ELSE (A * TWO24 + B) \div targetTime)

\* getAdaptiveNextDifficulty
GetAdaptiveNextDifficulty(cur, last, first, numBlocks, currentHeight) ==
    LET base       == GetNextDifficulty(cur, last, first, numBlocks)
        elapsed    == SubU64(last, first)
        targetTime == BLOCK_TIME_TARGET * (numBlocks - 1)
        emergency  ==
            IF elapsed < targetTime \div 8
            THEN IF LessU32(base, MulU32(base, 4)) THEN MulU32(base, 4) ELSE base
            ELSE IF elapsed > targetTime * 8
            THEN IF LessU32(DivU32(base, 4), base) THEN DivU32(base, 4) ELSE base
            ELSE base
    IN  IF currentHeight < 10000
        THEN IF elapsed < targetTime \div 2 THEN MulU32(emergency, 2)
             ELSE IF elapsed > targetTime * 2 THEN DivU32(emergency, 2)
             ELSE emergency
        ELSE emergency

=============================================================================
