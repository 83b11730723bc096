----------------------------- MODULE MCDifficulty -----------------------------
(***************************************************************************)
(* getAdaptiveNextDifficulty of src/mining/difficulty.cpp on the retarget  *)
(* window of checkDifficulty (DIFFICULTY_INTERVAL blocks), for a few       *)
(* compact targets and window start times.  Times are scaled so that the   *)
(* uint32 products stay inside TLC's integers: a block every               *)
(* BLOCK_TIME_TARGET seconds, NumBlocks blocks per window.                 *)
(***************************************************************************)
EXTENDS Difficulty

CONSTANTS NumBlocks, Starts

\* 0x1d00ffff (genesis), 0x0400ffff (the miner's), 0x037fffff, 0x00000100
Targets == {Compact(29, 65535), Compact(4, 65535), Compact(3, MANT_MAX), Compact(0, 256)}

IdealSpan == BLOCK_TIME_TARGET * (NumBlocks - 1)

VARIABLES cur, first

Init == cur \in Targets /\ first \in Starts

Next == UNCHANGED <<cur, first>>

\* A window that took exactly the ideal time leaves a valid target
\* unchanged (spec, testable properties): the retarget that checkDifficulty
\* expects at a boundary is the previous block's target.
RetargetIdentity ==
    GetAdaptiveNextDifficulty(cur, first + IdealSpan, first, NumBlocks, NumBlocks) = cur

=============================================================================
