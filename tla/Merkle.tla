------------------------------- MODULE Merkle -------------------------------
(***************************************************************************)
(* The Merkle commitment of src/mining/merkle.cpp.                         *)
(*                                                                         *)
(* A hash is abstracted to a term: a leaf is any value, and the double     *)
(* SHA-256 of the 64-byte concatenation of two hashes is the pair          *)
(* Hash2(l, r).  This is the collision-free hash the protocol assumes, so  *)
(* two different inputs have equal roots only when the algorithm itself    *)
(* makes them collide.                                                     *)
(***************************************************************************)
EXTENDS Naturals, Sequences

CONSTANT ZeroHash   \* uint256{}: the all-zero hash

\* shawncoin_sha256d(concat(l, r), 64)
Hash2(l, r) == <<"sha256d", l, r>>

\* A pass that drops the unpaired last node of an odd row.
NextRowDropLast(row) ==
    [i \in 1..(Len(row) \div 2) |-> Hash2(row[2 * i - 1], row[2 * i])]

\* One iteration of the while loop: pair row[i] with row[i+1], duplicating
\* the last node of an odd row.
NextRow(row) ==
    [i \in 1..((Len(row) + 1) \div 2) |->
        Hash2(row[2 * i - 1],
              IF 2 * i <= Len(row) THEN row[2 * i] ELSE row[2 * i - 1])]

RECURSIVE Reduce(_)
Reduce(row) == IF Len(row) > 1 THEN Reduce(NextRow(row)) ELSE row[1]

\* computeMerkleRootFromHashes(hashes)
ComputeMerkleRootFromHashes(hashes) ==
    IF hashes = <<>> THEN ZeroHash ELSE Reduce(hashes)

\* computeMerkleRoot(transactions): the root over the transactions' txids.
ComputeMerkleRoot(txids) == ComputeMerkleRootFromHashes(txids)

=============================================================================
