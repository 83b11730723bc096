--------------------------- MODULE ChainStateFile ---------------------------
(***************************************************************************)
(* blockchain.dat: MemoryChainState::saveToDisk and loadFromDisk of        *)
(* src/storage/chainstate.cpp.                                             *)
(*                                                                         *)
(* The file is a buffer of Codec's units: the magic "SHWN" and the best    *)
(* hash as byte strings, the version, the block count, the height and each *)
(* block's size as fixed-width integers, each block's serialized bytes as  *)
(* one byte string.  A file cut short (a kill during saveToDisk, which     *)
(* opened it with "wb") is the same units with a smaller length.  Every    *)
(* fread of the reader asks for one whole element: it succeeds when the    *)
(* element lies within the file and is not of size 0 (fread of a zero    *)
(* size returns 0).                                                        *)
(*                                                                         *)
(* A MemoryChainState is [best, height, blocks], blocks a function from    *)
(* hash to serialized block.                                               *)
(***************************************************************************)
EXTENDS Codec

\* uint256 hash; the value-initialized hash loadFromDisk keys every block by.
NullKey == [len |-> 32, c |-> 0]

Magic == [len |-> 4, c |-> "SHWN"]

\* The hashes of blocks_ in the order std::map iterates them.
SavedOrder(st) == SetToSeq(DOMAIN st.blocks)

\* A block count one more than the blocks written.
SaveToDiskCountPlusOne(st) ==
    LET hs == SavedOrder(st) IN
    <<Magic>> \o WriteU32(1) \o WriteU64(Len(hs) + 1) \o <<st.best>> \o WriteU64(st.height)
    \o FlattenSeq([i \in DOMAIN hs |-> WriteU64(st.blocks[hs[i]].len) \o <<st.blocks[hs[i]]>>])

\* saveToDisk: header, version 1, count, best hash, height, then each block
\* as its size and its bytes.
SaveToDisk(st) ==
    LET hs == SavedOrder(st) IN
    <<Magic>> \o WriteU32(1) \o WriteU64(Len(hs)) \o <<st.best>> \o WriteU64(st.height)
    \o FlattenSeq([i \in DOMAIN hs |-> WriteU64(st.blocks[hs[i]].len) \o <<st.blocks[hs[i]]>>])

\* The byte offset at which unit k of a buffer ends.
EndOf(units, k) == ByteLength(SubSeq(units, 1, k))

\* fread(ptr, size, 1, file) == 1 for the k-th unit of a file of len bytes.
Freads(f, k) == k <= Len(f.units) /\ EndOf(f.units, k) <= f.len /\ UnitBytes(f.units[k]) > 0

\* The block loop without the check of the data's fread.
RECURSIVE ReadBlocksSizeOnly(_, _, _, _, _)
ReadBlocksSizeOnly(f, count, i, k, blocks) ==
    IF i > count THEN [ok |-> TRUE, blocks |-> blocks]
    ELSE IF ~Freads(f, k)
         THEN [ok |-> FALSE, blocks |-> blocks]
         ELSE ReadBlocksSizeOnly(f, count, i + 1, k + 2, [h \in {NullKey} |-> f.units[k + 1]])

\* The reader's block loop from block i on, the i-th block's size being unit
\* k: each block is stored under the same zero hash (the TODO at line 124).
RECURSIVE ReadBlocks(_, _, _, _, _)
ReadBlocks(f, count, i, k, blocks) ==
    IF i > count THEN [ok |-> TRUE, blocks |-> blocks]
    ELSE IF ~Freads(f, k) \/ ~Freads(f, k + 1)
         THEN [ok |-> FALSE, blocks |-> blocks]
         ELSE ReadBlocks(f, count, i + 1, k + 2, [h \in {NullKey} |-> f.units[k + 1]])

\* Some but not all bytes of the k-th unit are in the file.
PartlyRead(f, k) == EndOf(f.units, k - 1) < f.len /\ ~Freads(f, k)

\* loadFromDisk on the file f (f.len bytes of units) and the state st: the
\* outcome and the state after it.  A failure returns at once, with what
\* was read before it already written: bestHash_ and bestHeight_ are read
\* in place, so a partly read one holds fread's partial copy, Torn.
LoadFromDisk(f, st, Torn) ==
    LET u == f.units IN
    IF ~Freads(f, 1) \/ u[1] # Magic \/ ~Freads(f, 2) \/ u[2].v # 1 \/ ~Freads(f, 3)
    THEN [ok |-> FALSE, st |-> st]
    ELSE IF ~Freads(f, 4)
    THEN [ok |-> FALSE, st |-> [st EXCEPT !.best = IF PartlyRead(f, 4) THEN Torn ELSE @]]
    ELSE IF ~Freads(f, 5)
    THEN [ok |-> FALSE, st |-> [st EXCEPT !.best = u[4],
                                          !.height = IF PartlyRead(f, 5) THEN Torn ELSE @]]
    ELSE LET r == ReadBlocks(f, u[3].v, 1, 6, <<>>) IN
         [ok |-> r.ok, st |-> [best |-> u[4], height |-> u[5].v, blocks |-> r.blocks]]

====
