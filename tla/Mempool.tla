------------------------------ MODULE Mempool ------------------------------
(***************************************************************************)
(* The transaction pool of src/core/mempool.cpp.  txs_ is a map keyed by   *)
(* txid; as a transaction is its own txid here, the pool is the set of its *)
(* values.  The realtime event written by add is output only.             *)
(***************************************************************************)
EXTENDS Consensus

CONSTANT MAX_MEMPOOL_SIZE   \* 100000

VARIABLE mempool

\* The outcome of Mempool::add(tx, fee): structurally valid, and either room
\* left or the txid already present (re-adding overwrites in place).
Admits(tx) ==
    /\ ValidateTransactionStructure(tx)
    /\ Cardinality(mempool) < MAX_MEMPOOL_SIZE \/ tx \in mempool

\* Mempool::add, the call that succeeds.
Add(tx) == mempool' = mempool \cup {tx}

\* Mempool::getBlockTemplate: every pooled transaction, in the order of the
\* map's keys (txid byte order: fixed, but unrelated to arrival or to the
\* spending relation between the transactions).
GetBlockTemplate == SetToSeq(mempool)

=============================================================================
