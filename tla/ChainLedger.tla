---------------------------- MODULE ChainLedger ----------------------------
(***************************************************************************)
(* What the chain state promises its callers (spec: chain state, block     *)
(* acceptance, shutdown), with no threads, locks or UTXO calls: the chain  *)
(* is a sequence of blocks from genesis; a block is accepted whole, on top *)
(* of the last one, spending only outputs left unspent by the chain before *)
(* it, each once; and once the node is closed nothing is accepted.  The    *)
(* chain is held in memory only: a new process, after a shutdown or a      *)
(* kill, opens a chain that starts again from genesis.                     *)
(* Node is shown to implement it under the mapping in Node (Ledger).       *)
(***************************************************************************)
EXTENDS Consensus

VARIABLES
    chain,  \* the accepted blocks, genesis first
    open    \* whether the node still accepts blocks

ledgerVars == <<chain, open>>

\* The outputs left unspent by the blocks of c in order: each block's
\* inputs removed, then its outputs written by outpoint.
Unspent(c) ==
    FoldLeft(LAMBDA u, b :
                 FoldLeft(LAMBDA v, o : (o.op :> o.entry) @@ v,
                          [x \in DOMAIN u \ Range(SpentOutPoints(b)) |-> u[x]],
                          CreatedOutputs(b)),
             <<>>, c)

Init == chain = <<GenesisBlock>> /\ open = TRUE

\* A block b can follow the chain: it names the last block as previous and
\* spends outputs the chain has left unspent, none twice.
Extends(b) ==
    /\ b.header.prev = BlockHash(Last(chain))
    /\ Range(SpentOutPoints(b)) \subseteq DOMAIN Unspent(chain)
    /\ IsInjective(SpentOutPoints(b))

\* One block is accepted, whole, while the node is open.
Accept ==
    /\ open = TRUE
    /\ Len(chain') = Len(chain) + 1
    /\ SubSeq(chain', 1, Len(chain)) = chain
    /\ Extends(Last(chain'))
    /\ UNCHANGED open

\* The node stops accepting blocks for good.
Close == open = TRUE /\ open' = FALSE /\ UNCHANGED chain

\* A new process: the chain starts again from genesis.
Reopen == open' = TRUE /\ chain' = <<GenesisBlock>>

Spec == Init /\ [][Accept \/ Close \/ Reopen]_ledgerVars

=============================================================================
