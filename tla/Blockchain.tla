----------------------------- MODULE Blockchain -----------------------------
(***************************************************************************)
(* Blockchain of src/core/blockchain.{hpp,cpp} with the MemoryChainState   *)
(* it persists to (src/storage/chainstate.cpp).                            *)
(*                                                                         *)
(* addBlock is called by several threads.  Each call is split where the   *)
(* code releases a lock: the checks under the chain mutex (addBlock), the  *)
(* validation reads (connectBlock), every UTXOSet call of the input        *)
(* pre-check and of connectBlockUTXO, and the final update under the chain *)
(* mutex.  pc[t] is where thread t is; "idle" means it is in its caller.   *)
(***************************************************************************)
EXTENDS Consensus, UTXOSet

CONSTANT Threads    \* the threads that call addBlock

VARIABLES
    bestBlockHash,  \* bestBlockHash_
    height,         \* height_
    blockCache,     \* blockCache_: block hash -> block
    heightIndex,    \* heightIndex_: height -> block hash
    stored,         \* MemoryChainState: blocks_ (hash -> block), bestHash_, bestHeight_
    pc,             \* thread -> program location
    blk,            \* thread -> the block it is adding
    newHeight,      \* thread -> the height argument of its addBlock call
    calls           \* thread -> the UTXOSet calls it has still to make

chainVars == <<utxo, bestBlockHash, height, blockCache, heightIndex, stored>>
callVars  == <<pc, blk, newHeight, calls>>

\* Blockchain::Blockchain(): genesis at height 0, connected to the UTXO set;
\* a fresh MemoryChainState, which Blockchain::init finds at height 0 and so
\* leaves the genesis state in place.
GenesisUtxo ==
    FoldLeft(LAMBDA u, c : (c.op :> c.entry) @@ u, <<>>, CreatedOutputs(GenesisBlock))

NewChainState == [blocks |-> <<>>, best |-> ZeroHash, bestHeight |-> 0]

InitChain ==
    /\ bestBlockHash = BlockHash(GenesisBlock)
    /\ height = 0
    /\ blockCache = (BlockHash(GenesisBlock) :> GenesisBlock)
    /\ heightIndex = (0 :> BlockHash(GenesisBlock))
    /\ utxo = GenesisUtxo
    /\ stored = NewChainState

\* MemoryChainState::putBlock then setBestBlock.
StoreBlock(st, hash, b, h) ==
    [blocks |-> (hash :> b) @@ st.blocks, best |-> hash, bestHeight |-> h]

Goto(t, where) == pc' = [pc EXCEPT ![t] = where]

\* addBlock without the previous-hash check.
AddBlockNoPrevCheck(t) ==
    /\ pc[t] = "addBlock"
    /\ LET hash == BlockHash(blk[t]) IN
       IF \/ hash \in DOMAIN blockCache
          \/ newHeight[t] # height + 1
       THEN Goto(t, "idle")
       ELSE Goto(t, "validate")
    /\ UNCHANGED <<chainVars, blk, newHeight, calls>>

\* addBlock(block, height), lines under the chain mutex.  A known block
\* returns true, a wrong height or previous hash returns false: either way
\* the call ends.  Otherwise it goes on to connectBlock without the mutex.
AddBlock(t) ==
    /\ pc[t] = "addBlock"
    /\ LET hash == BlockHash(blk[t]) IN
       IF \/ hash \in DOMAIN blockCache
          \/ newHeight[t] # height + 1
          \/ blk[t].header.prev # bestBlockHash
       THEN Goto(t, "idle")
       ELSE Goto(t, "validate")
    /\ UNCHANGED <<chainVars, blk, newHeight, calls>>

\* connectBlock up to the input pre-check: validateBlockStructure, then
\* checkDifficulty, which reads the chain as it is now, and the structure of
\* every non-coinbase transaction.  All of these only read, so the order in
\* which the code interleaves them with the pre-check cannot change the
\* outcome.
Validate(t) ==
    /\ pc[t] = "validate"
    /\ LET b == blk[t] IN
       IF /\ ValidateBlockStructure(b)
          /\ CheckDifficulty(height, heightIndex, blockCache, b.header)
          /\ \A i \in 2..Len(b.txs) : ValidateTransactionStructure(b.txs[i])
       THEN IF SpentOutPoints(b) = <<>>
            THEN /\ Goto(t, "connect")
                 /\ calls' = [calls EXCEPT ![t] = ConnectBlockUTXOCalls(b)]
            ELSE /\ Goto(t, "precheck")
                 /\ calls' = [calls EXCEPT ![t] = SpentOutPoints(b)]
       ELSE /\ Goto(t, "idle")
            /\ UNCHANGED calls
    /\ UNCHANGED <<chainVars, blk, newHeight>>

\* connectBlock's pre-check: one utxo_.has(op) per input, each under the
\* UTXO mutex only.
Precheck(t) ==
    /\ pc[t] = "precheck"
    /\ IF Has(Head(calls[t]))
       THEN IF Tail(calls[t]) = <<>>
            THEN /\ Goto(t, "connect")
                 /\ calls' = [calls EXCEPT ![t] = ConnectBlockUTXOCalls(blk[t])]
            ELSE /\ calls' = [calls EXCEPT ![t] = Tail(@)]
                 /\ UNCHANGED pc
       ELSE /\ Goto(t, "idle")
            /\ UNCHANGED calls
    /\ UNCHANGED <<chainVars, blk, newHeight>>

\* One UTXOSet call of connectBlockUTXO.  A failed has() returns false with
\* the spends already made left in place.
ConnectStep(t) ==
    /\ pc[t] = "connect"
    /\ calls[t] # <<>>
    /\ LET c == Head(calls[t]) IN
       CASE c.call = "has" ->
              IF Has(c.op)
              THEN /\ UNCHANGED <<utxo, pc>>
                   /\ calls' = [calls EXCEPT ![t] = Tail(@)]
              ELSE /\ Goto(t, "idle")
                   /\ UNCHANGED <<utxo, calls>>
         [] c.call = "spend" ->
              /\ Spend(c.op)
              /\ calls' = [calls EXCEPT ![t] = Tail(@)]
              /\ UNCHANGED pc
         [] c.call = "put" ->
              /\ Put(c.op, c.entry)
              /\ calls' = [calls EXCEPT ![t] = Tail(@)]
              /\ UNCHANGED pc
    /\ UNCHANGED <<bestBlockHash, height, blockCache, heightIndex, stored,
                   blk, newHeight>>

\* The final update without the height index write.
CommitNoIndex(t) ==
    /\ pc[t] = "connect"
    /\ calls[t] = <<>>
    /\ blockCache' = (BlockHash(blk[t]) :> blk[t]) @@ blockCache
    /\ bestBlockHash' = BlockHash(blk[t])
    /\ height' = newHeight[t]
    /\ stored' = StoreBlock(stored, BlockHash(blk[t]), blk[t], newHeight[t])
    /\ Goto(t, "idle")
    /\ UNCHANGED <<utxo, heightIndex, blk, newHeight, calls>>

\* connectBlock after connectBlockUTXO returned true, under the chain mutex:
\* cache the block, index it, make it best, and persist block and best
\* pointer (saveToDisk every 10 blocks writes a file nothing reads back).
Commit(t) ==
    /\ pc[t] = "connect"
    /\ calls[t] = <<>>
    /\ LET b == blk[t]
           hash == BlockHash(b)
           h == newHeight[t]
       IN  /\ blockCache' = (hash :> b) @@ blockCache
           /\ heightIndex' = (h :> hash) @@ heightIndex
           /\ bestBlockHash' = hash
           /\ height' = h
           /\ stored' = StoreBlock(stored, hash, b, h)
    /\ Goto(t, "idle")
    /\ UNCHANGED <<utxo, blk, newHeight, calls>>

\* Every step of an addBlock call in progress.
AddBlockStep(t) ==
    \/ AddBlock(t)
    \/ Validate(t)
    \/ Precheck(t)
    \/ ConnectStep(t)
    \/ Commit(t)

=============================================================================
