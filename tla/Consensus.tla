----------------------------- MODULE Consensus -----------------------------
(***************************************************************************)
(* The validation rules of src/core/consensus.cpp as pure operators, and   *)
(* connectBlockUTXO as the sequence of UTXOSet calls it makes: each call   *)
(* takes the set's mutex on its own, so the calls are separate steps of    *)
(* whichever thread runs them.                                             *)
(***************************************************************************)
EXTENDS CoreTypes, Difficulty, FiniteSets

CONSTANT DIFFICULTY_INTERVAL    \* 2016

LOCAL M == INSTANCE Merkle

\* validateTransactionStructure.  Amounts are far below 2^64 in the model,
\* so the uint64 wraparound test (outSum + o.amount < outSum) never fires.
ValidateTransactionStructure(tx) ==
    /\ tx.outs # <<>>
    /\ \A i \in DOMAIN tx.outs : tx.outs[i].amount <= MAX_MONEY
    /\ TotalOutput(tx) <= MAX_MONEY
    /\ IsCoinbase(tx) \/ tx.ins # <<>>

\* checkProofOfWork: the header hash against the decoded target; the
\* outcome is fixed by the nonce search that produced the header.
CheckProofOfWork(b) == b.pow

\* validateBlockStructure.  The "timestamp > now + 2h" rejection is not
\* modelled: every modelled block is stamped by the miner with the clock.
ValidateBlockStructure(b) ==
    /\ b.txs # <<>>
    /\ IsCoinbase(b.txs[1])
    /\ M!ComputeMerkleRoot([i \in DOMAIN b.txs |-> Txid(b.txs[i])]) = b.header.merkle
    /\ b.header.target.mant % (MANT_MAX + 1) # 0
    /\ CheckProofOfWork(b)

\* checkDifficulty(chain, header): chain is read through getHeight and
\* getBlockByHeight (height index, then block cache); a missing block
\* accepts (previous) or falls back to the previous target (first).
CheckDifficulty(height, heightIndex, blockCache, header) ==
    LET Known(h)    == h \in DOMAIN heightIndex /\ heightIndex[h] \in DOMAIN blockCache
        ByHeight(h) == blockCache[heightIndex[h]]
        prevTarget  == ByHeight(height).header.target
        nextHeight  == height + 1
    IN  IF height = 0 \/ ~Known(height) THEN TRUE
        ELSE IF nextHeight % DIFFICULTY_INTERVAL # 0 THEN header.target = prevTarget
        ELSE IF height < DIFFICULTY_INTERVAL - 1 THEN header.target = prevTarget
        ELSE IF ~Known(height - (DIFFICULTY_INTERVAL - 1)) THEN header.target = prevTarget
        ELSE header.target =
                GetAdaptiveNextDifficulty(
                    prevTarget,
                    ByHeight(height).header.time,
                    ByHeight(height - (DIFFICULTY_INTERVAL - 1)).header.time,
                    DIFFICULTY_INTERVAL, nextHeight)

OutPoint(tx, i) == [hash |-> Txid(tx), index |-> i]

\* The inputs of the non-coinbase transactions, in loop order.
SpentOutPoints(b) ==
    FlattenSeq([i \in 1..(Len(b.txs) - 1) |-> b.txs[i + 1].ins])

\* The outputs of every transaction (coinbase included), in loop order.
CreatedOutputs(b) ==
    FlattenSeq([i \in DOMAIN b.txs |->
        [j \in DOMAIN b.txs[i].outs |->
            [op |-> OutPoint(b.txs[i], j - 1), entry |-> b.txs[i].outs[j]]]])

\* connectBlockUTXO with the output loop before the input loop.
ConnectBlockUTXOCallsPutFirst(b) ==
    [k \in DOMAIN CreatedOutputs(b) |->
        [call |-> "put", op |-> CreatedOutputs(b)[k].op, entry |-> CreatedOutputs(b)[k].entry]]
    \o FlattenSeq([k \in DOMAIN SpentOutPoints(b) |->
                    <<[call |-> "has", op |-> SpentOutPoints(b)[k]],
                      [call |-> "spend", op |-> SpentOutPoints(b)[k]]>>])

\* connectBlockUTXO: for each input "if (!utxo.has(op)) return false;
\* utxo.spend(op);", then utxo.put for each output.
ConnectBlockUTXOCalls(b) ==
    FlattenSeq([k \in DOMAIN SpentOutPoints(b) |->
                  <<[call |-> "has", op |-> SpentOutPoints(b)[k]],
                    [call |-> "spend", op |-> SpentOutPoints(b)[k]]>>])
    \o [k \in DOMAIN CreatedOutputs(b) |->
          [call |-> "put", op |-> CreatedOutputs(b)[k].op,
                           entry |-> CreatedOutputs(b)[k].entry]]

=============================================================================
