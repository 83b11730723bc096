------------------------------ MODULE CoreTypes ------------------------------
(***************************************************************************)
(* The wire types of src/core/types.{hpp,cpp} and the genesis block of     *)
(* src/core/block.cpp, abstracted to what the chain logic tells apart.     *)
(*                                                                         *)
(* A transaction is represented by exactly the fields Transaction::getTxid *)
(* hashes: the (prev hash, index) of each input and the (amount, script)   *)
(* of each output (version is always 1 and lock_time 0 in this code).      *)
(* Signatures, public keys and the coinbase scriptSig are not hashed, so   *)
(* two transactions that differ only there are the same value here, as    *)
(* their txids are equal in the code.  A txid is the tagged transaction   *)
(* value itself (a collision-free hash of exactly those fields).           *)
(***************************************************************************)
EXTENDS Naturals, Sequences, SequencesExt

CONSTANTS
    ZeroHash,               \* uint256{}
    ZeroScript,             \* P2PKH script over 20 zero bytes
    INITIAL_BLOCK_SUBSIDY,  \* 25 * COIN, in model money units
    SUBSIDY_HALVING_INTERVAL,
    MAX_MONEY,              \* 12000000 * COIN, in model money units
    INITIAL_DIFFICULTY,     \* 0x1d00ffff
    EASY_MINE_DIFFICULTY,   \* 0x0400ffff
    GenesisTime             \* 1704067200

LOCAL M == INSTANCE Merkle

\* output_index of a coinbase input is 0xffffffffu; -1 is that uint32 read as
\* a two's complement int32, distinct from every real output index.
COINBASE_INDEX == -1

NullOutPoint == [hash |-> ZeroHash, index |-> COINBASE_INDEX]

\* An output and a transaction as getTxid sees them.
Output(amount, script) == [amount |-> amount, script |-> script]
Tx(ins, outs) == [ins |-> ins, outs |-> outs]
Txid(tx) == <<"txid", tx>>

\* Transaction::isCoinbase
IsCoinbase(tx) == Len(tx.ins) = 1 /\ tx.ins[1] = NullOutPoint

\* Transaction::getTotalOutput
TotalOutput(tx) == FoldLeft(LAMBDA s, o : s + o.amount, 0, tx.outs)

\* INITIAL_BLOCK_SUBSIDY >> halvings
RECURSIVE Shr(_, _)
Shr(x, n) == IF n = 0 THEN x ELSE Shr(x \div 2, n - 1)

\* getBlockSubsidy(height)
GetBlockSubsidy(height) ==
    LET halvings == height \div SUBSIDY_HALVING_INTERVAL
    IN  IF halvings >= 32 THEN 0 ELSE Shr(INITIAL_BLOCK_SUBSIDY, halvings)

\* The loop stopping before height itself.
GetTotalSupplyBelow(height) ==
    FoldLeft(LAMBDA t, h : t + GetBlockSubsidy(h), 0, [i \in 1..height |-> i - 1])

\* getTotalSupplyUpTo(height): the subsidies of heights 0 to height, both
\* included.
GetTotalSupplyUpTo(height) ==
    FoldLeft(LAMBDA t, h : t + GetBlockSubsidy(h), 0, [i \in 1..(height + 1) |-> i - 1])

\* The coinbase built by makeGenesisBlock and by the mining loop: one input
\* spending NullOutPoint, one output.  Its scriptSig (genesis message or the
\* block height) is not part of the txid.
Coinbase(amount, script) == Tx(<<NullOutPoint>>, <<Output(amount, script)>>)

\* A block: the header fields that Block::getHeaderHash hashes, the proof-of-
\* work outcome of the nonce search, and the transaction list.
Header(prev, merkle, time, target) ==
    [prev |-> prev, merkle |-> merkle, time |-> time, target |-> target]

Block(prev, txs, time, target, pow) ==
    [header |-> Header(prev, M!ComputeMerkleRoot([i \in DOMAIN txs |-> Txid(txs[i])]),
                       time, target),
     pow |-> pow,
     txs |-> txs]

\* Block::getHash: the double hash of the 80-byte header.
BlockHash(b) == b.header

\* makeGenesisBlock: nonce 0 is never searched, and the genesis block is
\* never validated, so its proof-of-work outcome is irrelevant.
GenesisBlock ==
    Block(ZeroHash, <<Coinbase(GetBlockSubsidy(0), ZeroScript)>>,
          GenesisTime, INITIAL_DIFFICULTY, FALSE)

=============================================================================
