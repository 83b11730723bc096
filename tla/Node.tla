------------------------------- MODULE Node -------------------------------
(***************************************************************************)
(* A running node: the Blockchain and Mempool objects shared by the mining *)
(* threads of src/mining/miner.cpp and by the RPC thread of RpcApi, with   *)
(* the Wallet main.cpp loads.                                              *)
(*                                                                         *)
(* pc[t] = "idle" is the top of Miner::miningLoop's while loop; "mine" is  *)
(* the nonce search; "addBlock" and after are the Blockchain call;         *)
(* "exited" is a thread that has left the loop.  The RPC thread calls      *)
(* addBlock for mining.submit as thread RpcThread.  main's shutdown sets   *)
(* the stop flag and joins the mining threads.                             *)
(***************************************************************************)
EXTENDS RpcApi

CONSTANTS
    Payout,         \* the miner's payout script (P2PKH of the configured hash)
    InitBackup,     \* the first line of wallet_backup.txt at the first start, or NoFile
    RpcThread,      \* the RPC pool thread, as a caller of addBlock
    MaxClock,       \* bound on the wall clock
    MaxHeight       \* bound on the chain height explored

ASSUME "mining.submit" \in Methods => RpcThread \in Threads

VARIABLES
    clock,          \* std::time(nullptr)
    mining,         \* Miner::mining_
    phase,          \* main: "running" (sleep loop), "stopping" (in miner->stop()), "stopped"
    finalHeight,    \* the height main writes to mined_summary.txt
    restarts        \* the starts of the node after the first (Lifecycle)

lifeVars == <<mining, phase, finalHeight, restarts>>

nodeVars == <<chainVars, callVars, mempool, clock, walletVars, rpcVars, lifeVars>>

\* The mining threads: every addBlock caller but the RPC thread.
Miners == Threads \ {RpcThread}

\* The wallet main.cpp loads: wallet.dat is absent (only tests call
\* saveToFile), so a non-empty first line of wallet_backup.txt is restored
\* with the passphrase "", and otherwise the wallet has no seed.
StartupSeed(line) ==
    IF line \in {NoFile, EmptyLine} THEN NoSeed ELSE MnemonicToSeed(line, "")

\* The objects main.cpp builds: a Blockchain at genesis, an empty mempool,
\* the wallet loaded from the data directory, the miner threads started.
Boot ==
    /\ InitChain
    /\ pc = [t \in Threads |-> "idle"]
    /\ blk = [t \in Threads |-> GenesisBlock]
    /\ newHeight = [t \in Threads |-> 0]
    /\ calls = [t \in Threads |-> <<>>]
    /\ mempool = {}
    /\ seed = StartupSeed(backup.mnemonic)
    /\ keys = {}
    /\ wpc = "idle"
    /\ wtx = Tx(<<>>, <<>>)
    /\ sendResult = "none"
    /\ infoHeight = 0
    /\ info = NoInfo
    /\ mining = TRUE
    /\ phase = "running"

\* The first start: the clock at genesis time, no request served, no
\* summary written yet.
Init ==
    /\ backup = [mnemonic |-> InitBackup, of |-> StartupSeed(InitBackup)]
    /\ Boot
    /\ clock = GenesisTime
    /\ requests = 0
    /\ finalHeight = 0
    /\ restarts = 0

-----------------------------------------------------------------------------
(* Miner::miningLoop *)

\* One iteration up to the nonce search: previous hash and height read from
\* the chain, the coinbase paying getBlockSubsidy(height + 1) to the payout
\* script, the mempool's template appended, the easy target.
MinerBuild(t) ==
    /\ pc[t] = "idle"
    /\ mining
    /\ blk' = [blk EXCEPT ![t] =
                 Block(bestBlockHash,
                       <<Coinbase(GetBlockSubsidy(height + 1), Payout)>>
                         \o GetBlockTemplate,
                       clock, EASY_MINE_DIFFICULTY, FALSE)]
    /\ Goto(t, "mine")
    /\ UNCHANGED <<chainVars, newHeight, calls, mempool, clock, walletVars, rpcVars, lifeVars>>

\* The loop passing getHeight() rather than getHeight() + 1.
MineFoundStaleHeight(t) ==
    /\ pc[t] = "mine"
    /\ blk' = [blk EXCEPT ![t].pow = TRUE]
    /\ newHeight' = [newHeight EXCEPT ![t] = height]
    /\ Goto(t, "addBlock")
    /\ UNCHANGED <<chainVars, calls, mempool, clock, walletVars, rpcVars, lifeVars>>

\* mineBlock returns true: the header meets the target.  The loop reads
\* getHeight() + 1 as the height to add the block at.
MineFound(t) ==
    /\ pc[t] = "mine"
    /\ blk' = [blk EXCEPT ![t].pow = TRUE]
    /\ newHeight' = [newHeight EXCEPT ![t] = height + 1]
    /\ Goto(t, "addBlock")
    /\ UNCHANGED <<chainVars, calls, mempool, clock, walletVars, rpcVars, lifeVars>>

\* mineBlock returns false: no nonce of 2^32 meets the target.
MineExhausted(t) ==
    /\ pc[t] = "mine"
    /\ Goto(t, "idle")
    /\ UNCHANGED <<chainVars, blk, newHeight, calls, mempool, clock, walletVars, rpcVars, lifeVars>>

\* The while condition reads mining_ false: the thread returns.
MinerExit(t) ==
    /\ pc[t] = "idle"
    /\ ~mining
    /\ Goto(t, "exited")
    /\ UNCHANGED <<chainVars, blk, newHeight, calls, mempool, clock, walletVars, rpcVars, lifeVars>>

MinerStep(t) ==
    \/ MinerBuild(t)
    \/ MineFound(t)
    \/ MineExhausted(t)
    \/ MinerExit(t)
    \/ AddBlockStep(t) /\ UNCHANGED <<mempool, clock, walletVars, rpcVars, lifeVars>>

\* The wall clock advances.
Tick ==
    /\ clock < MaxClock
    /\ clock' = clock + 1
    /\ UNCHANGED <<chainVars, callVars, mempool, walletVars, rpcVars, lifeVars>>

-----------------------------------------------------------------------------
(* mining.submit: the handler decodes the payload and calls addBlock at    *)
(* getHeight() + 1 on the RPC thread.                                      *)

\* The block a client builds from an earlier getblocktemplate: on the block
\* at height k, paying its own address, with the mempool's transactions.
SubmittedBlock(k) ==
    Block(heightIndex[k], <<Coinbase(GetBlockSubsidy(k + 1), AddrScript(Dest))>> \o GetBlockTemplate,
          clock, EASY_MINE_DIFFICULTY, TRUE)

\* The request fails before addBlock (no "blockhex" param, a payload that
\* hexDecode leaves empty or deserializeBlock rejects), or the decoded
\* block goes to addBlock on the RPC thread.
SubmitStart ==
    /\ Request("mining.submit")
    /\ \/ UNCHANGED <<callVars, wpc>>
       \/ /\ ParseKeepsParams
          /\ \E k \in DOMAIN heightIndex :
                /\ blk' = [blk EXCEPT ![RpcThread] = SubmittedBlock(k)]
                /\ newHeight' = [newHeight EXCEPT ![RpcThread] = height + 1]
                /\ Goto(RpcThread, "addBlock")
          /\ wpc' = "submit"
          /\ UNCHANGED calls
    /\ UNCHANGED <<chainVars, mempool, walletVars, wtx, sendResult, infoHeight, info, clock, lifeVars>>

\* A step of the RPC thread's addBlock call.
RpcAddBlock ==
    /\ wpc = "submit"
    /\ AddBlockStep(RpcThread)
    /\ UNCHANGED <<mempool, clock, walletVars, rpcVars, lifeVars>>

\* addBlock has returned: the response is written.
SubmitDone ==
    /\ wpc = "submit"
    /\ pc[RpcThread] = "idle"
    /\ wpc' = "idle"
    /\ UNCHANGED <<chainVars, callVars, mempool, clock, walletVars, wtx, requests,
                   sendResult, infoHeight, info, lifeVars>>

NodeRpcStep ==
    \/ RpcStep /\ UNCHANGED <<clock, lifeVars>>
    \/ SubmitStart \/ RpcAddBlock \/ SubmitDone

-----------------------------------------------------------------------------
(* Shutdown: main leaves its sleep loop on the signal flag and calls       *)
(* miner->stop(), which clears mining_ and joins every mining thread; then *)
(* it reads getHeight() for the summary file and returns.                  *)

Shutdown ==
    /\ phase = "running"
    /\ phase' = "stopping"
    /\ mining' = FALSE
    /\ UNCHANGED <<chainVars, callVars, mempool, clock, walletVars, rpcVars, finalHeight, restarts>>

\* A stop() that returns without waiting for the threads.
JoinedNoWait ==
    /\ phase = "stopping"
    /\ phase' = "stopped"
    /\ finalHeight' = height
    /\ UNCHANGED <<chainVars, callVars, mempool, clock, walletVars, rpcVars, mining, restarts>>

\* Every join has returned: each mining thread has left its loop.
Joined ==
    /\ phase = "stopping"
    /\ \A t \in Miners : pc[t] = "exited"
    /\ phase' = "stopped"
    /\ finalHeight' = height
    /\ UNCHANGED <<chainVars, callVars, mempool, clock, walletVars, rpcVars, mining, restarts>>

\* main has returned.
Terminated == phase = "stopped" /\ UNCHANGED nodeVars

Next ==
    \/ \E t \in Miners : MinerStep(t)
    \/ phase # "stopped" /\ NodeRpcStep
    \/ Tick
    \/ Shutdown \/ Joined \/ Terminated

\* Every mining thread keeps running its loop, and a nonce search that can
\* succeed eventually does (a failure after 2^32 nonces at the easy target
\* has probability 0 over repeated searches); a stop() whose threads have
\* all returned returns.  Neither the RPC client nor the signal is obliged
\* to come.
Spec ==
    /\ Init /\ [][Next]_nodeVars
    /\ \A t \in Miners : WF_nodeVars(MinerStep(t)) /\ SF_nodeVars(MineFound(t))
    /\ WF_nodeVars(Tick) /\ WF_nodeVars(Joined)

\* The explored states: the chain up to MaxHeight.
HeightBound == height <= MaxHeight

-----------------------------------------------------------------------------
(* Properties *)

PcValues == {"idle", "mine", "addBlock", "validate", "precheck", "connect", "exited"}

\* Every variable has its type; besides, no UTXO entry exceeds MAX_MONEY and
\* sendtoaddress never builds a zero-value output (the change output is only
\* added when the change is positive).
TypeOK ==
    /\ pc \in [Threads -> PcValues]
    /\ height \in Nat /\ newHeight \in [Threads -> Nat]
    /\ DOMAIN heightIndex \subseteq Nat
    /\ \A op \in DOMAIN utxo : utxo[op].amount \in 0..MAX_MONEY
    /\ \A t \in Threads : pc[t] = "connect" =>
          \A i \in DOMAIN calls[t] : calls[t][i].call \in {"has", "spend", "put"}
    /\ wpc \in {"idle", "sign", "add", "info", "submit"}
    /\ \A i \in DOMAIN wtx.outs : wtx.outs[i].amount \in 1..MAX_MONEY
    /\ seed \in Seeds \cup {NoSeed} /\ keys \subseteq Seeds \X Nat
    /\ backup \in [mnemonic : Mnemonics \cup {NoFile, EmptyLine}, of : Seeds \cup {NoSeed}]
    /\ requests \in 0..MaxRequests /\ clock \in GenesisTime..MaxClock
    /\ mining \in BOOLEAN /\ phase \in {"running", "stopping", "stopped"}

\* No thread is inside connectBlockUTXO.
Quiescent == \A t \in Threads : pc[t] # "connect"

\* The blocks from genesis to the best block, by the height index.
ChainBlocks == [i \in 1..(height + 1) |-> blockCache[heightIndex[i - 1]]]

\* The UTXO set a block's connection should leave: its inputs removed, then
\* its outputs written.
ApplyBlock(u, b) ==
    FoldLeft(LAMBDA v, c : (c.op :> c.entry) @@ v,
             [o \in DOMAIN u \ Range(SpentOutPoints(b)) |-> u[o]],
             CreatedOutputs(b))

\* The height index is a linked chain from genesis to the best block, and
\* nothing is indexed above the height: addBlock's prev-hash and height
\* checks, with connectBlock's index and best-pointer update, extend the
\* chain by exactly one block per accepted call.
ChainLinked ==
    /\ DOMAIN heightIndex = 0..height
    /\ bestBlockHash = heightIndex[height]
    /\ \A h \in 1..height : blockCache[heightIndex[h]].header.prev = heightIndex[h - 1]

\* Whenever no thread is inside connectBlockUTXO, the UTXO set is exactly
\* genesis through the best block applied in order (spec, chain state
\* invariant): no block partly applied, skipped or applied twice.
UtxoMatchesChain == Quiescent => utxo = FoldLeft(ApplyBlock, <<>>, ChainBlocks)

\* No outpoint is spent twice along the chain: the second spend of an
\* outpoint, by the same or another transaction, fails (spec, testable
\* properties).  Coinbase outputs included: every miner coinbase is keyed by
\* getTxid, which leaves out the height-bearing scriptSig.
NoDoubleSpend ==
    IsInjective(FlattenSeq([i \in DOMAIN ChainBlocks |-> SpentOutPoints(ChainBlocks[i])]))

\* A blockchain.info response pairs a height with the hash of the block at
\* that height.
InfoConsistent == info.valid => heightIndex[info.blocks] = info.best

\* The miners keep extending the chain: from every height below the bound
\* a higher one is eventually reached, unless shutdown has stopped them.
Progress == \A n \in 0..(MaxHeight - 1) : (height = n) ~> (height > n \/ ~mining)

\* The abstract chain is the height index read from genesis to the best
\* block; the node is open until stop() has returned.
Ledger == INSTANCE ChainLedger WITH chain <- ChainBlocks, open <- phase # "stopped"

\* The node implements ChainLedger: every commit of connectBlock puts one
\* whole block on top of the best one, spending only outputs the chain
\* left unspent, each once, and none is committed once stop() has
\* returned; every other step, a UTXO call of connectBlockUTXO included,
\* leaves the chain as it was.
LedgerRefinement == Ledger!Spec

\* The total_shwn main writes to mined_summary.txt, getTotalSupplyUpTo of
\* the height it read after miner->stop(), is what the coinbases of the
\* chain's blocks up to that height created: genesis included, and each
\* miner coinbase paying the subsidy of the height it was built for.
SummaryTotalIssued ==
    phase = "stopped" =>
        GetTotalSupplyUpTo(finalHeight)
          = FoldLeft(LAMBDA t, b : t + b.txs[1].outs[1].amount, 0,
                     SubSeq(ChainBlocks, 1, finalHeight + 1))

=============================================================================
