------------------------------ MODULE Lifecycle ------------------------------
(***************************************************************************)
(* The node process over several runs, with wallet_tool run beside it.    *)
(* What outlives a node process is its data directory: wallet_backup.txt   *)
(* (backup) and mined_summary.txt (finalHeight).  blockchain.dat is not    *)
(* read back: loadFromDisk has no caller, so every start begins at         *)
(* genesis.  The wall clock runs on across runs.  A run ends at a clean    *)
(* shutdown or when the process is killed.                                 *)
(***************************************************************************)
EXTENDS Node, WalletTool

CONSTANT MaxRestarts    \* bound on the node starts after the first

\* A new node process: main.cpp from the top builds new objects as in
\* Boot and loads the wallet from wallet_backup.txt; the files of the data
\* directory and the wall clock are what the old process left.
Relaunch ==
    /\ restarts < MaxRestarts
    /\ restarts' = restarts + 1
    /\ bestBlockHash' = BlockHash(GenesisBlock)
    /\ height' = 0
    /\ blockCache' = (BlockHash(GenesisBlock) :> GenesisBlock)
    /\ heightIndex' = (0 :> BlockHash(GenesisBlock))
    /\ utxo' = GenesisUtxo
    /\ stored' = NewChainState
    /\ pc' = [t \in Threads |-> "idle"]
    /\ blk' = [t \in Threads |-> GenesisBlock]
    /\ newHeight' = [t \in Threads |-> 0]
    /\ calls' = [t \in Threads |-> <<>>]
    /\ mempool' = {}
    /\ seed' = StartupSeed(backup.mnemonic)
    /\ keys' = {}
    /\ wpc' = "idle"
    /\ wtx' = Tx(<<>>, <<>>)
    /\ sendResult' = "none"
    /\ infoHeight' = 0
    /\ info' = NoInfo
    /\ mining' = TRUE
    /\ phase' = "running"
    /\ UNCHANGED <<backup, clock, requests, finalHeight>>

\* The node is started again once main has returned.
Restart == phase = "stopped" /\ Relaunch

\* The process is killed (SIGKILL, power loss) between two steps and
\* started again: main's shutdown code does not run, so the summary file
\* keeps what an earlier run wrote.  File writes are taken as atomic.
Crash == phase # "stopped" /\ Relaunch

SystemNext ==
    \/ Next
    \/ Restart
    \/ Crash
    \/ ToolRun /\ UNCHANGED <<chainVars, callVars, mempool, clock, rpcVars, lifeVars>>

\* The fairness of Spec; starts and tool runs are the user's choice.
SystemSpec ==
    /\ Init /\ [][SystemNext]_nodeVars
    /\ \A t \in Miners : WF_nodeVars(MinerStep(t)) /\ SF_nodeVars(MineFound(t))
    /\ WF_nodeVars(Tick) /\ WF_nodeVars(Joined)

-----------------------------------------------------------------------------
(* Properties *)

\* A node started again, after a shutdown or a kill, has the wallet the backup file was taken of: the
\* seed main.cpp restores from wallet_backup.txt is the seed of the wallet
\* that wrote the file, so the node derives the addresses wallet_tool
\* printed, or the node handed out, for it.  main.cpp restores the
\* mnemonic with the passphrase "".
BackupRestoresWallet == [][Relaunch => seed' = backup.of]_nodeVars

=============================================================================
