------------------------------ MODULE MCNode ------------------------------
(***************************************************************************)
(* Model values and bounds for Node.  Money is in units of one coin-sized  *)
(* amount: the subsidy is 2, a request sends 1, so every send has change.  *)
(* The halving and retarget intervals lie beyond the explored heights      *)
(* here; some configurations bring them within reach.  The miner pays the  *)
(* wallet's first address (mineaddr generated by an earlier run), through  *)
(* addressToPubKeyHash: where AddressDecodes is FALSE, as built, main.cpp  *)
(* rejects mineaddr and the miner pays twenty zero bytes.                  *)
(***************************************************************************)
EXTENDS Node, TLC

MCZeroScript == <<"p2pkh", <<<<"zero", "">>, 0>>>>  \* hash160 of twenty zero bytes
MCDest == <<<<"ext", "">>, 0>>                 \* an address of a seed outside the wallet
MCPayout == AddrScript(Address(MnemonicToSeed("m1", ""), 0))
MCInitialDifficulty == Compact(29, 65535)       \* 0x1d00ffff
MCEasyDifficulty == Compact(4, 65535)           \* 0x0400ffff
MCThreads1 == {"t1"}

\* The RPC thread alone: no mining thread, blocks come from mining.submit.
MCThreadsRpc == {"rpc"}
ThreadSymmetry == Permutations(Threads)

=============================================================================
