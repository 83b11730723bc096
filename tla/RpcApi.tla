------------------------------ MODULE RpcApi ------------------------------
(***************************************************************************)
(* handleRpcRequest of src/rpc/api.cpp, every method it dispatches, run by *)
(* one RPC thread (the server's pool has one thread) against the node's    *)
(* Blockchain, Mempool and Wallet.  A handler that only reads is one step  *)
(* that changes nothing but the request count; its result is a set the    *)
(* properties name (Listed, Counted).                                      *)
(*                                                                         *)
(* SimpleJson::parse keeps only the "method" member of a request, so every *)
(* handler sees params = json::object().  ParseKeepsParams = FALSE is that *)
(* parser; TRUE stands for a parser that returns the params the CLI sends  *)
(* (an array [address, amount, fee]), and is what the handler bodies need  *)
(* to be reached at all.                                                   *)
(***************************************************************************)
EXTENDS Blockchain, Mempool, Wallet

CONSTANTS
    ParseKeepsParams,   \* whether the handlers receive the request's params
    Dest,               \* the sendtoaddress destination address
    Amounts,            \* the amounts a request may ask for
    Fees,               \* the fees a request may give
    Methods,            \* the methods the client calls
    MaxRequests         \* bound on the number of requests

VARIABLES
    wpc,            \* where the current request is: "idle", "sign", "add", "info", "submit"
    wtx,            \* the transaction sendtoaddress is building
    requests,       \* how many requests have been made
    sendResult,     \* the result or error text of the last sendtoaddress
    infoHeight,     \* the height blockchain.info has read so far
    info            \* the last blockchain.info response

rpcVars == <<wpc, wtx, requests, sendResult, infoHeight, info>>

NoInfo == [valid |-> FALSE, blocks |-> 0, best |-> ZeroHash]

ParamsError == "params: [address, amount_satoshis]"

\* A request is made: the method is one the client calls.
Request(m) ==
    /\ m \in Methods
    /\ wpc = "idle"
    /\ requests < MaxRequests
    /\ requests' = requests + 1

-----------------------------------------------------------------------------
(* wallet.create and wallet.getnewaddress *)

\* wallet.create: the passphrase defaults to "" when absent, so the call
\* goes through whatever the parser keeps.
RpcCreate ==
    /\ Request("wallet.create")
    /\ IF ParseKeepsParams THEN \E p \in Passphrases : Create(p) ELSE Create("")
    /\ UNCHANGED <<chainVars, callVars, mempool, wpc, wtx, sendResult, infoHeight, info>>

RpcGetNewAddress ==
    /\ Request("wallet.getnewaddress")
    /\ GenerateNewAddress
    /\ UNCHANGED <<chainVars, callVars, mempool, wpc, wtx, sendResult, infoHeight, info>>

\* wallet.restore: without a "mnemonic" param the request fails; the
\* passphrase defaults to "".
RpcRestore ==
    /\ Request("wallet.restore")
    /\ IF ParseKeepsParams
          THEN \E m \in Mnemonics, p \in Passphrases : Restore(m, p)
          ELSE UNCHANGED walletVars
    /\ UNCHANGED <<chainVars, callVars, mempool, wpc, wtx, sendResult, infoHeight, info>>

\* mining.getblocktemplate: reads the chain and the mempool into the
\* response and suggests a coinbase address by generateNewAddress.
RpcGetBlockTemplate ==
    /\ Request("mining.getblocktemplate")
    /\ GenerateNewAddress
    /\ UNCHANGED <<chainVars, callVars, mempool, wpc, wtx, sendResult, infoHeight, info>>

-----------------------------------------------------------------------------
(* The handlers that only read, or that fail before changing anything.     *)

\* wallet.listunspent: the snapshot's P2PKH outputs whose hash hasHash160
\* finds (every output script here is P2PKH).
Listed(snap) == {op \in DOMAIN snap : HasHash160(snap[op].script)}

RpcListUnspent ==
    /\ Request("wallet.listunspent")
    /\ UNCHANGED <<chainVars, callVars, mempool, walletVars, wpc, wtx, sendResult, infoHeight, info>>

\* wallet.getbalance: getBalance over the UTXO set (Counted).
RpcGetBalance ==
    /\ Request("wallet.getbalance")
    /\ UNCHANGED <<chainVars, callVars, mempool, walletVars, wpc, wtx, sendResult, infoHeight, info>>

\* wallet.backup: the mnemonic is written to the "path" param's file, or the
\* request fails without one.  Only a path naming the data directory's
\* wallet_backup.txt writes a file main.cpp reads.
RpcBackup ==
    /\ Request("wallet.backup")
    /\ IF ParseKeepsParams
          THEN \/ Backup
               \/ UNCHANGED walletVars
          ELSE UNCHANGED walletVars
    /\ UNCHANGED <<chainVars, callVars, mempool, wpc, wtx, sendResult, infoHeight, info>>

\* mining.start, mining.stop and mining.getstatus throw "no miner": main.cpp
\* leaves rpcCtx.miner unset, so they never reach the Miner.
RpcMinerControl ==
    /\ \E m \in {"mining.start", "mining.stop", "mining.getstatus"} : Request(m)
    /\ UNCHANGED <<chainVars, callVars, mempool, walletVars, wpc, wtx, sendResult, infoHeight, info>>

(* blockchain.info: apiBlockchainInfo reads getHeight() and then           *)
(* getBestBlockHash(), each under the chain mutex on its own.              *)

RpcInfoHeight ==
    /\ Request("blockchain.info")
    /\ infoHeight' = height
    /\ wpc' = "info"
    /\ UNCHANGED <<chainVars, callVars, mempool, walletVars, wtx, sendResult, info>>

RpcInfoBest ==
    /\ wpc = "info"
    /\ info' = [valid |-> TRUE, blocks |-> infoHeight, best |-> bestBlockHash]
    /\ wpc' = "idle"
    /\ UNCHANGED <<chainVars, callVars, mempool, walletVars, wtx, requests, sendResult, infoHeight>>

-----------------------------------------------------------------------------
(* wallet.sendtoaddress *)

\* The snapshot's outpoints whose script is one of the wallet's derived
\* addresses, in the snapshot's (map) order.
Owned(snap) == SetToSeq({op \in DOMAIN snap : Derived(snap[op].script)})

PrefixValue(snap, ops, n) ==
    FoldLeft(LAMBDA s, op : s + snap[op].amount, 0, SubSeq(ops, 1, n))

\* The greedy loop: take outpoints until the total covers the need.
Select(snap, ops, need) ==
    LET enough == {n \in 1..Len(ops) : PrefixValue(snap, ops, n) >= need}
    IN  SubSeq(ops, 1, IF enough = {} THEN Len(ops) ELSE Min(enough))

\* The change script: the new address's hash160, twenty zero bytes if
\* generateNewAddress returned "" or the address does not decode.
ChangeScript == AddrScript(NewAddress)

\* The outputs with a change output even when the change is zero.
ChangeAlways(amount, change) ==
    <<Output(amount, AddrScript(Dest)), Output(change, ChangeScript)>>

\* The outputs: the amount to the destination and, when there is change,
\* the change to the address generateNewAddress returns.
SendOutputs(amount, change) ==
    <<Output(amount, AddrScript(Dest))>> \o
        IF change > 0 THEN <<Output(change, ChangeScript)>> ELSE <<>>

\* The request up to signing: the params check, the snapshot, the greedy
\* selection, "insufficient funds", the transaction with the destination
\* output and, when there is change, a change output to a new address.
SendSelect ==
    /\ Request("wallet.sendtoaddress")
    /\ IF ~ParseKeepsParams
       THEN /\ sendResult' = ParamsError
            /\ UNCHANGED <<wpc, wtx, keys>>
       ELSE \E amount \in Amounts, fee \in Fees :
              LET snap   == Snapshot
                  sel    == Select(snap, Owned(snap), amount + fee)
                  total  == PrefixValue(snap, sel, Len(sel))
                  change == total - amount - fee
              IN  IF total < amount + fee
                  THEN /\ sendResult' = "insufficient funds"
                       /\ UNCHANGED <<wpc, wtx, keys>>
                  ELSE /\ wtx' = Tx(sel, SendOutputs(amount, change))
                       /\ IF change > 0 THEN GenerateNewAddress ELSE UNCHANGED keys
                       /\ wpc' = "sign"
                       /\ UNCHANGED sendResult
    /\ UNCHANGED <<chainVars, callVars, mempool, seed, backup, infoHeight, info>>

\* Wallet::signTransaction: utxo->get of every input, and its script among
\* the addresses derived below keys_.size(); a miss fails the request.
SendSign ==
    /\ wpc = "sign"
    /\ IF \A i \in DOMAIN wtx.ins : Has(wtx.ins[i]) /\ Derived(Get(wtx.ins[i]).script)
       THEN /\ wpc' = "add"
            /\ UNCHANGED sendResult
       ELSE /\ wpc' = "idle"
            /\ sendResult' = "failed to sign tx"
    /\ UNCHANGED <<chainVars, callVars, mempool, walletVars, wtx, requests, infoHeight, info>>

\* mempool->add(tx, fee); a rejection ends the request with an error.
SendAdd ==
    /\ wpc = "add"
    /\ IF Admits(wtx)
       THEN Add(wtx) /\ sendResult' = "ok"
       ELSE UNCHANGED mempool /\ sendResult' = "mempool rejected tx"
    /\ wpc' = "idle"
    /\ UNCHANGED <<chainVars, callVars, walletVars, wtx, requests, infoHeight, info>>

\* One step of the RPC thread.
RpcStep ==
    \/ RpcCreate \/ RpcRestore \/ RpcGetNewAddress \/ RpcGetBlockTemplate
    \/ RpcListUnspent \/ RpcGetBalance \/ RpcBackup \/ RpcMinerControl
    \/ RpcInfoHeight \/ RpcInfoBest
    \/ SendSelect \/ SendSign \/ SendAdd

=============================================================================
