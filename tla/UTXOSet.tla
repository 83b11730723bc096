------------------------------- MODULE UTXOSet -------------------------------
(***************************************************************************)
(* UTXOSet of src/core/utxo.{hpp,cpp}: a std::map OutPoint -> Entry        *)
(* guarded by one mutex.  Each method holds the mutex for its whole body,  *)
(* so each is one atomic step; sequences of calls are not atomic.          *)
(***************************************************************************)
EXTENDS Naturals, TLC

VARIABLE utxo   \* map_: a function from OutPoints to [amount, script]

\* UTXOSet::has
Has(op) == op \in DOMAIN utxo

\* UTXOSet::get (callers test Has first: get returns nullopt otherwise)
Get(op) == utxo[op]

\* UTXOSet::put: map_[out] = {amount, script}, inserting or overwriting
\* A put that credits an existing entry instead of overwriting it.
PutCredit(op, entry) ==
    utxo' = (op :> [entry EXCEPT !.amount = @ + IF op \in DOMAIN utxo
                                                THEN utxo[op].amount ELSE 0])
            @@ utxo

Put(op, entry) == utxo' = (op :> entry) @@ utxo

\* UTXOSet::spend: map_.erase(out); the result is ignored by every caller
Spend(op) == utxo' = [o \in DOMAIN utxo \ {op} |-> utxo[o]]

\* UTXOSet::snapshot: a copy of map_
Snapshot == utxo

=============================================================================
