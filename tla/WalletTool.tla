----------------------------- MODULE WalletTool -----------------------------
(***************************************************************************)
(* tools/wallet_tool.cpp: a process of its own, with its own Wallet w,     *)
(* run against the node's data directory.  It prints the mnemonic and the  *)
(* first count addresses generateNewAddress derives from w's seed; with    *)
(* --backup it also writes the mnemonic, and nothing else, as the only     *)
(* line of wallet_backup.txt.  Printing leaves no state, so a run without  *)
(* --backup changes nothing; a run with it replaces the backup file, whose *)
(* history field records the seed the printed addresses came from.         *)
(***************************************************************************)
EXTENDS Wallet

\* wallet_tool create --passphrase=p --backup: w.create(p) draws a new
\* mnemonic, and the mnemonic alone is written to wallet_backup.txt.
ToolCreate(p) ==
    \E m \in Fresh :
        /\ backup' = [mnemonic |-> m, of |-> MnemonicToSeed(m, p)]
        /\ UNCHANGED <<seed, keys>>

\* wallet_tool restore --mnemonic=m --passphrase=p --backup: w.restore(m, p),
\* and --mnemonic alone is written to wallet_backup.txt (an empty
\* --mnemonic is refused before any write; every m here is non-empty).
ToolRestore(m, p) ==
    /\ backup' = [mnemonic |-> m, of |-> MnemonicToSeed(m, p)]
    /\ UNCHANGED <<seed, keys>>

\* One run of the tool that writes the backup file.
ToolRun ==
    \/ \E p \in Passphrases : ToolCreate(p)
    \/ \E m \in Mnemonics, p \in Passphrases : ToolRestore(m, p)

=============================================================================
