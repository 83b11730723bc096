------------------------------- MODULE Wallet -------------------------------
(***************************************************************************)
(* The wallet of src/wallet/wallet.cpp.  Keys come from an HD seed: the    *)
(* address at index i of seed s is <<s, i>>, and its P2PKH script pays the *)
(* address's hash160.  keys_ maps every address generateNewAddress has     *)
(* returned to its hash160; as an address determines its hash, keys_ is    *)
(* the set of those addresses.  Without a seed, deriveAddress returns "".  *)
(* The seed is mnemonicToSeed(mnemonic, passphrase) (BIP39, declared in   *)
(* mnemonic.hpp): two different pairs give different seeds, so the seed is *)
(* the pair.  Key derivation and encryption are not modelled.  backup is  *)
(* the file wallet_backup.txt in the data directory: the mnemonic written *)
(* to it, with the seed of the wallet that wrote it as a history field.   *)
(*                                                                         *)
(* An address is turned back into its hash by addressToPubKeyHash.  As     *)
(* built, decodeBase58 returns its bytes in reverse order, the checksum    *)
(* never matches and every address decodes to the empty vector (Base58,   *)
(* run base58_roundtrip): AddressDecodes = FALSE.  TRUE stands for a       *)
(* decoder that inverts the encoder, under which the wallet code that     *)
(* compares hashes does anything at all.                                   *)
(***************************************************************************)
EXTENDS Naturals, FiniteSets, CoreTypes

CONSTANTS
    Mnemonics,      \* the mnemonics generateMnemonic12 may return or a user may type
    Passphrases,    \* the passphrases a user may give
    NoSeed,         \* hd_ before setSeed
    AddressDecodes, \* whether addressToPubKeyHash returns an address's hash
    NoFile          \* wallet_backup.txt absent

ASSUME "" \in Passphrases   \* the default of every passphrase parameter

VARIABLES
    seed,       \* the seed hd_ derives from
    keys,       \* keys_: the addresses generated so far
    backup      \* wallet_backup.txt: [mnemonic |-> its first line, of |-> writer's seed]

walletVars == <<seed, keys, backup>>

\* mnemonicToSeed: one seed per (mnemonic, passphrase).
MnemonicToSeed(m, p) == <<m, p>>

Seeds == {MnemonicToSeed(m, p) : m \in Mnemonics, p \in Passphrases}

\* The first line of a backup written while mnemonic_ is "".
EmptyLine == ""

\* mnemonic_: "" until create or restore.
Mnemonic == IF seed = NoSeed THEN EmptyLine ELSE seed[1]

\* Mnemonics some state still refers to.  generateMnemonic12 draws 128 bits
\* of entropy, so a new mnemonic is none of them.
InUse == {Mnemonic, backup.mnemonic} \cup {a[1][1] : a \in keys}

Fresh == Mnemonics \ InUse

Address(s, i) == <<s, i>>

\* The empty string deriveAddress returns when it has no seed.
NoAddress == <<NoSeed, 0>>

\* The empty vector of a failed addressToPubKeyHash.
NoHash == <<>>

\* addressToPubKeyHash: the address's hash160, or the empty vector for ""
\* and for every address when decoding fails.
PubKeyHash(a) == IF AddressDecodes /\ a # NoAddress THEN a ELSE NoHash

\* The P2PKH script the handlers build for an address: its decoded hash,
\* twenty zero bytes when the decoded vector is not 20 bytes long.
AddrScript(a) == IF PubKeyHash(a) = NoHash THEN ZeroScript ELSE <<"p2pkh", PubKeyHash(a)>>

\* A script matches an address when the address decodes to a hash and the
\* script pays that hash.
Pays(script, a) == PubKeyHash(a) # NoHash /\ script = <<"p2pkh", PubKeyHash(a)>>

\* getAddressCount: keys_.size().
AddressCount == Cardinality(keys)

\* hd_.deriveAddress(i) under the current seed.
DeriveAddressAt(i) == IF seed = NoSeed THEN NoAddress ELSE Address(seed, i)

\* The scan of sendtoaddress and signTransaction: the script pays one of
\* the addresses derived from the current seed at indices below keys_.size().
Derived(script) ==
    seed # NoSeed /\ \E i \in 0..(AddressCount - 1) : Pays(script, Address(seed, i))

\* The outputs getBalance adds up: those paying a non-empty hash stored in
\* keys_ (generateNewAddress stores the empty vector of a failed decode).
Counted(snap) == {op \in DOMAIN snap : \E a \in keys : Pays(snap[op].script, a)}

\* hasHash160 on the hash a P2PKH script pays: a hash stored in keys_, or
\* else the decoded hash of an address derived below keys_.size().
HasHash160(script) ==
    \/ \E a \in keys : Pays(script, a)
    \/ \E i \in 0..(AddressCount - 1) : Pays(script, DeriveAddressAt(i))

\* Wallet::create: a new random mnemonic with the passphrase becomes the
\* seed (setSeed accepts the 64-byte BIP39 seed); keys_ is kept.
Create(p) == \E m \in Fresh : seed' = MnemonicToSeed(m, p) /\ UNCHANGED <<keys, backup>>

\* Wallet::restore: the given mnemonic with the passphrase becomes the
\* seed; keys_ is kept.
Restore(m, p) == seed' = MnemonicToSeed(m, p) /\ UNCHANGED <<keys, backup>>

\* A backup opened for appending: the first line, the one main.cpp reads,
\* stays what an earlier writer put there.
BackupAppend ==
    /\ backup' = IF backup.mnemonic = NoFile
                    THEN [mnemonic |-> Mnemonic, of |-> seed]
                    ELSE [backup EXCEPT !.of = seed]
    /\ UNCHANGED <<seed, keys>>

\* Wallet::backup(path) for path wallet_backup.txt: the ofstream truncates
\* the file and writes mnemonic_, "" when there is no seed.
Backup == backup' = [mnemonic |-> Mnemonic, of |-> seed] /\ UNCHANGED <<seed, keys>>

\* The address generateNewAddress returns: index keys_.size().
NewAddress == DeriveAddressAt(AddressCount)

\* generateNewAddress: derive at index keys_.size() and store it, unless
\* derivation failed (no seed).
GenerateNewAddress ==
    /\ keys' = IF NewAddress = NoAddress THEN keys ELSE keys \cup {NewAddress}
    /\ UNCHANGED <<seed, backup>>

=============================================================================
