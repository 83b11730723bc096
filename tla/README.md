# TLA+ models of shawncoin

These modules model the single-node proof-of-work engine in
`src/shawncoin/src` and check it with TLC. Every definition is translated from
the C++ source. `PROJECT.json` maps each definition to the lines it models and
lists the components, the runs, the mutants, the findings and the hazards.

## The system

- **Wire types** (`core/types.*`). A transaction is identified by
  `getTxid`, a double SHA-256 over version, input outpoints, outputs and lock
  time; signatures, public keys and the coinbase scriptSig are left out. A
  block is identified by the hash of its header.
- **Codec** (`core/transaction.cpp`, `core/block.cpp`): the binary
  serialization of transactions and blocks, and its bounds-checked decoder.
- **Hex** (`util/util.cpp`): `hexEncode` and `hexDecode`.
- **Address encoding** (`crypto/address.cpp`): Base58, Base58Check, and
  the conversions between a hash160 and an address.
- **Merkle** (`mining/merkle.cpp`) and **Difficulty**
  (`mining/difficulty.cpp`): pure computations.
- **Consensus** (`core/consensus.cpp`): structural checks and
  `connectBlockUTXO`, the sequence of `has`, `spend` and `put` calls that
  applies a block to the UTXO set.
- **UTXOSet** (`core/utxo.cpp`): each call takes the set's mutex, so each
  call is atomic but no sequence of calls is.
- **Blockchain** (`core/blockchain.cpp`, `storage/chainstate.cpp`).
  `addBlock` checks under the chain mutex, releases it, and `connectBlock`
  validates, pre-checks the inputs, runs `connectBlockUTXO` and finally
  updates the chain under the mutex again.
- **Mempool** (`core/mempool.cpp`): transactions keyed by txid; the miner
  takes all of them as the block template, and nothing ever removes one.
- **Miner** (`mining/miner.cpp`). `main.cpp` starts `genproclimit` threads
  (2 by default). Each loops while `mining_`: read the best hash and height,
  build a coinbase and append the template, search nonces at
  `EASY_MINE_DIFFICULTY`, call `addBlock(block, getHeight() + 1)`.
- **Wallet** (`wallet/wallet.cpp`): a mnemonic, the HD seed
  `mnemonicToSeed(mnemonic, passphrase)` and `keys_`, the addresses handed
  out, each stored with its decoded hash160. `backup` writes the mnemonic,
  and nothing else, to a file.
- **Wallet tool** (`tools/wallet_tool.cpp`): a separate program that creates
  or restores a wallet with a passphrase, prints its first addresses and,
  with `--backup`, writes the mnemonic to the data directory's
  `wallet_backup.txt`.
- **RPC handlers** (`rpc/api.cpp`). `main.cpp` leaves the RPC server
  commented out, but the handlers are compiled in. They share `Blockchain`,
  `UTXOSet`, `Mempool` and `Wallet` with the miners; each object has its own
  lock and there is no global one.
- **Configuration** (`util/config.cpp`): `main` calls `loadFromArgs` on
  argv, takes the data directory from the result, then `load`s that
  directory's `shawncoin.conf` into the same map, so a file setting wins over
  the same command-line option. `load` prefixes keys with the open
  `[section]` and collects every value whose key contains `addnode`.
- **Chain-state file** (`storage/chainstate.cpp`): `saveToDisk`, called by
  `connectBlock` at every height divisible by 10, writes `blockchain.dat`
  (magic, version, count, best hash, height, then each block's size and
  bytes); `loadFromDisk` reads it back but has no caller.
- **Startup** (`main.cpp`): a new `Blockchain` at genesis (nothing is read
  back from `blockchain.dat`: `loadFromDisk` has no caller), an empty
  mempool, and the wallet: `wallet.dat` is never written outside the tests,
  so a non-empty first line of `wallet_backup.txt` is restored with the
  passphrase `""`, and otherwise the wallet has no seed.
- **Shutdown** (`main.cpp`): on the signal, `miner->stop()` clears `mining_`
  and joins every thread, then `main` writes the final height and
  `getTotalSupplyUpTo` of it to `mined_summary.txt`. What outlives a process
  is its data directory: `wallet_backup.txt` and `mined_summary.txt`.

## Modules

| Module | Models | State and actions |
|---|---|---|
| `CoreTypes` | types, `getTxid`, `getBlockSubsidy`, `getTotalSupplyUpTo`, `makeGenesisBlock` | Values. A transaction is the record of the fields `getTxid` hashes, so coinbases differing only in scriptSig share a txid, as in the code. |
| `Codec` | `serialize*`/`deserialize*` | Operators over buffers of units (varint bytes, fixed-width words, byte strings). Each reader returns `[ok, val, pos]`, chained by `Then(e, F)`, which evaluates a step once however often its result is used. |
| `Hex` | `hexEncode`, `hexDecode` | Operators over ASCII codes, including the decoder's lower-bound-only digit test. |
| `Base58` | `crypto/address.cpp` | `MulAdd` is the carry loop shared by encoder (×256 into base 58) and decoder (×58 into base 256); the decoder, like the code, never reverses its little-endian result. `Checksum` is a constant operator. |
| `Merkle` | `computeMerkleRoot` | `NextRow` is one pass of the loop. |
| `Difficulty` | `getNextDifficulty`, `getAdaptiveNextDifficulty` | Compact words as `[exp, mant]`, so uint32 products carry into the exponent byte as in C++. |
| `Consensus` | validation, `connectBlockUTXO` | `ConnectBlockUTXOCalls(b)` is the call sequence. |
| `UTXOSet` | `put/get/spend/has/snapshot` | Variable `utxo`, one step per call. |
| `Blockchain` | `Blockchain`, `MemoryChainState` | Chain variables and, per thread, `pc`, `blk`, `newHeight`, `calls`. `addBlock` is the steps `AddBlock`, `Validate`, `Precheck`, `ConnectStep`, `Commit`, split wherever a lock is released. |
| `Mempool` | `add`, `getBlockTemplate` | Variable `mempool`. |
| `Wallet` | `Wallet` | `seed`, `keys`, and `backup`, the file `wallet_backup.txt` as its first line plus the seed of the wallet that wrote it (a history field). The seed is the pair `<<mnemonic, passphrase>>`, as BIP39 gives one seed per pair; `Create` draws a mnemonic no state refers to (`Fresh`), standing for 128 bits of entropy. Address i of seed s is `<<s, i>>`; `PubKeyHash` is `addressToPubKeyHash`'s outcome. `Derived` is the scan of `sendtoaddress`/`signTransaction`, `Counted` that of `getBalance`, `HasHash160` that of `listunspent`. |
| `RpcApi` | `handleRpcRequest` | Every method. `wallet.sendtoaddress` is `SendSelect` (snapshot, greedy selection, outputs), `SendSign` (each input looked up in the live set), `SendAdd`; `blockchain.info` is two reads. Read-only handlers are single steps. |
| `Node` | `main`, `Miner` | Composes everything: the mining threads (`MinerBuild`, `MineFound`, `MineExhausted`, `MinerExit`, then the `addBlock` steps), the RPC thread, which calls `addBlock` itself for `mining.submit` (`SubmitStart`, `RpcAddBlock`, `SubmitDone`), the clock, and shutdown (`Shutdown`, `Joined`, `Terminated`). |
| `WalletTool` | `tools/wallet_tool.cpp` | `ToolCreate(p)` and `ToolRestore(m, p)` with `--backup`: the file gets the mnemonic, the history field the seed of the printed addresses. A run without `--backup` leaves no state. |
| `Lifecycle` | `main` over several runs | `Restart` after a clean exit and `Crash` (a kill between two steps) both `Relaunch`: every object is built again as in `Boot`, the wallet loaded from the file; `backup`, the summary and the clock are kept. `restarts` counts the starts up to `MaxRestarts`. `SystemNext` adds them and `ToolRun` to `Next`. |
| `ChainLedger` | the chain state's promise (spec) | Abstract: `chain` (blocks from genesis) and `open`. `Accept` appends one block on top of the last that spends only outputs the chain left unspent, each once, while open; `Close` ends acceptance; `Reopen` is a new process, whose in-memory chain starts again from genesis. `Node` defines `Ledger == INSTANCE ChainLedger WITH chain <- ChainBlocks, open <- phase # "stopped"`, `ChainBlocks` being the height index read from genesis to the best block. |
| `Config` | `Config::load`, `loadFromArgs`, `getDataDir`, `main`'s use of them | Operators. A key is a sequence of name tokens (`"."` one of them), so the section prefix and the `addnode` substring test act on it as in the code; a file line is the branch of `load`'s loop it takes (skip, header, unterminated `[`, no `=`, key=value), comments and blanks already cut. `LoadLine` is one iteration, `Load` the fold, `ArgsFrom` the argv loop with `--datadir` taking its successor, `Startup` the two in `main`'s order. |
| `ChainStateFile` | `saveToDisk`, `loadFromDisk` | Operators over `Codec`'s units. `Freads(f, k)` is `fread(.., size, 1, ..) == 1` for the k-th field: within the file and not of size 0. `LoadFromDisk` returns the outcome and the state after it, including what a failed load has already overwritten (`Torn` for a partly read field); `ReadBlocks` keys every block by the default hash, as the code does. |
| `MCNode`, `MCLifecycle`, `MCCodec`, `MCBase58`, `MCDifficulty` | model values and bounds | `MCCodec` holds one state per input (`check` says which algorithm) with reference definitions: a top-down Merkle tree, and the decoders as inverses. |

Two constants stand for defects found while modelling, so that the code
behind them can still be explored:

- `AddressDecodes`. FALSE is the build: no address decodes (run
  `base58_roundtrip`), so `generateNewAddress` stores empty hashes, the
  wallet owns nothing, and `-mineaddr` falls back to twenty zero bytes. TRUE
  stands for a decoder that inverts the encoder. The runs about the miner
  alone use FALSE; the runs that need a wallet with coins use TRUE.
- `ParseKeepsParams`. `SimpleJson::parse` keeps only `method`, so every
  handler that needs params fails at once. All runs set TRUE, a parser that
  keeps the CLI's params, so the handler bodies are reached.

## Runs

| Run | Expect | What it shows |
|---|---|---|
| node_sequential | pass | One miner, two requests of seven methods, shutdown at any point, one restart or kill, `wallet_tool` runs with the passphrase `""`, all under `SystemSpec`: `ChainLinked` (the height index is a linked chain up to the best block), `UtxoMatchesChain` (outside `connectBlockUTXO` the UTXO set is the replay of the chain), `SummaryTotalIssued` (the summary's `total_shwn` is what the chain's coinbases up to its height created), and `LedgerRefinement`: the node implements `ChainLedger`, so every commit appends one whole valid block, every UTXO call in between leaves the abstract chain alone, and nothing is committed after `stop()` has returned, whatever restarts; `Progress`: the miner extends the chain from every height until shutdown, in every run; `BackupRestoresWallet`: with the default passphrase, every start restores the wallet that wrote `wallet_backup.txt`, whether `wallet_tool` or `wallet.backup` wrote it last. |
| rpc_submit_ledger | pass | No mining thread; three requests of `create`, `restore`, `getnewaddress`, `sendtoaddress`, `submit`, `info`, a client template on any block of the chain: `LedgerRefinement` holds, so `mining.submit`'s `addBlock` on the RPC thread commits a block only as one valid step on the best block, and a template built on a stale block is rejected. |
| pure_algorithms | pass | The codec round-trips and rejects every truncation; `computeMerkleRoot` equals the tree; `hexDecode` inverts `hexEncode`; `StartupMatchesReference`: the configuration `main` builds equals a last-assignment-wins reading of argv then the file, with the section in effect at each line, the `addnode` list and `--testnet` (argv elements consumed by `--datadir` excluded); `SavedFileLoads`: a complete `blockchain.dat` loads with its best hash and height; `TruncatedFileFails`: every truncation of it, as a kill during `saveToDisk` leaves it, fails to load. |
| partial_spend | violation | Two sends select one output; the block with both passes the pre-check and fails inside `connectBlockUTXO` after one spend. |
| addblock_race | violation | Two miners pass `addBlock`'s checks at one height; the later commit moves the height back. |
| coinbase_double_spend | violation | Identical coinbase txids recreate a spent output, and its spender is confirmed twice. |
| stale_mempool_stall | violation | A confirmed transaction stays in the mempool; after a halving its input is gone and every block fails. |
| retarget_stall | violation | The fixed easy target is rejected at the first retarget boundary. |
| info_torn_read | violation | `blockchain.info`'s height and hash come from different blocks. |
| retarget_identity | violation | An ideal-length window turns `0x0400ffff` into `0x047fffff`. |
| base58_roundtrip | violation | `addressToPubKeyHash(pubKeyHashToAddress(h))` is empty for every h. |
| wallet_restart | violation | `wallet_tool create --passphrase=p --backup`, then a restart: `main` restores the mnemonic with `""`, a different seed, so the node's wallet is not the one whose addresses the tool printed (`BackupRestoresWallet`). |

Findings that need no run of their own, each reproducible by a one-line
change of a cfg:

- **wallet.create / restore.** They replace the seed and keep `keys_`:
  after `getnewaddress`, a block paying that address and a `create` with
  another seed, `getbalance` (which scans `keys_`) counts the coin while
  `sendtoaddress` (which scans addresses derived from the new seed) cannot
  select or sign it. This shows only with `AddressDecodes = TRUE`, since
  the build's decoder fails every address; no run checks it (hazard at
  `wallet.cpp:24`).
- **Request parser.** With `ParseKeepsParams = FALSE` every
  `sendtoaddress` ends in the params error.
- **mining.submit race.** With a mining thread added to `MCRpc.cfg`'s
  `Threads`, TLC violates `LedgerRefinement`: the miner and a
  submitted block both pass `addBlock`'s checks for height 1, the miner
  commits, then the submitted block replaces it at the tip. It is the race
  of `addblock_race`, reached through the RPC thread.
- **Codec bound.** Adding 10001 to `Lens` violates `RoundTrip`: the encoder
  writes a script the decoder's 10000-byte bound rejects.

Observed in the source, outside what the modules state:

- **Every RPC response is `null`.** `SimpleJson::operator[]` is `const` and
  returns a copy, so `resp["result"] = ...` assigns to a temporary and
  `resp.dump()` is `null` for every success and every error.
- **The CLI's verdicts.** With such responses the CLI's commands that look
  for `"result"` report failure for calls the node carried out (a retried
  `sendtoaddress` pays twice from one coin, as in `partial_spend`), those
  that only test for a non-empty response report success for calls that
  failed (`backupwallet` sends no `path`, so `wallet.backup` fails), and
  `getbalance` passes `null` to `stoull`, which throws out of `main`. The
  second `backupwallet` branch is unreachable. In this build none of this
  happens: the RPC server is never started, and every CLI RPC command fails
  to connect.

Every property of a passing run has a mutant in `PROJECT.json`: a plausible
bug in a mapped definition that TLC must catch under the run's cfg (a zero
change output, a commit without the index write, puts before spends, a
stale `getHeight()`, a dropped Merkle node, a 32-bit timestamp, a read that
checks its start only, a low-nibble-first hex writer, a sign step that never
fails, a scan one index short or one too long, a `stop()` that does not
join, a supply loop that stops below the height, a backup file opened for appending).

## Bounds, and why they are enough

- **Height** up to `MaxHeight = 3` (2 in `MCRpc`), by the constraint
  `HeightBound`: a coin (block 1), a spend or collision (block 2), a
  re-included transaction (block 3). In `MCRpc` blocks come only from
  submits, so two blocks above genesis let a template built on genesis be
  submitted after height 1 was taken.
- **Mining on.** `main` starts the miner only when the final configuration
  has `mine` = `"1"` or a non-zero `gen` (a `mine=` line in the file
  overrides `--mine`, see `StartupMatchesReference`); the `Node` runs model
  a node started that way, with `genproclimit` threads. `Miner::start` turns a
  `genproclimit` of 0 into one thread; a negative value, cast to a huge
  uint32, is not explored.
- **Threads.** Two miners suffice to race `addBlock` (symmetry in that run
  only; it is unsound for liveness). `MCRpc` has the RPC thread alone, so
  that the submit path is checked on its own.
- **Requests.** Two or three. One send covers every branch of
  `sendtoaddress` (insufficient funds, change or none, sign failure,
  mempool admission); two are needed to select one output twice.
- **Clock** 0..1: equal and different timestamps.
- **Wallets.** Mnemonics `m1`, `m2` and the passphrase `""`, `p` as well
  in `wallet_restart`: two mnemonics let a new wallet differ from the one
  on file; `InitBackup = "m1"` is a node started from a backed-up wallet.
- **Restarts.** `MaxRestarts = 1`: the file written in one run is read in
  the next; a second start repeats the first.
- **Intervals.** Retarget 2016 and halving 1000 where they must not matter,
  3 and 2 in the runs about them.
- **Codec.** Lengths 0, 252, 253 (both sides of the one-byte varint) and
  10000 (the decoder's bound); cut points at every unit boundary, one byte
  in, and one byte short.
- **Merkle.** All 364 lists of 0..5 txids over 3 values: five leaves make
  a level of width 3 and two duplications.
- **Hex.** Byte strings of up to 3 bytes over 0, 9, 10, 160, 255: both
  nibbles at the digit/letter boundary.
- **Configuration.** Every argv of up to 3 elements over the seven kinds
  of `loadFromArgs` (two flags, `--datadir`, `--k=v` with a plain and a
  dotted key, `--k`, a bare word), with every `shawncoin.conf` of up to 3
  lines over eight line kinds, in the directory `d1`: three lines are
  enough for a header, an unterminated `[` and a key after them, and three
  arguments for `--datadir d1` and one more option.
- **Chain-state file.** Every chain state with no, one or two stored
  blocks of 1 or 80 bytes and heights 0 and 10, each file cut at every field
  boundary, one byte into a field and one byte short of its end.
- **Base58.** Two-byte hashes over 0, 1, 57, 255: a leading zero byte, a
  base-58 digit boundary, the largest byte. The checksum is a fixed
  4-byte digest; only its comparison matters.

## Fairness

- Each mining thread's loop is weakly fair: `miningLoop` never blocks.
- The nonce search is strongly fair: at the easy target a search of 2^32
  nonces fails with negligible probability, so a thread that keeps
  searching succeeds.
- The clock is weakly fair, and so is `Joined`: `stop()` returns once every
  thread has left its loop.
- `SystemSpec` has the fairness of `Spec` and none on `Restart`, `Crash`
  or `ToolRun`: the user starts, kills and runs tools at will.

## Not modelled

- The header-hash timestamp truncation and the uint8 input/output counts of
  `getTxid`; the future-timestamp check.
- `disconnectBlockUTXO`, `Mempool::remove` and `clear`: no caller.
  `saveToDisk` runs every 10 blocks, beyond the explored heights of the
  `Node` runs; its file format and `loadFromDisk` are checked as functions
  (`ChainStateFile`). Two defects of `loadFromDisk` are listed as hazards
  without a property, since no state of the node can reach them: every
  block is stored under the default hash, so a file of n blocks loads as
  one; and a load that fails part way has already overwritten the best
  hash, height or block map.
- `Wallet::saveToFile`/`loadFromFile` (`wallet.dat`): only the tests write
  the file, so `main`'s branch that reads it is never taken.
- Key derivation, signatures, encryption of the wallet file: cryptography.
- A kill in the middle of a file write: `Crash` falls between steps, and each
  write is one step. A truncated `wallet_backup.txt` would start the next run
  without a wallet (listed as a hazard).
- `getInt`/`getPort` (`std::stoi`, which throws on a non-numeric value and
  ends `main` in its catch), the database backend, P2P (a stub), stratum
  (never started), logging, the realtime feed: I/O and formatting. The CLI: every RPC command needs the server `main` never starts;
  its verdicts on `null` responses are described above.

`Blockchain::init` leaves genesis in place: `main` gives it a fresh
`MemoryChainState`, so every start, after a shutdown or a kill, begins at
genesis; `LedgerRefinement` is checked across restarts against a ledger
that does the same.
