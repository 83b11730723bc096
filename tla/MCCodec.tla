------------------------------ MODULE MCCodec ------------------------------
(***************************************************************************)
(* The pure algorithms of the node, each against its reference.           *)
(*                                                                         *)
(* The codec checked on every block of a bounded set: a first transaction *)
(* with no input or one, then possibly a second one without inputs, each   *)
(* with one output.  Byte-string lengths are drawn from Lens, which        *)
(* straddles the one-byte varint limit (252, 253) and reaches the          *)
(* decoder's 10000-byte bound.                                             *)
(*                                                                         *)
(* computeMerkleRoot and the hex codec are checked on every txid list and *)
(* every byte string of their bounded sets, in states of their own.       *)
(*                                                                         *)
(* The configuration main.cpp builds from argv and shawncoin.conf, and     *)
(* blockchain.dat as saveToDisk writes it and loadFromDisk reads it back,  *)
(* each in states of their own too.                                        *)
(***************************************************************************)
EXTENDS Codec, Hex, Merkle, Config, ChainStateFile, FiniteSets

CONSTANTS
    Lens,       \* the lengths a signature, public key or script may have
    Hashes,     \* the contents a 32-byte hash may have
    Leaves,     \* the txids a Merkle leaf list is drawn from
    MaxLeaves,  \* the longest leaf list
    HexBytes,   \* the byte values a hex-encoded string is made of
    MaxHexLen,  \* the longest byte string hex-encoded
    ArgChoices, \* the argv elements an argument list is made of
    MaxArgs,    \* the longest argument list
    LineChoices,\* the lines a shawncoin.conf is made of
    MaxLines,   \* the longest shawncoin.conf
    ConfDir,    \* the one data directory that has a shawncoin.conf
    BlockLens,  \* the sizes a stored block's serialization may have
    Heights,    \* the best heights a saved chain state may have
    Torn        \* what a partly read field holds

Str(n) == IF n = 0 THEN NoBytes ELSE [len |-> n, c |-> "bytes"]

Hash(h) == [len |-> 32, c |-> h]

Inputs ==
    {[prev |-> Hash(h), index |-> 0, sig |-> Str(s), pk |-> Str(p)] :
        h \in Hashes, s \in Lens, p \in {0, 33}}

Txs ==
    {[version |-> 1, ins |-> ins, outs |-> <<[amount |-> 1, script |-> Str(l)]>>, lock |-> 0] :
        ins \in {<<>>} \cup {<<i>> : i \in Inputs}, l \in Lens}

Blocks ==
    {[version |-> 1, prev |-> Hash(h), merkle |-> Hash(h), time |-> 0, target |-> 0,
      nonce |-> 0, txs |-> txs] :
        h \in Hashes,
        txs \in {<<t>> : t \in Txs} \cup {<<t, u>> : t \in Txs, u \in {v \in Txs : v.ins = <<>>}}}

LeafLists == UNION {[1..n -> Leaves] : n \in 0..MaxLeaves}

ByteStrings == UNION {[1..n -> HexBytes] : n \in 0..MaxHexLen}

\* The argument kinds of loadFromArgs: the two flags, --datadir, "--k=v"
\* with a plain and a dotted key, "--k" with no value, and a bare word (a
\* directory when it follows --datadir).
MCArgChoices ==
    {[kind |-> "testnet", text |-> "--testnet"], [kind |-> "mine", text |-> "--mine"],
     [kind |-> "datadir", text |-> "--datadir", key |-> <<"datadir">>, val |-> ""],
     [kind |-> "opt", text |-> "--port=v1", key |-> <<"port">>, val |-> "v1"],
     [kind |-> "opt", text |-> "--rpc.port=v2", key |-> <<"rpc", ".", "port">>, val |-> "v2"],
     [kind |-> "opt", text |-> "--addnode", key |-> <<"addnode">>, val |-> ""],
     [kind |-> "plain", text |-> "d1"]}

\* The line kinds of load: a blank or comment line, a line with no "=", the
\* [rpc] and [addnode] headers, a "[" with no "]", and key=value lines.
MCLineChoices ==
    {[kind |-> "skip"], [kind |-> "noeq"], [kind |-> "open"],
     [kind |-> "header", name |-> <<"rpc">>], [kind |-> "header", name |-> <<"addnode">>],
     [kind |-> "pair", key |-> <<"port">>, val |-> "v1"],
     [kind |-> "pair", key |-> <<"port">>, val |-> "v3"],
     [kind |-> "pair", key |-> <<"addnode">>, val |-> "v2"]}

ArgLists == UNION {[1..n -> ArgChoices] : n \in 0..MaxArgs}

ConfFiles == UNION {[1..n -> LineChoices] : n \in 0..MaxLines}

\* Every directory getDataDir may name: the text of any argument or the
\* home directory; only ConfDir has a shawncoin.conf.
Dirs == {a.text : a \in ArgChoices} \cup {HomeDataDir, ""}

FileSystems == {[d \in Dirs |-> IF d = ConfDir THEN ls ELSE <<>>] : ls \in ConfFiles}

\* The chain states saveToDisk may be called on: a best hash, a height and
\* any set of stored blocks.
ChainStates ==
    {[best |-> Hash(h), height |-> n, blocks |-> [k \in ks |-> Str(l)]] :
        h \in Hashes, n \in Heights, ks \in SUBSET {Hash(1), Hash(2)},
        l \in BlockLens}

\* A fresh MemoryChainState.
FreshState == [best |-> NullKey, height |-> 0, blocks |-> <<>>]

VARIABLES
    check,      \* which algorithm the state is an input of
    blk,        \* the block given to the codec
    leaves,     \* the txid list given to computeMerkleRoot
    data,       \* the bytes given to hexEncode
    argv,       \* the command line given to main
    fs,         \* the shawncoin.conf files main may read
    store       \* the chain state saved to blockchain.dat

\* One state per input: a block, a leaf list or a byte string, the other
\* two left at a fixed value.
AnyBlock == CHOOSE b \in Blocks : TRUE

AnyFs == [d \in Dirs |-> <<>>]

Init ==
    \/ check = "codec" /\ blk \in Blocks /\ leaves = <<>> /\ data = <<>>
       /\ argv = <<>> /\ fs = AnyFs /\ store = FreshState
    \/ check = "merkle" /\ blk = AnyBlock /\ leaves \in LeafLists /\ data = <<>>
       /\ argv = <<>> /\ fs = AnyFs /\ store = FreshState
    \/ check = "hex" /\ blk = AnyBlock /\ leaves = <<>> /\ data \in ByteStrings
       /\ argv = <<>> /\ fs = AnyFs /\ store = FreshState
    \/ check = "config" /\ blk = AnyBlock /\ leaves = <<>> /\ data = <<>>
       /\ argv \in ArgLists /\ fs \in FileSystems /\ store = FreshState
    \/ check = "store" /\ blk = AnyBlock /\ leaves = <<>> /\ data = <<>>
       /\ argv = <<>> /\ fs = AnyFs /\ store \in ChainStates

Next == UNCHANGED <<check, blk, leaves, data, argv, fs, store>>

Buffer(units) == [units |-> units, len |-> ByteLength(units)]

\* Every byte length at which a read's bounds check can change outcome: the
\* start of every unit, one byte into it, and its last byte.
CutPoints(units) ==
    LET ends == FoldLeft(LAMBDA acc, u : Append(acc, acc[Len(acc)] + UnitBytes(u)), <<0>>, units) IN
    UNION {{ends[i], ends[i] + 1, ends[i + 1] - 1} : i \in DOMAIN units}

\* The decoder of src/core/block.cpp is the inverse of the encoder: a
\* serialized block decodes to the same block and consumes every byte
\* (spec: deserialize(serialize(block)) == block, for any valid block).
RoundTrip ==
    check = "codec" =>
    Then(Buffer(SerializeBlock(blk)), LAMBDA d :
        Then(DeserializeBlock(d), LAMBDA r : r.ok /\ r.val = blk /\ r.pos = d.len))

\* Every strict prefix of a serialized block is rejected: each read of
\* deserializeBlock and deserializeTransaction checks its whole extent
\* against the buffer length (spec: decoding fails closed on truncation).
TruncatedRejected ==
    check = "codec" =>
    Then(Buffer(SerializeBlock(blk)), LAMBDA d :
        \A n \in CutPoints(d.units) :
            n < d.len => ~DeserializeBlock([d EXCEPT !.len = n]).ok)

-----------------------------------------------------------------------------
(* computeMerkleRoot against an independent top-down definition of the     *)
(* same tree: the node at level h and position p hashes its two children,  *)
(* the left one standing in for a missing right child (the shape of        *)
(* Bitcoin's CalcHash).                                                    *)

\* The number of nodes at level h of a tree over n leaves: ceil(n / 2^h).
Width(n, h) == (n + 2^h - 1) \div 2^h

\* The lowest level with a single node.
TopLevel(n) == CHOOSE h \in 0..n : Width(n, h) = 1 /\ \A k \in 0..(h - 1) : Width(n, k) > 1

RECURSIVE TreeNode(_, _, _)
TreeNode(ls, h, p) ==
    IF h = 0 THEN ls[p + 1]
    ELSE LET left  == TreeNode(ls, h - 1, 2 * p)
             right == IF 2 * p + 1 < Width(Len(ls), h - 1)
                      THEN TreeNode(ls, h - 1, 2 * p + 1) ELSE left
         IN  Hash2(left, right)

ReferenceRoot(ls) == IF ls = <<>> THEN ZeroHash ELSE TreeNode(ls, TopLevel(Len(ls)), 0)

\* computeMerkleRoot's bottom-up loop gives the tree's root for every txid
\* list: the all-zero hash for no transaction, the txid itself for one, and
\* for an odd level the last node paired with itself.
RootMatchesReference == check = "merkle" => ComputeMerkleRoot(leaves) = ReferenceRoot(leaves)

\* hexDecode inverts hexEncode: the hex a client makes of a serialized
\* block for mining.submit, and the salt, IV and ciphertext the wallet
\* file stores, decode to the bytes that were encoded.
HexRoundTrip == check = "hex" => HexDecode(HexEncode(data)) = data

-----------------------------------------------------------------------------
(* main's configuration against a last-assignment-wins reading of the      *)
(* command line and the file: each argument not taken as --datadir's value *)
(* and each key=value line under the section of the closest header before  *)
(* it (none after a "[" without "]") assign a key, in that order.          *)

\* argv[i] is the value of a --datadir before it.
RECURSIVE Consumed(_, _)
Consumed(as, i) == i > 1 /\ as[i - 1].kind = "datadir" /\ ~Consumed(as, i - 1)

ArgAssignment(as, i) ==
    CASE as[i].kind = "mine" -> [key |-> <<"mine">>, val |-> "1"]
      [] as[i].kind = "datadir" /\ i < Len(as) -> [key |-> <<"datadir">>, val |-> as[i + 1].text]
      [] OTHER -> [key |-> as[i].key, val |-> as[i].val]

ArgAssignments(as) ==
    LET idx == SelectSeq([i \in DOMAIN as |-> i], LAMBDA i :
                   ~Consumed(as, i) /\ as[i].kind \in {"mine", "datadir", "opt"})
    IN  [n \in DOMAIN idx |-> ArgAssignment(as, idx[n])]

SectionAt(ls, i) ==
    LET hs == {j \in 1..(i - 1) : ls[j].kind \in {"header", "open"}} IN
    IF hs = {} \/ ls[Max(hs)].kind = "open" THEN <<>> ELSE ls[Max(hs)].name

FileAssignments(ls) ==
    LET idx == SelectSeq([i \in DOMAIN ls |-> i], LAMBDA i : ls[i].kind = "pair") IN
    [n \in DOMAIN idx |-> [key |-> EffectiveKey(SectionAt(ls, idx[n]), ls[idx[n]].key),
                           val |-> ls[idx[n]].val]]

LastWins(as) ==
    [k \in {as[i].key : i \in DOMAIN as} |-> as[Max({i \in DOMAIN as : as[i].key = k})].val]

\* The file main reads, in the directory the arguments alone name.
RefFile(as, files) == files[GetDataDir([values |-> LastWins(ArgAssignments(as))])]

\* The configuration main starts with is the reference's: every key holds
\* the value of its last assignment, a file line overriding the command
\* line; addNodes_ lists, in file order, the value of every line whose key
\* with its section prefix contains "addnode"; testnet is set by a
\* --testnet that is not --datadir's value.
StartupMatchesReference ==
    check = "config" =>
    LET c  == Startup(argv, fs)
        fa == FileAssignments(RefFile(argv, fs))
        an == SelectSeq(fa, LAMBDA a : ContainsAddnode(a.key))
    IN  /\ c.values = LastWins(ArgAssignments(argv) \o fa)
        /\ c.addNodes = [n \in DOMAIN an |-> an[n].val]
        /\ c.testnet = \E i \in DOMAIN argv : argv[i].kind = "testnet" /\ ~Consumed(argv, i)

-----------------------------------------------------------------------------
(* blockchain.dat *)

\* A file saveToDisk wrote in full loads back: loadFromDisk returns true
\* with the saved best hash and height, whatever the state it loads into.
SavedFileLoads ==
    check = "store" =>
    LET r == LoadFromDisk(Buffer(SaveToDisk(store)), FreshState, Torn) IN
    r.ok /\ r.st.best = store.best /\ r.st.height = store.height

\* A blockchain.dat cut short at any point, as a kill during saveToDisk
\* leaves it, makes loadFromDisk return false: every fread, of the header,
\* the best block and of each block's size and bytes, is checked.
TruncatedFileFails ==
    check = "store" =>
    LET d == Buffer(SaveToDisk(store)) IN
    \A n \in CutPoints(d.units) \cup {0} :
        n < d.len => ~LoadFromDisk([d EXCEPT !.len = n], FreshState, Torn).ok

=============================================================================
