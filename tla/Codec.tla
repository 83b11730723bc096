------------------------------- MODULE Codec -------------------------------
(***************************************************************************)
(* The binary codec of src/core/transaction.cpp and src/core/block.cpp.    *)
(*                                                                         *)
(* A buffer is a sequence of units together with its length in bytes:      *)
(*   - a byte the codec writes on its own (the bytes of a varint) is a      *)
(*     unit [byte |-> b], b in 0..255;                                     *)
(*   - a fixed-width little-endian integer (writeU32, writeU64) is one     *)
(*     unit [w |-> width, v |-> value];                                    *)
(*   - a byte string (hash, signature, public key, script) is one unit     *)
(*     [len |-> n, c |-> content]; the empty string writes nothing.         *)
(* Every read checks its extent against the byte length, exactly as the    *)
(* code's read lambda and readVarInt do, so a truncated buffer is the same *)
(* units with a smaller length.                                            *)
(***************************************************************************)
EXTENDS Naturals, Sequences, SequencesExt

CONSTANT SIGN_EXTENDED  \* (size_t) of a 4-byte varint whose top byte is >= 0x80

\* The bound deserializeTransaction puts on every byte-string length.
MAX_SCRIPT_LEN == 10000

UnitBytes(u) ==
    IF "byte" \in DOMAIN u THEN 1 ELSE IF "w" \in DOMAIN u THEN u.w ELSE u.len

ByteLength(units) == FoldLeft(LAMBDA n, u : n + UnitBytes(u), 0, units)

-----------------------------------------------------------------------------
(* Writers *)

Byte(b) == [byte |-> b]

WriteU32(v) == <<[w |-> 4, v |-> v]>>

WriteU64(v) == <<[w |-> 8, v |-> v]>>

\* writeVarInt: one byte below 0xfd, 0xfd and two bytes up to 0xffff, else
\* 0xfe and the low four bytes.
WriteVarInt(n) ==
    IF n < 253 THEN <<Byte(n)>>
    ELSE IF n <= 65535 THEN <<Byte(253), Byte(n % 256), Byte((n \div 256) % 256)>>
    ELSE <<Byte(254), Byte(n % 256), Byte((n \div 256) % 256),
              Byte((n \div 65536) % 256), Byte((n \div 16777216) % 256)>>

\* out.insert of a byte string.
WriteBytes(s) == IF s.len = 0 THEN <<>> ELSE <<s>>

SerializeInput(in) ==
    WriteBytes(in.prev) \o WriteU32(in.index)
    \o WriteVarInt(in.sig.len) \o WriteBytes(in.sig)
    \o WriteVarInt(in.pk.len) \o WriteBytes(in.pk)

SerializeOutput(o) ==
    WriteU64(o.amount) \o WriteVarInt(o.script.len) \o WriteBytes(o.script)

\* serializeTransaction.
SerializeTransaction(tx) ==
    WriteU32(tx.version)
    \o WriteVarInt(Len(tx.ins)) \o FlattenSeq([i \in DOMAIN tx.ins |-> SerializeInput(tx.ins[i])])
    \o WriteVarInt(Len(tx.outs)) \o FlattenSeq([i \in DOMAIN tx.outs |-> SerializeOutput(tx.outs[i])])
    \o WriteU32(tx.lock)

\* serializeBlock with the timestamp written as four bytes, as the header
\* hash writes it.
SerializeBlockTime32(b) ==
    WriteU32(b.version) \o WriteBytes(b.prev) \o WriteBytes(b.merkle)
    \o WriteU32(b.time) \o WriteU32(b.target) \o WriteU32(b.nonce)
    \o WriteVarInt(Len(b.txs))
    \o FlattenSeq([i \in DOMAIN b.txs |-> SerializeTransaction(b.txs[i])])

\* serializeBlock: the header with its 64-bit timestamp, then the count and
\* every transaction.
SerializeBlock(b) ==
    WriteU32(b.version) \o WriteBytes(b.prev) \o WriteBytes(b.merkle)
    \o WriteU64(b.time) \o WriteU32(b.target) \o WriteU32(b.nonce)
    \o WriteVarInt(Len(b.txs))
    \o FlattenSeq([i \in DOMAIN b.txs |-> SerializeTransaction(b.txs[i])])

-----------------------------------------------------------------------------
(* Readers.  A reader takes the decoder state [ok, pos, idx, val] (pos in   *)
(* bytes, idx in units) and returns the next one, val holding what it read; *)
(* a failed read stays failed, as every caller returns false at once.       *)
(* Then(e, F) passes the value of e to F, so that each step of a decoding   *)
(* is evaluated once however often its result is used.                      *)

Then(e, F(_)) == CHOOSE v \in {F(x) : x \in {e}} : TRUE

Fail == [ok |-> FALSE, pos |-> 0, idx |-> 0, val |-> 0]

Start == [ok |-> TRUE, pos |-> 0, idx |-> 1, val |-> 0]

\* The empty byte string: resize(0) and no read.
NoBytes == [len |-> 0, c |-> "none"]

\* The read lambda checking the position instead of the read's extent.
ReadWordNoExtent(d, st, n) ==
    Then(st, LAMBDA s :
        IF ~s.ok \/ s.pos > d.len THEN Fail
        ELSE [ok |-> TRUE, pos |-> s.pos + n, idx |-> s.idx + 1, val |-> d.units[s.idx].v])

\* read(&field, n) of a fixed-width integer: fails if pos + n > len.
ReadWord(d, st, n) ==
    Then(st, LAMBDA s :
        IF ~s.ok \/ s.pos + n > d.len THEN Fail
        ELSE [ok |-> TRUE, pos |-> s.pos + n, idx |-> s.idx + 1, val |-> d.units[s.idx].v])

\* read(buf.data(), n) of a byte string already resized to n.
ReadBytes(d, st, n) ==
    Then(st, LAMBDA s :
        IF ~s.ok \/ s.pos + n > d.len THEN Fail
        ELSE IF n = 0 THEN [s EXCEPT !.val = NoBytes]
        ELSE [ok |-> TRUE, pos |-> s.pos + n, idx |-> s.idx + 1, val |-> d.units[s.idx]])

\* readVarInt.  The four-byte form ORs (data[pos+4] << 24), an int, into a
\* size_t: a top byte >= 0x80 makes the int negative and the conversion
\* sign-extends it, giving SIGN_EXTENDED (above any buffer length).
ReadVarInt(d, st) ==
    Then(st, LAMBDA s :
      IF ~s.ok \/ s.pos >= d.len THEN Fail
      ELSE LET B(k) == d.units[s.idx + k].byte IN
           IF B(0) < 253 THEN [ok |-> TRUE, pos |-> s.pos + 1, idx |-> s.idx + 1, val |-> B(0)]
           ELSE IF B(0) = 253 /\ s.pos + 3 <= d.len
           THEN [ok |-> TRUE, pos |-> s.pos + 3, idx |-> s.idx + 3, val |-> B(1) + 256 * B(2)]
           ELSE IF B(0) = 254 /\ s.pos + 5 <= d.len
           THEN [ok |-> TRUE, pos |-> s.pos + 5, idx |-> s.idx + 5,
                 val |-> IF B(4) >= 128 THEN SIGN_EXTENDED
                         ELSE B(1) + 256 * B(2) + 65536 * B(3) + 16777216 * B(4)]
           ELSE Fail)

\* "if (!readVarInt(len) || len > 10000) return false;"
ReadLength(d, st) ==
    Then(ReadVarInt(d, st), LAMBDA r : IF r.ok /\ r.val > MAX_SCRIPT_LEN THEN Fail ELSE r)

\* One iteration of the input loop of deserializeTransaction.
ReadInput(d, st) ==
    Then(ReadBytes(d, st, 32), LAMBDA h :
    Then(ReadWord(d, h, 4), LAMBDA ix :
    Then(ReadLength(d, ix), LAMBDA sl :
    Then(ReadBytes(d, sl, sl.val), LAMBDA sg :
    Then(ReadLength(d, sg), LAMBDA pl :
    Then(ReadBytes(d, pl, pl.val), LAMBDA pk :
        [pk EXCEPT !.val = [prev |-> h.val, index |-> ix.val, sig |-> sg.val, pk |-> pk.val]]))))))

\* One iteration of the output loop.
ReadOutput(d, st) ==
    Then(ReadWord(d, st, 8), LAMBDA a :
    Then(ReadLength(d, a), LAMBDA sl :
    Then(ReadBytes(d, sl, sl.val), LAMBDA sc :
        [sc EXCEPT !.val = [amount |-> a.val, script |-> sc.val]])))

\* The loops: st.val is what has been read so far; k counts down the count
\* read from the buffer (a huge count runs until a read fails).
RECURSIVE ReadInputs(_, _, _)
ReadInputs(d, st, k) ==
    Then(st, LAMBDA s :
        IF ~s.ok \/ k = 0 THEN s
        ELSE Then(ReadInput(d, s), LAMBDA r :
               IF ~r.ok THEN Fail ELSE ReadInputs(d, [r EXCEPT !.val = Append(s.val, r.val)], k - 1)))

RECURSIVE ReadOutputs(_, _, _)
ReadOutputs(d, st, k) ==
    Then(st, LAMBDA s :
        IF ~s.ok \/ k = 0 THEN s
        ELSE Then(ReadOutput(d, s), LAMBDA r :
               IF ~r.ok THEN Fail ELSE ReadOutputs(d, [r EXCEPT !.val = Append(s.val, r.val)], k - 1)))

\* deserializeTransaction(data, len, pos, tx).
DeserializeTransaction(d, st) ==
    Then(ReadWord(d, st, 4), LAMBDA v :
    Then(ReadVarInt(d, v), LAMBDA nIn :
    Then(ReadInputs(d, [nIn EXCEPT !.val = <<>>], nIn.val), LAMBDA ins :
    Then(ReadVarInt(d, ins), LAMBDA nOut :
    Then(ReadOutputs(d, [nOut EXCEPT !.val = <<>>], nOut.val), LAMBDA outs :
    Then(ReadWord(d, outs, 4), LAMBDA lk :
        [lk EXCEPT !.val = [version |-> v.val, ins |-> ins.val, outs |-> outs.val, lock |-> lk.val]]))))))

RECURSIVE ReadTransactions(_, _, _)
ReadTransactions(d, st, k) ==
    Then(st, LAMBDA s :
        IF ~s.ok \/ k = 0 THEN s
        ELSE Then(DeserializeTransaction(d, s), LAMBDA r :
               IF ~r.ok THEN Fail ELSE ReadTransactions(d, [r EXCEPT !.val = Append(s.val, r.val)], k - 1)))

\* deserializeBlock: at least 80 bytes, the header fields, the transaction
\* count (the same three varint forms, written out inline), the
\* transactions.  Bytes after the last transaction are ignored.
DeserializeBlock(d) ==
    IF d.len < 80 THEN Fail
    ELSE Then(ReadWord(d, Start, 4), LAMBDA ver :
         Then(ReadBytes(d, ver, 32), LAMBDA pv :
         Then(ReadBytes(d, pv, 32), LAMBDA mk :
         Then(ReadWord(d, mk, 8), LAMBDA tm :
         Then(ReadWord(d, tm, 4), LAMBDA tg :
         Then(ReadWord(d, tg, 4), LAMBDA nc :
         Then(ReadVarInt(d, nc), LAMBDA nTx :
         Then(ReadTransactions(d, [nTx EXCEPT !.val = <<>>], nTx.val), LAMBDA txs :
             [txs EXCEPT !.val = [version |-> ver.val, prev |-> pv.val, merkle |-> mk.val,
                                  time |-> tm.val, target |-> tg.val, nonce |-> nc.val,
                                  txs |-> txs.val]]))))))))

=============================================================================
