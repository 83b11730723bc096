------------------------------ MODULE Base58 ------------------------------
(***************************************************************************)
(* The address encoding of src/crypto/address.cpp.  A byte string is a     *)
(* sequence of naturals below 256; a Base58 string is a sequence of        *)
(* alphabet positions (0 is '1', 57 is 'z') and NotBase58 for a character  *)
(* outside BASE58_ALPHABET.  The first four bytes of sha256d are the       *)
(* operator Checksum: the loops below never look inside it.               *)
(***************************************************************************)
EXTENDS Naturals, Sequences, SequencesExt

CONSTANTS
    Checksum(_),        \* the first 4 bytes of shawncoin_sha256d
    ADDRESS_VERSION,    \* 0x3f
    HASH160_LEN,        \* the length of a public key hash: 20
    NotBase58           \* a character strchr does not find in the alphabet

\* The number of leading elements of s equal to z.
LeadingCount(s, z) ==
    LET pre == {n \in 0..Len(s) : \A i \in 1..n : s[i] = z} IN Max(pre)

\* Appending carry's digits in base, least significant first: the
\* "while (carry)" loops.
RECURSIVE Spill(_, _)
Spill(carry, base) ==
    IF carry = 0 THEN <<>> ELSE <<carry % base>> \o Spill(carry \div base, base)

\* One step of either conversion: the little-endian digit string ds in base
\* is multiplied by mul and c is added, digit by digit with a carry.
MulAdd(ds, mul, base, c) ==
    LET r == FoldLeft(LAMBDA acc, d :
                 LET v == acc.carry + d * mul
                 IN  [out |-> Append(acc.out, v % base), carry |-> v \div base],
               [out |-> <<>>, carry |-> c], ds)
    IN  r.out \o Spill(r.carry, base)

\* encodeBase58: the bytes read most significant first into little-endian
\* base-58 digits, one '1' per leading zero byte, then the digits from the
\* most significant.
EncodeBase58(data) ==
    IF data = <<>> THEN <<>>
    ELSE [i \in 1..LeadingCount(data, 0) |-> 0]
           \o Reverse(FoldLeft(LAMBDA ds, b : MulAdd(ds, 256, 58, b), <<>>, data))

\* decodeBase58: every character multiplies the little-endian byte string by
\* 58 and adds its position; a zero byte is inserted in front for each
\* leading '1'.  The bytes are returned in that little-endian order.
DecodeBase58(s) ==
    IF \E i \in DOMAIN s : s[i] = NotBase58 THEN <<>>
    ELSE [i \in 1..LeadingCount(s, 0) |-> 0]
           \o FoldLeft(LAMBDA bs, c : MulAdd(bs, 58, 256, c), <<>>, s)

\* encodeBase58Check: version byte, payload, the checksum of both.
EncodeBase58Check(payload, version) ==
    LET buf == <<version>> \o payload IN EncodeBase58(buf \o Checksum(buf))

\* decodeBase58Check: at least five bytes; the first is the version, the
\* last four must be the checksum of all the others, the payload is what
\* lies between.
DecodeBase58Check(address) ==
    LET d == DecodeBase58(address)
        n == Len(d)
    IN  IF n < 5 \/ Checksum(SubSeq(d, 1, n - 4)) # SubSeq(d, n - 3, n)
        THEN [ok |-> FALSE, version |-> IF n < 5 THEN 0 ELSE d[1], payload |-> <<>>]
        ELSE [ok |-> TRUE, version |-> d[1], payload |-> SubSeq(d, 2, n - 4)]

PubKeyHashToAddress(hash) == EncodeBase58Check(hash, ADDRESS_VERSION)

\* addressToPubKeyHash: the payload when it is a hash of the right length
\* under ADDRESS_VERSION, the empty vector otherwise.
AddressToPubKeyHash(address) ==
    LET r == DecodeBase58Check(address) IN
    IF r.ok /\ Len(r.payload) = HASH160_LEN /\ r.version = ADDRESS_VERSION
    THEN r.payload ELSE <<>>

=============================================================================
