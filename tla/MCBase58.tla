------------------------------ MODULE MCBase58 ------------------------------
(***************************************************************************)
(* The address encoding on every public key hash over a few byte values.   *)
(* The hash is HASH160_LEN bytes long, scaled down from 20: the loops of   *)
(* encodeBase58 and decodeBase58 treat every length alike.  The checksum  *)
(* is a fixed function of the bytes standing for sha256d's first four.     *)
(***************************************************************************)
EXTENDS Base58

CONSTANT Bytes      \* the byte values a hash may contain

\* A deterministic four-byte digest: the sum, the length, the first byte
\* and a position-weighted sum, each modulo 256.
MCChecksum(bs) ==
    LET n == Len(bs) IN
    << FoldLeft(LAMBDA a, b : (a + b) % 256, 0, bs),
       n % 256,
       IF n = 0 THEN 0 ELSE bs[1],
       FoldLeft(LAMBDA a, i : (a + i * bs[i]) % 256, 0, [i \in 1..n |-> i]) >>

VARIABLE hash

Init == hash \in [1..HASH160_LEN -> Bytes]

Next == UNCHANGED hash

\* The Base58Check encoding round-trips (spec, testable properties: an
\* uncorrupted encoding decodes to the original payload): the address
\* hdwallet derives from a public key hash, handed to addressToPubKeyHash
\* by generateNewAddress, the sendtoaddress scan and --mineaddr, gives the
\* hash back.
AddressRoundTrip == AddressToPubKeyHash(PubKeyHashToAddress(hash)) = hash

=============================================================================
