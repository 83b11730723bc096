\* Two-byte hashes over the bytes 0, 1, 57 and 255 (a leading zero, a
\* digit boundary, the largest byte), under the code's version byte 0x3f.
CONSTANTS
    Checksum <- MCChecksum
    ADDRESS_VERSION = 63
    HASH160_LEN = 2
    NotBase58 = NotBase58
    Bytes = {0, 1, 57, 255}
INIT Init
NEXT Next
INVARIANT
    AddressRoundTrip
