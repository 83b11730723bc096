-------------------------------- MODULE Hex --------------------------------
(***************************************************************************)
(* hexEncode and hexDecode of src/util/util.cpp.  A character is its ASCII *)
(* code; a byte string is a sequence of naturals below 256.                *)
(***************************************************************************)
EXTENDS Integers, Sequences, SequencesExt, Bitwise

HexDigits == <<48, 49, 50, 51, 52, 53, 54, 55, 56, 57, 97, 98, 99, 100, 101, 102>>

\* The low nibble written first.
HexEncodeLowFirst(data) ==
    FoldLeft(LAMBDA out, b : out \o <<HexDigits[(b % 16) + 1], HexDigits[(b \div 16) + 1]>>,
             <<>>, data)

\* hexEncode: two characters of "0123456789abcdef" per byte, high nibble
\* first.
HexEncode(data) ==
    FoldLeft(LAMBDA out, b : out \o <<HexDigits[(b \div 16) + 1], HexDigits[(b % 16) + 1]>>,
             <<>>, data)

\* std::tolower on an ASCII code.
ToLower(c) == IF c \in 65..90 THEN c + 32 ELSE c

\* The digit value hexDecode gives a character: from 'a' upwards c - 'a' +
\* 10, from '0' upwards c - '0', below '0' -1 (no upper bound is checked).
NibbleOf(c) ==
    LET l == ToLower(c) IN
    IF l >= 97 THEN l - 97 + 10 ELSE IF l >= 48 THEN l - 48 ELSE -1

\* (uint8_t)((a << 4) | b): the low eight bits of the or.
PackByte(a, b) == ((a * 16) | b) % 256

\* The bytes hexDecode takes from the first 2k characters, or the empty
\* vector as soon as a pair has a negative nibble; a last odd character is
\* ignored.
HexDecode(hex) ==
    LET pairs == [k \in 1..(Len(hex) \div 2) |-> <<NibbleOf(hex[2 * k - 1]), NibbleOf(hex[2 * k])>>]
    IN  IF \E k \in DOMAIN pairs : pairs[k][1] < 0 \/ pairs[k][2] < 0
        THEN <<>>
        ELSE [k \in DOMAIN pairs |-> PackByte(pairs[k][1], pairs[k][2])]

=============================================================================
