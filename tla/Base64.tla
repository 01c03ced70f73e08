------------------------------- MODULE Base64 -------------------------------
(***************************************************************************)
(* The encoder and the decoder of src/base64.c, on sequences of bytes.  A  *)
(* letter of the alphabet is its index, 0..63, what find() returns; Pad is *)
(* '=' and, in a text that is decoded, any other character that is no      *)
(* letter: the decoder ends at both.  The bit masks and shifts of the code *)
(* are written as quotients and remainders.                                *)
(***************************************************************************)
EXTENDS Integers, Sequences

Byte == 0..255
Pad  == 64

\* The k-th byte of the input; char_3 is filled up with zeros past its end.
Padded(input, k) == IF k <= Len(input) THEN input[k] ELSE 0

\* The four letters (q is 0..3) of the group of bytes that begins after b.
Letter(input, b, q) ==
    LET c1 == Padded(input, b + 1)
        c2 == Padded(input, b + 2)
        c3 == Padded(input, b + 3)
    IN  CASE q = 0 -> c1 \div 4
          [] q = 1 -> (c1 % 4) * 16 + c2 \div 16
          [] q = 2 -> (c2 % 16) * 4 + c3 \div 64
          [] q = 3 -> c3 % 64

\* The letters of a text of len bytes before the padding: i + 1 letters for
\* the i bytes of an incomplete group.
Letters(len) ==
    4 * (len \div 3) + (IF len % 3 = 0 THEN 0 ELSE (len % 3) + 1)

\* base64_encode: letters, then '=' up to a multiple of four.
base64_encode(input) ==
    [j \in 1..4 * ((Len(input) + 2) \div 3) |->
        IF j <= Letters(Len(input))
        THEN Letter(input, 3 * ((j - 1) \div 4), (j - 1) % 4)
        ELSE Pad]

\* Seeded bug: no room for the final NUL.
EncodedTight(len) == ((len + 2) \div 3) * 4

\* What is allocated for the text and its final NUL.
EncodedRoom(len) == ((len + 13) \div 3) * 4

\* The bytes that the letters carry, up to the first that is none: whole
\* groups of four, and one byte less than the letters of a last group.
Carried(text) ==
    LET stops == {j \in 1..Len(text) : text[j] = Pad}
        n == IF stops = {} THEN Len(text)
             ELSE (CHOOSE j \in stops : \A k \in stops : j <= k) - 1
    IN  3 * (n \div 4) + (IF n % 4 = 0 THEN 0 ELSE (n % 4) - 1)

\* base64_decode: char_array_4 -> char_array_3, as bytes.
base64_decode(text) ==
    LET a(k, q) == text[4 * ((k - 1) \div 3) + q]
    IN  [k \in 1..Carried(text) |->
           CASE (k - 1) % 3 = 0 -> (a(k, 1) * 4 + a(k, 2) \div 16) % 256
             [] (k - 1) % 3 = 1 -> ((a(k, 2) % 16) * 16 + a(k, 3) \div 4) % 256
             [] (k - 1) % 3 = 2 -> ((a(k, 3) % 4) * 64 + a(k, 4)) % 256]

\* What is allocated for the bytes and their final NUL.
DecodedRoom(len) == 3 * (len \div 4) + 2
=============================================================================
