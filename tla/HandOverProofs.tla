--------------------------- MODULE HandOverProofs ---------------------------
(***************************************************************************)
(* What holds of the requests to Transmission for any number of restarts   *)
(* of Transmission, answers and broken connections: one retry is enough,   *)
(* a torrent that was added gets its limit, and the hand-over is the one   *)
(* that module HandOver promises.  And what the decoder of base64.c makes  *)
(* of a text of the encoder, in which the torrents are sent, for every     *)
(* sequence of bytes; that the buffer of the encoder is always large       *)
(* enough, and for which texts the buffer of the decoder is.               *)
(***************************************************************************)
EXTENDS RequestsProofs, Base64, Induction

-----------------------------------------------------------------------------
(***************************************************************************)
(* Quotients and remainders.                                               *)
(***************************************************************************)
\* Division by three, the bytes of a group.
LEMMA ByThree ==
    ASSUME NEW n \in Nat
    PROVE  /\ n \div 3 \in Nat /\ n % 3 \in 0..2
           /\ n = 3 * (n \div 3) + (n % 3)
           /\ (n + 2) \div 3 = (n \div 3) + (IF n % 3 = 0 THEN 0 ELSE 1)
OBVIOUS

\* Division by four, the letters of a group.
LEMMA ByFour ==
    ASSUME NEW n \in Nat
    PROVE  /\ n \div 4 \in Nat /\ n % 4 \in 0..3
           /\ n = 4 * (n \div 4) + (n % 4)
OBVIOUS

\* Four letters carry three bytes.
LEMMA ThreeBytes ==
    ASSUME NEW c1 \in Byte, NEW c2 \in Byte, NEW c3 \in Byte
    PROVE  /\ c1 \div 4 \in 0..63
           /\ (c1 % 4) * 16 + c2 \div 16 \in 0..63
           /\ (c2 % 16) * 4 + c3 \div 64 \in 0..63
           /\ c3 % 64 \in 0..63
           /\ ((c1 \div 4) * 4 + ((c1 % 4) * 16 + c2 \div 16) \div 16) % 256
                = c1
           /\ ((((c1 % 4) * 16 + c2 \div 16) % 16) * 16
                 + ((c2 % 16) * 4 + c3 \div 64) \div 4) % 256 = c2
           /\ ((((c2 % 16) * 4 + c3 \div 64) % 4) * 64 + (c3 % 64)) % 256 = c3
BY SMTT(30) DEF Byte

-----------------------------------------------------------------------------
(***************************************************************************)
(* The text of the encoder.                                                *)
(***************************************************************************)
\* How many letters there are, and how many are padding.
LEMMA LettersBounds ==
    ASSUME NEW n \in Nat
    PROVE  /\ Letters(n) \in Nat
           /\ 4 * ((n + 2) \div 3) \in Nat
           /\ Letters(n) <= 4 * ((n + 2) \div 3)
           /\ Letters(n) = 4 * ((n + 2) \div 3) <=> n % 3 = 0
           /\ 3 * (Letters(n) \div 4)
                + (IF Letters(n) % 4 = 0 THEN 0 ELSE (Letters(n) % 4) - 1) = n
<1> DEFINE q == n \div 3
           r == n % 3
<1>1. /\ q \in Nat /\ r \in 0..2 /\ n = 3 * q + r
      /\ (n + 2) \div 3 = q + (IF r = 0 THEN 0 ELSE 1)
  BY ByThree
<1>2. Letters(n) = 4 * q + (IF r = 0 THEN 0 ELSE r + 1) BY DEF Letters
<1> HIDE DEF q, r
<1>3. CASE r = 0
  <2>1. Letters(n) = 4 * q BY <1>1, <1>2, <1>3
  <2>2. (4 * q) \div 4 = q /\ (4 * q) % 4 = 0 BY <1>1
  <2> QED BY <1>1, <1>3, <2>1, <2>2 DEF r
<1>4. CASE r # 0
  <2>1. Letters(n) = 4 * q + (r + 1) /\ r + 1 \in {2, 3} BY <1>1, <1>2, <1>4
  <2>2. (4 * q + (r + 1)) \div 4 = q /\ (4 * q + (r + 1)) % 4 = r + 1
    BY <1>1, <2>1
  <2> QED BY <1>1, <1>4, <2>1, <2>2 DEF r
<1> QED BY <1>3, <1>4

\* A byte behind the input is 0.
LEMMA PaddedIsByte ==
    ASSUME NEW s \in Seq(Byte), NEW k \in Nat \ {0}
    PROVE  Padded(s, k) \in Byte
<1>1. CASE k <= Len(s)
  <2>1. k \in 1..Len(s) BY <1>1
  <2>2. s[k] \in Byte BY <2>1
  <2> QED BY <1>1, <2>2 DEF Padded
<1>2. CASE ~(k <= Len(s)) BY <1>2 DEF Padded, Byte
<1> QED BY <1>1, <1>2

\* A letter is one of 64, none of them the padding.
LEMMA LetterIsNoPad ==
    ASSUME NEW s \in Seq(Byte), NEW b \in Nat, NEW q \in 0..3
    PROVE  Letter(s, b, q) \in 0..63
<1>1. /\ Padded(s, b + 1) \in Byte /\ Padded(s, b + 2) \in Byte
      /\ Padded(s, b + 3) \in Byte
  BY PaddedIsByte
<1> QED BY <1>1, ThreeBytes DEF Letter

\* The letters first, then the padding.
LEMMA EncodedText ==
    ASSUME NEW s \in Seq(Byte)
    PROVE  LET t == base64_encode(s) IN
           /\ Len(t) = 4 * ((Len(s) + 2) \div 3)
           /\ \A j \in 1..Len(t) :
                t[j] = IF j <= Letters(Len(s))
                       THEN Letter(s, 3 * ((j - 1) \div 4), (j - 1) % 4)
                       ELSE Pad
           /\ \A j \in 1..Len(t) : t[j] = Pad <=> j > Letters(Len(s))
<1> DEFINE t == base64_encode(s)
           n == Len(s)
<1>1. n \in Nat /\ 4 * ((n + 2) \div 3) \in Nat /\ Letters(n) \in Nat
  <2>1. n \in Nat OBVIOUS
  <2> HIDE DEF n
  <2> QED BY <2>1, LettersBounds
<1>2. DOMAIN t = 1..4 * ((n + 2) \div 3) BY DEF base64_encode
<1>3. Len(t) = 4 * ((n + 2) \div 3) BY <1>1, <1>2 DEF base64_encode
<1>4. \A j \in 1..Len(t) :
        t[j] = IF j <= Letters(n)
               THEN Letter(s, 3 * ((j - 1) \div 4), (j - 1) % 4) ELSE Pad
  BY <1>3 DEF base64_encode
<1>5. ASSUME NEW j \in 1..Len(t) PROVE t[j] = Pad <=> j > Letters(n)
  <2>1. j - 1 \in Nat BY <1>1, <1>3
  <2>2. 3 * ((j - 1) \div 4) \in Nat /\ (j - 1) % 4 \in 0..3
    BY <2>1, ByFour
  <2>3. Letter(s, 3 * ((j - 1) \div 4), (j - 1) % 4) \in 0..63
    BY <2>2, LetterIsNoPad
  <2>4. Letter(s, 3 * ((j - 1) \div 4), (j - 1) % 4) # Pad
    <3>1. \A x \in 0..63 : x # Pad BY DEF Pad
    <3> QED BY <2>3, <3>1
  <2> QED BY <1>1, <1>3, <1>4, <2>4
<1> QED BY <1>3, <1>4, <1>5

\* The decoder finds as many bytes as there were.
LEMMA CarriesAll ==
    ASSUME NEW s \in Seq(Byte)
    PROVE  Carried(base64_encode(s)) = Len(s)
<1> DEFINE t == base64_encode(s)
           n == Len(s)
           stops == {j \in 1..Len(t) : t[j] = Pad}
           first == CHOOSE j \in stops : \A k \in stops : j <= k
           m == IF stops = {} THEN Len(t) ELSE first - 1
<1>1. /\ n \in Nat /\ Letters(n) \in Nat /\ Len(t) \in Nat
      /\ Letters(n) <= Len(t)
      /\ Letters(n) = Len(t) <=> n % 3 = 0
      /\ \A j \in 1..Len(t) : t[j] = Pad <=> j > Letters(n)
  <2>1. n \in Nat OBVIOUS
  <2>2. /\ Len(t) = 4 * ((n + 2) \div 3)
        /\ \A j \in 1..Len(t) : t[j] = Pad <=> j > Letters(n)
    BY EncodedText
  <2> HIDE DEF n, t
  <2>3. /\ Letters(n) \in Nat /\ 4 * ((n + 2) \div 3) \in Nat
        /\ Letters(n) <= 4 * ((n + 2) \div 3)
        /\ Letters(n) = 4 * ((n + 2) \div 3) <=> n % 3 = 0
    BY <2>1, LettersBounds
  <2> QED BY <2>1, <2>2, <2>3
<1>2. m = Letters(n)
  <2> HIDE DEF t, n
  <2>1. CASE Letters(n) = Len(t)
    <3>1. stops = {} BY <1>1, <2>1
    <3> QED BY <2>1, <3>1
  <2>2. CASE Letters(n) # Len(t)
    <3>1. Letters(n) + 1 \in stops BY <1>1, <2>2
    <3>2. \A k \in stops : Letters(n) + 1 <= k BY <1>1
    <3>3. stops \subseteq Nat BY <1>1
    <3> HIDE DEF stops
    <3>4. first \in stops /\ \A k \in stops : first <= k BY <3>1, <3>2
    <3> HIDE DEF first
    <3>5. first = Letters(n) + 1 BY <1>1, <3>1, <3>2, <3>3, <3>4
    <3>6. stops # {} BY <3>1
    <3> QED BY <1>1, <3>5, <3>6
  <2> QED BY <2>1, <2>2
<1>3. Carried(t) = 3 * (m \div 4) + (IF m % 4 = 0 THEN 0 ELSE (m % 4) - 1)
  BY DEF Carried
<1> QED BY <1>1, <1>2, <1>3, LettersBounds

\* What was encoded is decoded again: no document is spoiled on its way.
THEOREM DecodesWhatWasEncoded ==
    ASSUME NEW s \in Seq(Byte)
    PROVE  base64_decode(base64_encode(s)) = s
<1> DEFINE t == base64_encode(s)
           n == Len(s)
           byte(k) == base64_decode(t)[k]
<1>1. n \in Nat /\ Carried(t) = n BY CarriesAll
<1>2. base64_decode(t) = [k \in 1..n |-> byte(k)]
  BY <1>1 DEF base64_decode
<1>3. ASSUME NEW k \in 1..n PROVE byte(k) = s[k]
  <2> DEFINE g == (k - 1) \div 3
             r == (k - 1) % 3
             c(i) == Padded(s, 3 * g + i)
  <2>1. /\ g \in Nat /\ r \in 0..2 /\ k = 3 * g + r + 1
    BY <1>1, ByThree
  <2>2. c(1) \in Byte /\ c(2) \in Byte /\ c(3) \in Byte
    <3> HIDE DEF g
    <3> QED BY <2>1, PaddedIsByte
  <2>3. Letters(n) >= 4 * g + r + 2 /\ Letters(n) <= Len(t)
    <3> DEFINE q == n \div 3
    <3>1. q \in Nat /\ n % 3 \in 0..2 /\ n = 3 * q + (n % 3)
      BY <1>1, ByThree
    <3>2. Letters(n) = 4 * q + (IF n % 3 = 0 THEN 0 ELSE (n % 3) + 1)
      BY DEF Letters
    <3>3. 3 * g + r + 1 <= 3 * q + (n % 3) BY <1>1, <2>1, <3>1
    <3>4. g < q \/ (g = q /\ r + 1 <= n % 3)
      <4> HIDE DEF g, r, q, n
      <4> QED BY <2>1, <3>1, <3>3
    <3>5. Letters(n) >= 4 * g + r + 2
      <4> HIDE DEF g, r, q, n
      <4> QED BY <2>1, <3>1, <3>2, <3>4
    <3>6. Letters(n) <= Len(t) BY <1>1, LettersBounds, EncodedText
    <3> QED BY <3>5, <3>6
  <2>4. ASSUME NEW i \in 1..r + 2
        PROVE  t[4 * g + i] = Letter(s, 3 * g, i - 1)
    <3> HIDE DEF g, r
    <3>1. i \in 1..4 BY <2>1
    <3>2. 4 * g + i \in 1..Len(t) /\ 4 * g + i <= Letters(n)
      <4>1. Letters(n) \in Nat BY <1>1, LettersBounds
      <4>2. Len(t) \in Nat BY <1>1, LettersBounds, EncodedText
      <4> HIDE DEF t, n
      <4> QED BY <2>1, <2>3, <4>1, <4>2
    <3>3. \A j \in 1..Len(t) : j <= Letters(n) =>
            t[j] = Letter(s, 3 * ((j - 1) \div 4), (j - 1) % 4)
      BY EncodedText
    <3>4. ASSUME NEW j \in 1..Len(t), j = 4 * g + i
          PROVE  t[j] = Letter(s, 3 * g, i - 1)
      <4>1. t[j] = Letter(s, 3 * ((j - 1) \div 4), (j - 1) % 4)
        BY <3>2, <3>3, <3>4
      <4>2. (j - 1) \div 4 = g /\ (j - 1) % 4 = i - 1
        BY <2>1, <3>1, <3>4
      <4> QED BY <4>1, <4>2
    <3> HIDE DEF t
    <3> QED BY <3>2, <3>4
  <2>5. byte(k) = CASE r = 0 ->
                         (t[4 * g + 1] * 4 + t[4 * g + 2] \div 16) % 256
                    [] r = 1 -> ((t[4 * g + 2] % 16) * 16
                                   + t[4 * g + 3] \div 4) % 256
                    [] r = 2 -> ((t[4 * g + 3] % 4) * 64
                                   + t[4 * g + 4]) % 256
    BY <1>1 DEF base64_decode
  <2>6. c(r + 1) = s[k] BY <1>1, <2>1 DEF Padded
  <2>7. /\ Letter(s, 3 * g, 0) = c(1) \div 4
        /\ Letter(s, 3 * g, 1) = (c(1) % 4) * 16 + c(2) \div 16
        /\ Letter(s, 3 * g, 2) = (c(2) % 16) * 4 + c(3) \div 64
        /\ Letter(s, 3 * g, 3) = c(3) % 64
    BY DEF Letter
  <2> HIDE DEF g, r, byte, c
  <2>8. CASE r = 0
    <3>1. /\ t[4 * g + 1] = Letter(s, 3 * g, 0)
          /\ t[4 * g + 2] = Letter(s, 3 * g, 1)
      BY <2>4, <2>8
    <3> QED BY <2>2, <2>5, <2>6, <2>7, <2>8, <3>1, ThreeBytes
  <2>9. CASE r = 1
    <3>1. /\ t[4 * g + 2] = Letter(s, 3 * g, 1)
          /\ t[4 * g + 3] = Letter(s, 3 * g, 2)
      BY <2>4, <2>9
    <3> QED BY <2>2, <2>5, <2>6, <2>7, <2>9, <3>1, ThreeBytes
  <2>10. CASE r = 2
    <3>1. /\ t[4 * g + 3] = Letter(s, 3 * g, 2)
          /\ t[4 * g + 4] = Letter(s, 3 * g, 3)
      BY <2>4, <2>10
    <3> QED BY <2>2, <2>5, <2>6, <2>7, <2>10, <3>1, ThreeBytes
  <2> QED BY <2>1, <2>8, <2>9, <2>10
<1>4. s = [k \in 1..n |-> s[k]] OBVIOUS
<1> HIDE DEF byte
<1> QED BY <1>2, <1>3, <1>4

\* The bytes that n letters carry.
Bytes(n) == 3 * (n \div 4) + (IF n % 4 = 0 THEN 0 ELSE (n % 4) - 1)

\* So many letters are read, up to the first that is none.
LEMMA LettersAreRead ==
    ASSUME NEW text \in Seq(0..Pad)
    PROVE  \E n \in 0..Len(text) :
             /\ Carried(text) = Bytes(n)
             /\ n = Len(text) <=> \A j \in 1..Len(text) : text[j] # Pad
<1> DEFINE stops == {j \in 1..Len(text) : text[j] = Pad}
           first == CHOOSE j \in stops : \A k \in stops : j <= k
           n == IF stops = {} THEN Len(text) ELSE first - 1
<1>1. Len(text) \in Nat
  OBVIOUS
<1>2. Carried(text) = Bytes(n)
  BY DEF Carried, Bytes
<1>3. CASE stops = {}
  <2>1. n = Len(text) /\ \A j \in 1..Len(text) : text[j] # Pad
    BY <1>3
  <2>2. n \in 0..Len(text)
    BY <1>1, <2>1
  <2> HIDE DEF n
  <2> QED
    BY <1>2, <2>1, <2>2
<1>4. CASE stops # {}
  <2>1. n = first - 1
    BY <1>4
  <2>2. first \in stops
    <3>1. stops \subseteq Nat
      BY <1>1
    <3> HIDE DEF stops
    <3>2. \E j \in stops : \A k \in stops : j <= k
      BY <1>4, <3>1, Least
    <3> QED
      BY <3>2
  <2>3. first \in 1..Len(text) /\ text[first] = Pad
    BY <2>2
  <2> HIDE DEF first, n
  <2>4. n \in 0..Len(text) /\ n # Len(text)
    BY <1>1, <2>1, <2>3
  <2>5. ~(\A j \in 1..Len(text) : text[j] # Pad)
    BY <2>3
  <2> QED
    BY <1>2, <2>4, <2>5
<1> QED
  BY <1>3, <1>4

\* The bytes of n letters and a NUL, in what is allocated for all letters.
LEMMA RoomOfLetters ==
    ASSUME NEW all \in Nat, NEW n \in 0..all
    PROVE  Bytes(n) + 1 <= DecodedRoom(all)
             <=> ~(all % 4 = 3 /\ n = all)
<1> DEFINE q == n \div 4
           r == n % 4
           Q == all \div 4
           R == all % 4
<1>1. n \in Nat /\ n <= all
  OBVIOUS
<1>2. /\ q \in Nat /\ r \in 0..3 /\ n = 4 * q + r
      /\ Q \in Nat /\ R \in 0..3 /\ all = 4 * Q + R
  BY <1>1, ByFour
<1>3. DecodedRoom(all) = 3 * Q + 2
  BY DEF DecodedRoom
<1> HIDE DEF q, r, Q, R
<1>4. q <= Q /\ (q = Q => r <= R) /\ (n = all <=> q = Q /\ r = R)
  BY <1>1, <1>2
<1>5. 3 * q + (IF r = 0 THEN 0 ELSE r - 1) + 1 <= 3 * Q + 2
        <=> ~(R = 3 /\ n = all)
  BY <1>2, <1>4
<1> QED
  BY <1>3, <1>5 DEF q, r, R, Bytes

\* The room of the encoder, for every input: its text and a NUL fit.  The
\* room of the decoder, for every text of letters with what is none (Pad)
\* anywhere in it: what the loop writes and its NUL fit (base64.c:129,
\* 152-169), unless three letters are left over at the very end of the text.
\* Such a text, which no encoder makes, is one byte too long for its buffer.
THEOREM BuffersAreLargeEnough ==
    /\ \A s \in Seq(Byte) : Len(base64_encode(s)) + 1 <= EncodedRoom(Len(s))
    /\ \A text \in Seq(0..Pad) :
         Len(base64_decode(text)) + 1 <= DecodedRoom(Len(text))
         <=> ~(/\ Len(text) % 4 = 3
               /\ \A j \in 1..Len(text) : text[j] # Pad)
<1>1. ASSUME NEW s \in Seq(Byte)
      PROVE  Len(base64_encode(s)) + 1 <= EncodedRoom(Len(s))
  <2> DEFINE n == Len(s)
  <2>1. n \in Nat /\ Len(base64_encode(s)) = 4 * ((n + 2) \div 3)
    BY EncodedText
  <2>2. 4 * ((n + 2) \div 3) + 1 <= ((n + 13) \div 3) * 4
    BY <2>1
  <2> QED
    BY <2>1, <2>2 DEF EncodedRoom
<1>2. ASSUME NEW text \in Seq(0..Pad)
      PROVE  Len(base64_decode(text)) + 1 <= DecodedRoom(Len(text))
             <=> ~(/\ Len(text) % 4 = 3
                   /\ \A j \in 1..Len(text) : text[j] # Pad)
  <2>1. PICK n \in 0..Len(text) :
          /\ Carried(text) = Bytes(n)
          /\ n = Len(text) <=> \A j \in 1..Len(text) : text[j] # Pad
    BY LettersAreRead
  <2>2. Len(text) \in Nat
    OBVIOUS
  <2>3. Carried(text) + 1 <= DecodedRoom(Len(text))
          <=> ~(Len(text) % 4 = 3 /\ n = Len(text))
    BY <2>1, <2>2, RoomOfLetters
  <2>4. Len(base64_decode(text)) = Carried(text)
    <3>1. Carried(text) \in Nat
      <4>1. n \in Nat
        BY <2>1, <2>2
      <4>2. n \div 4 \in Nat /\ n % 4 \in 0..3
        BY <4>1, ByFour
      <4> QED
        BY <2>1, <4>2 DEF Bytes
    <3>2. DOMAIN base64_decode(text) = 1..Carried(text)
      BY DEF base64_decode
    <3>3. base64_decode(text)
            = [k \in 1..Carried(text) |-> base64_decode(text)[k]]
      BY DEF base64_decode
    <3> QED
      BY <3>1, <3>2, <3>3
  <2> QED
    BY <2>1, <2>3, <2>4
<1> QED
  BY <1>1, <1>2

\* What was encoded fits when it is decoded: it has no letters left over.
LEMMA EncodedFits ==
    ASSUME NEW s \in Seq(Byte)
    PROVE  LET t == base64_encode(s) IN
           /\ Len(t) + 1 <= EncodedRoom(Len(s))
           /\ Len(base64_decode(t)) + 1 <= DecodedRoom(Len(t))
<1> DEFINE t == base64_encode(s)
           n == Len(s)
<1>1. /\ n \in Nat /\ Len(t) = 4 * ((n + 2) \div 3)
      /\ \A j \in 1..Len(t) :
           t[j] = IF j <= Letters(n)
                  THEN Letter(s, 3 * ((j - 1) \div 4), (j - 1) % 4) ELSE Pad
  BY EncodedText
<1>2. Len(base64_decode(t)) = n
  BY DecodesWhatWasEncoded
<1>3. Len(t) + 1 <= EncodedRoom(n)
  BY BuffersAreLargeEnough
<1>4. DecodedRoom(Len(t)) = 3 * ((n + 2) \div 3) + 2
  <2>1. (4 * ((n + 2) \div 3)) \div 4 = (n + 2) \div 3
    BY <1>1
  <2> QED
    BY <1>1, <2>1 DEF DecodedRoom
<1>5. n + 1 <= 3 * ((n + 2) \div 3) + 2
  BY <1>1
<1> QED
  BY <1>2, <1>3, <1>4, <1>5

-----------------------------------------------------------------------------
(***************************************************************************)
(* One retry.                                                              *)
(***************************************************************************)
Arrived == {"body", "write", "done"}

\* What is left of the header lines of a refusal, and what is known of the
\* session id then.
Told ==
    \/ answer.headers = <<SessionId(tm.session), Length(<<200>>)>>
    \/ /\ gSessionID = tm.session
       /\ answer.headers \in {<<Length(<<200>>)>>, <<>>}

RetryInv ==
    /\ tries \in {0, 1}
    /\ (request.rpc /\ ~renewed /\ tries = 0) =>
         /\ step \in {"sent", "headers"} => request.id = tm.session
         /\ step \in {"headers"} \cup Arrived => answer.code # 409
    /\ (request.rpc /\ ~renewed /\ tries = 1 /\ answer.code = 409) =>
         /\ step = "headers" => Told
         /\ step \in Arrived => gSessionID = tm.session

\* The daemon begins its requests with a first try.
LEMMA CallKeepsRetry ==
    ASSUME RetryInv,
           \/ getHTTPData \/ HTTPResponse_free
           \/ sendsNothing /\ step = "returned"
           \/ \E p, r : r \in BOOLEAN /\ sendHTTPData(p, r)
    PROVE  RetryInv'
<1>1. CASE getHTTPData \/ HTTPResponse_free
  <2>1. tries' = 0 /\ request' = Idle
    BY <1>1 DEF getHTTPData, HTTPResponse_free
  <2> QED BY <2>1 DEF Idle, RetryInv
<1>2. CASE sendsNothing /\ step = "returned"
  <2>1. tries' = tries /\ step' = "returned" BY <1>2 DEF sendsNothing
  <2> QED BY <2>1 DEF RetryInv, Arrived
<1>3. CASE \E p, r : r \in BOOLEAN /\ sendHTTPData(p, r)
  <2>1. tries' = 1 /\ step' = "sent" BY <1>3 DEF sendHTTPData
  <2> QED BY <2>1 DEF RetryInv, Arrived
<1> QED BY <1>1, <1>2, <1>3

\* A header line with the new session id puts it into gSessionID.
LEMMA HeaderLineKeepsRetry ==
    ASSUME WebInv, RetryInv, HeaderLine, UNCHANGED <<tm, renewed>>
    PROVE  RetryInv'
<1> DEFINE line == Head(answer.headers)
<1>1. /\ step = "headers" /\ step' = step /\ answer.headers # <<>>
      /\ gSessionID' = SessionIdAfter(line)
      /\ answer' = [answer EXCEPT !.headers = Tail(answer.headers)]
      /\ UNCHANGED <<request, tries>>
  BY DEF HeaderLine
<1>2. /\ answer'.code = answer.code
      /\ answer'.headers = Tail(answer.headers)
  BY <1>1 DEF WebInv, Shapes
<1>3. ASSUME request.rpc, Told PROVE Told'
  <2> DEFINE L == Length(<<200>>)
             S == SessionId(tm.session)
  <2>1. L.name = "Content-Length" /\ S.name = "Session-Id"
        /\ S.value = tm.session
    BY DEF Length, SessionId, Header
  <2> HIDE DEF L, S
  <2>2. CASE answer.headers = <<S, L>>
    <3>1. line = S /\ Tail(answer.headers) = <<L>> BY <2>2
    <3>2. gSessionID' = tm'.session
      BY <1>1, <1>3, <2>1, <3>1 DEF SessionIdAfter
    <3> QED BY <1>2, <3>1, <3>2 DEF Told, L
  <2>3. CASE answer.headers = <<L>> /\ gSessionID = tm.session
    <3>1. line = L /\ Tail(answer.headers) = <<>> BY <2>3
    <3>2. gSessionID' = tm'.session
      BY <1>1, <2>1, <2>3, <3>1 DEF SessionIdAfter
    <3> QED BY <1>2, <3>1, <3>2 DEF Told
  <2> QED BY <1>1, <1>3, <2>2, <2>3 DEF Told, L, S
<1> QED BY <1>1, <1>2, <1>3 DEF RetryInv, Arrived

\* The other steps of a transfer keep what was learned of the session id.
LEMMA TransferKeepsRetry ==
    ASSUME WebInv, RetryInv, UNCHANGED <<tm, renewed>>,
           TransferStep \/ Break
    PROVE  RetryInv'
<1>1. CASE HeaderLine BY <1>1, HeaderLineKeepsRetry
<1>2. CASE EndOfHeaders
  <2>1. /\ step = "headers" /\ answer.headers = <<>>
        /\ step' \in {"body", "sent", "broken"}
        /\ UNCHANGED <<request, tries, answer, gSessionID>>
        /\ step' = "sent" => answer.code \in 300..399
    BY <1>2 DEF EndOfHeaders, IsRedirect
  <2>2. Told => gSessionID = tm.session BY <2>1 DEF Told
  <2>3. step' # "sent" => RetryInv' BY <2>1, <2>2 DEF RetryInv, Arrived
  <2>4. step' = "sent" => RetryInv' BY <2>1 DEF RetryInv, Arrived
  <2> QED BY <2>3, <2>4
<1>3. CASE Double \/ Store \/ Complete \/ \E n \in 1..MaxChunk : Receive(n)
  <2>1. /\ step \in {"body", "write"} /\ step' \in Arrived
        /\ UNCHANGED <<request, tries, gSessionID>>
        /\ answer'.code = answer.code
    BY <1>3 DEF Double, Store, Complete, Receive, Arrived, WebInv, Shapes
  <2> QED BY <2>1 DEF RetryInv, Arrived
<1>4. CASE ReturnNULL \/ ReturnResponse \/ Break
  <2>1. step' \in {"returned", "broken"} /\ tries' = tries
    BY <1>4 DEF ReturnNULL, ReturnResponse, Return, Break
  <2> QED BY <2>1 DEF RetryInv, Arrived
<1>5. CASE Retry
  <2>1. /\ step = "done" /\ answer.code = 409 /\ tries > 0
        /\ tries' = tries - 1 /\ step' = "sent"
        /\ request' = [request EXCEPT
                         !.id = IF request.rpc THEN gSessionID ELSE NoId]
    BY <1>5 DEF Retry
  <2>2. /\ request'.rpc = request.rpc
        /\ request.rpc => request'.id = gSessionID
    BY <2>1 DEF WebInv, Shapes
  <2>3. tries = 1 /\ tries' = 0 BY <2>1 DEF RetryInv
  <2> QED BY <2>1, <2>2, <2>3 DEF RetryInv, Arrived
<1> QED BY <1>1, <1>2, <1>3, <1>4, <1>5 DEF TransferStep

\* The first refusal tells the session id; a second one needs another restart.
LEMMA ServerKeepsRetry ==
    ASSUME RequestsInv, RetryInv, Server
    PROVE  RetryInv'
<1>1. CASE SessionRefused
  <2> DEFINE headers == <<SessionId(tm.session), Length(<<200>>)>>
  <2>1. /\ request.rpc /\ request.id # tm.session
        /\ step = "sent" /\ step' = "headers"
        /\ answer'.code = 409 /\ answer'.headers = headers
        /\ renewed' = (renewed /\ tries = 0)
        /\ UNCHANGED <<tm, request, tries, gSessionID>>
    BY <1>1 DEF SessionRefused, Respond
  <2>2. Told' BY <2>1 DEF Told
  <2> QED BY <2>1, <2>2 DEF RetryInv, Arrived
<1>2. CASE ~SessionRefused
  <2>1. /\ step' = "headers"
        /\ request.rpc => answer'.code # 409
        /\ UNCHANGED <<request, tries, renewed>>
        /\ step = "sent" /\ tm'.session = tm.session
    <3>1. \A text : Says(text) =>
            /\ step = "sent" /\ step' = "headers" /\ answer'.code # 409
            /\ UNCHANGED <<request, tries>>
      BY DEF Says, Respond
    <3> USE DEF RequestsInv, TMShape
    <3>2. CASE WebServerAnswers
      BY <3>2 DEF WebServerAnswers, Respond, histVars
    <3>3. CASE AccessDenied BY <3>3 DEF AccessDenied, Respond
    <3> QED BY <1>2, <3>1, <3>2, <3>3 DEF Server, TakesTorrent, HasTorrent,
          LimitsTorrent, TellsVersion, RefusesRequest, histVars
  <2> QED BY <2>1 DEF RetryInv, Arrived
<1> QED BY <1>1, <1>2

\* No step disturbs what is known of the session id.
LEMMA RetryInvIsKept ==
    RequestsInv /\ RetryInv /\ [Next]_vars => RetryInv'
<1> SUFFICES ASSUME RequestsInv, RetryInv, [Next]_vars PROVE RetryInv'
  OBVIOUS
<1>1. WebInv BY DEF RequestsInv
<1>2. CASE Transfer \/ ConnectionBreaks
  BY <1>1, <1>2, TransferKeepsRetry DEF Transfer, ConnectionBreaks, histVars
<1>3. CASE Server BY <1>3, ServerKeepsRetry
<1>4. CASE NewSession
  BY <1>4 DEF NewSession, webVars, RetryInv
<1>5. CASE UNCHANGED vars
  BY <1>5 DEF vars, webVars, histVars, RetryInv, Told
<1>6. CASE Daemon \/ Restart
  <2>1. CASE UNCHANGED webVars
    <3>1. UNCHANGED <<tm, renewed>>
      <4>1. \A result : Conclude(result) => UNCHANGED <<tm, renewed>>
        BY DEF Conclude, histVars
      <4> QED BY <1>6, <4>1 DEF Daemon, VerifyProwlAPIKey, AskRPCVersion,
            SetUp, downloadTorrent, uploadMagnet, BeginItem, DownloadFails,
            uploadTorrent, Uploaded, SpeedChanged, Notified, Restart, histVars
    <3> QED BY <2>1, <3>1 DEF webVars, RetryInv, Told
  <2> QED BY <1>6, <2>1, DaemonCalls, CallKeepsRetry
<1> QED BY <1>2, <1>3, <1>4, <1>5, <1>6 DEF Next

\* It holds in every state of a behaviour.
LEMMA RetryInvHolds == Spec => []RetryInv
<1>1. Init => RetryInv BY DEF Init, InitWeb, Idle, RetryInv
<1> QED BY <1>1, RetryInvIsKept, TransfersInvariant, PTL DEF Spec

\* A request to Transmission whose connection held is refused for good only
\* if Transmission was restarted after its first refusal: one retry is enough.
THEOREM OneRetryIsEnough == Spec => []RefusedTwiceMeansRestart
<1>1. RetryInv => RefusedTwiceMeansRestart
  BY DEF RetryInv, Arrived, RefusedTwiceMeansRestart
<1> QED BY <1>1, RetryInvHolds, PTL

-----------------------------------------------------------------------------
(***************************************************************************)
(* The version.                                                            *)
(***************************************************************************)
\* A request is on its way, or its answer.
Active == {"sent", "headers"} \cup Arrived

\* What is read from each kind of answer.
LEMMA FieldsOfTexts ==
    /\ Field(NULL, 300) = -1
    /\ Field(<<Result(Duplicate)>>, 300) = Duplicate
    /\ Field(<<Result(Refused)>>, 300) = Refused
    /\ \A n \in Nat : /\ Field(<<Id(n), Result(Success)>>, 300) = Success
                      /\ Field(<<Id(n), Result(Success)>>, 400) = n
    /\ \A n \in Nat :
         /\ Field(<<RPCVersion(n), Result(Success)>>, 300) = Success
         /\ Field(<<RPCVersion(n), Result(Success)>>, 500) = n
<1>1. Field(NULL, 300) = -1
  <2>1. Len(NULL) = 0 BY EmptyIsText
  <2>2. {k \in 1..Len(NULL) : NULL[k] % 1000 = 300} = {} BY <2>1
  <2> QED BY <2>2 DEF Field
<1>2. ASSUME NEW r \in Nat PROVE Field(<<Result(r)>>, 300) = r
  <2> DEFINE text == <<Result(r)>>
             at == {k \in 1..Len(text) : text[k] % 1000 = 300}
  <2>1. /\ Result(r) % 1000 = 300 /\ Result(r) \div 1000 = r
    BY DEF Result
  <2>2. Len(text) = 1 /\ text[1] = Result(r) OBVIOUS
  <2>3. at = {1} BY <2>1, <2>2
  <2>4. (CHOOSE k \in at : \A j \in at : k <= j) = 1 BY <2>3
  <2>5. Field(text, 300) = text[1] \div 1000
    <3> HIDE DEF text
    <3> QED BY <2>3, <2>4 DEF Field
  <2> QED BY <2>1, <2>2, <2>5
<1>3. ASSUME NEW n \in Nat
      PROVE  /\ Field(<<Id(n), Result(Success)>>, 300) = Success
             /\ Field(<<Id(n), Result(Success)>>, 400) = n
  <2> DEFINE text == <<Id(n), Result(Success)>>
             at(kind) == {k \in 1..Len(text) : text[k] % 1000 = kind}
  <2>1. /\ Id(n) % 1000 = 400 /\ Id(n) \div 1000 = n
        /\ Result(Success) % 1000 = 300 /\ Result(Success) \div 1000 = Success
    BY DEF Id, Result, Success
  <2>2. Len(text) = 2 /\ text[1] = Id(n) /\ text[2] = Result(Success)
    OBVIOUS
  <2>3. at(300) = {2} /\ at(400) = {1} BY <2>1, <2>2
  <2>4. /\ (CHOOSE k \in at(300) : \A j \in at(300) : k <= j) = 2
        /\ (CHOOSE k \in at(400) : \A j \in at(400) : k <= j) = 1
    BY <2>3
  <2>5. /\ Field(text, 300) = text[2] \div 1000
        /\ Field(text, 400) = text[1] \div 1000
    <3> HIDE DEF text
    <3> QED BY <2>3, <2>4 DEF Field
  <2> QED BY <2>1, <2>2, <2>5
<1>4. ASSUME NEW n \in Nat
      PROVE  /\ Field(<<RPCVersion(n), Result(Success)>>, 300) = Success
             /\ Field(<<RPCVersion(n), Result(Success)>>, 500) = n
  <2> DEFINE text == <<RPCVersion(n), Result(Success)>>
             at(kind) == {k \in 1..Len(text) : text[k] % 1000 = kind}
  <2>1. /\ RPCVersion(n) % 1000 = 500 /\ RPCVersion(n) \div 1000 = n
        /\ Result(Success) % 1000 = 300 /\ Result(Success) \div 1000 = Success
    BY DEF RPCVersion, Result, Success
  <2>2. Len(text) = 2 /\ text[1] = RPCVersion(n) /\ text[2] = Result(Success)
    OBVIOUS
  <2>3. at(300) = {2} /\ at(500) = {1} BY <2>1, <2>2
  <2>4. /\ (CHOOSE k \in at(300) : \A j \in at(300) : k <= j) = 2
        /\ (CHOOSE k \in at(500) : \A j \in at(500) : k <= j) = 1
    BY <2>3
  <2>5. /\ Field(text, 300) = text[2] \div 1000
        /\ Field(text, 500) = text[1] \div 1000
    <3> HIDE DEF text
    <3> QED BY <2>3, <2>4 DEF Field
  <2> QED BY <2>1, <2>2, <2>5
<1> QED BY <1>1, <1>2, <1>3, <1>4 DEF Duplicate, Refused

\* What Transmission may say when it is asked for its version.
SaysVersion(text, version) ==
    \/ text = <<RPCVersion(version), Result(Success)>>
    \/ text = <<Result(Refused)>>

\* The version that the daemon learned when it was set up, if it did, is the
\* one of this Transmission; before that, what it asks and is answered.
VersionInv ==
    /\ task \notin {"setup", "version"} => rpc_version \in {0, tm.version}
    /\ task = "version" =>
         /\ step \in Active => request.rpc /\ request.packet = SessionGet
         /\ step \in {"headers"} \cup Arrived =>
              /\ answer.code \in {200, 401, 409}
              /\ answer.code = 200 => SaysVersion(answer.body, tm.version)
         /\ (step = "returned" /\ response.code = 200) =>
              \/ response.data = NULL
              \/ SaysVersion(response.data, tm.version)

\* The steps of a transfer carry the version to the caller.
LEMMA TransferKeepsVersion ==
    ASSUME WebInv, VersionInv, Transfer, AnswerIsWhole'
    PROVE  VersionInv'
<1>1. UNCHANGED <<task, rpc_version, tm>> /\ TransferStep
  BY DEF Transfer, appVars
<1> SUFFICES ASSUME task = "version" PROVE VersionInv'
  BY <1>1 DEF VersionInv
<1>2. /\ step \in Active => request.rpc /\ request.packet = SessionGet
      /\ step \in {"headers"} \cup Arrived =>
           /\ answer.code \in {200, 401, 409}
           /\ answer.code = 200 => SaysVersion(answer.body, tm.version)
  BY DEF VersionInv
<1>3. CASE HeaderLine \/ EndOfHeaders
  <2>1. /\ answer'.code = answer.code /\ answer'.body = answer.body
        /\ request' = request /\ step = "headers"
    BY <1>3 DEF HeaderLine, EndOfHeaders, WebInv, Shapes
  <2>2. step' \in {"headers", "body"}
    <3>1. answer.code \notin 300..399
      BY <1>2, <2>1
    <3> QED
      BY <1>3, <2>1, <3>1 DEF HeaderLine, EndOfHeaders, IsRedirect
  <2> QED
    BY <1>1, <1>2, <2>1, <2>2 DEF VersionInv, Active, Arrived
<1>4. CASE Double \/ Store \/ Complete \/ \E n \in 1..MaxChunk : Receive(n)
  <2>1. /\ step \in {"body", "write"} /\ step' \in Arrived
        /\ request' = request
        /\ answer'.code = answer.code /\ answer'.body = answer.body
    BY <1>4 DEF Double, Store, Complete, Receive, Arrived, WebInv, Shapes
  <2> QED
    BY <1>1, <1>2, <2>1 DEF VersionInv, Active, Arrived
<1>5. CASE ReturnNULL
  <2>1. step' = "returned" /\ response'.code # 200
    BY <1>5 DEF ReturnNULL, Return, NoResponse
  <2> QED
    BY <1>1, <2>1 DEF VersionInv, Active, Arrived
<1>6. CASE ReturnResponse
  <2>1. /\ step = "done" /\ step' = "returned" /\ answer' = answer
        /\ response'.code = answer.code
    BY <1>6 DEF ReturnResponse, Return, Copied
  <2>2. response'.code = 200 =>
          response'.data = answer.body \/ response'.data = NULL
    BY <2>1 DEF AnswerIsWhole, NoResponse
  <2> QED
    BY <1>1, <1>2, <2>1, <2>2 DEF VersionInv, Active, Arrived
<1>7. CASE Retry
  <2>1. /\ step = "done" /\ step' = "sent"
        /\ request'.rpc = request.rpc /\ request'.packet = request.packet
    BY <1>7 DEF Retry, WebInv, Shapes
  <2> QED
    BY <1>1, <1>2, <2>1 DEF VersionInv, Active, Arrived
<1> QED
  BY <1>1, <1>3, <1>4, <1>5, <1>6, <1>7 DEF TransferStep

\* What getRPCVersion makes of it is the version, or 0.
LEMMA VersionIsLearned ==
    ASSUME TMShape, VersionInv, task = "version", step = "returned"
    PROVE  getRPCVersion \in {0, tm.version}
<1>1. tm.version \in Nat
  BY VersionsAssumption DEF TMShape
<1>2. Success # Refused /\ Success # -1
  BY DEF Success, Refused
<1>3. CASE response.code # 200
  BY <1>3 DEF getRPCVersion, Answered
<1>4. CASE response.code = 200
  <2>1. response.data = NULL \/ SaysVersion(response.data, tm.version)
    BY <1>4 DEF VersionInv
  <2>2. CASE response.data = NULL \/ response.data = <<Result(Refused)>>
    <3>1. parseResponse(response.data) # Success
      BY <1>2, <2>2, FieldsOfTexts DEF parseResponse
    <3> QED
      BY <3>1 DEF getRPCVersion, Answered
  <2>3. CASE response.data = <<RPCVersion(tm.version), Result(Success)>>
    <3>1. parseRPCVersion(response.data) = tm.version
      BY <1>1, <2>3, FieldsOfTexts DEF parseRPCVersion
    <3> QED
      BY <3>1 DEF getRPCVersion
  <2> QED
    BY <2>1, <2>2, <2>3 DEF SaysVersion
<1> QED
  BY <1>3, <1>4

\* The daemon asks for the version when it is set up, and never again.
LEMMA DaemonKeepsVersion ==
    ASSUME TMShape, VersionInv, Daemon \/ Restart
    PROVE  VersionInv'
<1>1. ASSUME NEW result, Conclude(result)
      PROVE  /\ task' \notin {"setup", "version"}
             /\ UNCHANGED <<rpc_version, tm>>
  BY <1>1 DEF Conclude
<1>2. ASSUME task \notin {"setup", "version"},
             task' \notin {"setup", "version"},
             UNCHANGED <<rpc_version, tm>>
      PROVE  VersionInv'
  BY <1>2 DEF VersionInv
<1>3. CASE VerifyProwlAPIKey \/ Restart
  <2>1. task' = "setup"
    BY <1>3 DEF VerifyProwlAPIKey, Restart, appVars
  <2> QED
    BY <2>1 DEF VersionInv
<1>4. CASE AskRPCVersion
  <2>1. /\ task' = "version" /\ step' = "sent"
        /\ request'.rpc /\ request'.packet = SessionGet
    BY <1>4 DEF AskRPCVersion, sendHTTPData
  <2> QED
    BY <2>1 DEF VersionInv, Arrived
<1>5. CASE SetUp
  <2>1. /\ task' = "idle" /\ tm' = tm
        /\ rpc_version' = getRPCVersion
        /\ getRPCVersion \in {0, tm.version}
    BY <1>5, VersionIsLearned DEF SetUp
  <2> QED
    BY <2>1 DEF VersionInv
<1>6. CASE \/ downloadTorrent \/ \E uri \in Magnets : uploadMagnet(uri)
           \/ uploadTorrent \/ Notified
  BY <1>2, <1>6 DEF downloadTorrent, uploadMagnet, BeginItem, uploadTorrent,
     Notified
<1>7. CASE DownloadFails \/ Uploaded \/ SpeedChanged
  BY <1>1, <1>2, <1>7 DEF DownloadFails, Uploaded, SpeedChanged
<1> QED
  BY <1>3, <1>4, <1>5, <1>6, <1>7 DEF Daemon

\* Transmission tells its version, refuses, or asks for another session id.
LEMMA ServerKeepsVersion ==
    ASSUME TMShape, VersionInv, Server
    PROVE  VersionInv'
<1>1. /\ step = "sent" /\ step' = "headers"
      /\ UNCHANGED <<task, rpc_version, request>>
  <2>1. \A text : Says(text) =>
          step = "sent" /\ step' = "headers" /\ request' = request
    BY DEF Says, Respond
  <2>2. \A code, headers, body : Respond(code, headers, body) =>
          step = "sent" /\ step' = "headers" /\ request' = request
    BY DEF Respond
  <2> QED
    BY <2>1, <2>2 DEF Server, WebServerAnswers, SessionRefused,
       AccessDenied, TakesTorrent, HasTorrent, LimitsTorrent, TellsVersion,
       RefusesRequest, appVars
<1>2. tm'.version = tm.version
  <2>1. CASE TakesTorrent \/ LimitsTorrent
    BY <2>1 DEF TakesTorrent, LimitsTorrent, TMShape
  <2>2. CASE \/ WebServerAnswers \/ SessionRefused \/ AccessDenied
             \/ HasTorrent \/ TellsVersion \/ RefusesRequest
    BY <2>2 DEF WebServerAnswers, SessionRefused, AccessDenied, HasTorrent,
       TellsVersion, RefusesRequest
  <2> QED
    BY <2>1, <2>2 DEF Server
<1> SUFFICES ASSUME task = "version" PROVE VersionInv'
  BY <1>1, <1>2 DEF VersionInv
<1>3. /\ request.rpc /\ request.packet = SessionGet
      /\ request.packet.method = "session-get"
  BY <1>1 DEF VersionInv, Active, SessionGet, Packet
<1>4. ASSUME NEW text, Says(text)
      PROVE  answer'.code = 200 /\ answer'.body = text
  BY <1>4 DEF Says, Respond
<1>5. /\ answer'.code \in {200, 401, 409}
      /\ answer'.code = 200 => SaysVersion(answer'.body, tm.version)
  <2>1. CASE SessionRefused \/ AccessDenied
    BY <2>1 DEF SessionRefused, AccessDenied, Respond
  <2>2. CASE TellsVersion \/ RefusesRequest
    BY <1>4, <2>2 DEF TellsVersion, RefusesRequest, SaysVersion
  <2> QED
    BY <1>3, <2>1, <2>2 DEF Server, WebServerAnswers, TakesTorrent,
       HasTorrent, LimitsTorrent, Authorized
<1> QED
  BY <1>1, <1>2, <1>3, <1>5 DEF VersionInv, Active, Arrived

\* No step leaves the daemon with a version that is not Transmission's.
LEMMA VersionInvIsKept ==
    RequestsInv /\ RequestsInv' /\ VersionInv /\ [Next]_vars => VersionInv'
<1> SUFFICES ASSUME RequestsInv, RequestsInv', VersionInv, [Next]_vars
             PROVE  VersionInv'
  OBVIOUS
<1>1. WebInv /\ TMShape /\ AnswerIsWhole'
  BY DEF RequestsInv, WebInv
<1>2. CASE Transfer
  BY <1>1, <1>2, TransferKeepsVersion
<1>3. CASE Daemon \/ Restart
  BY <1>1, <1>3, DaemonKeepsVersion
<1>4. CASE Server
  BY <1>1, <1>4, ServerKeepsVersion
<1>5. CASE ConnectionBreaks
  BY <1>5 DEF ConnectionBreaks, Break, VersionInv, appVars, Active, Arrived
<1>6. CASE NewSession
  <2>1. tm'.version = tm.version
    BY <1>1, <1>6 DEF NewSession, TMShape
  <2> QED
    BY <1>6, <2>1 DEF NewSession, VersionInv, webVars, appVars
<1>7. CASE UNCHANGED vars
  BY <1>7 DEF vars, VersionInv, webVars, appVars
<1> QED
  BY <1>2, <1>3, <1>4, <1>5, <1>6, <1>7 DEF Next

-----------------------------------------------------------------------------
(***************************************************************************)
(* The limit.                                                              *)
(***************************************************************************)
\* What asks for the limit of a torrent.
LimitPacket(id, version) ==
    Packet("torrent-set", FALSE, NULL, id, LimitKey(version))

\* While a limit is being set, without trouble: what is asked for, and what
\* the answer that arrives means.
LimitInv ==
    (task = "limit" /\ rpc_version # 0 /\ ~trouble) =>
        /\ request.rpc /\ request.post
        /\ request.packet = LimitPacket(tid, tm.version)
        /\ step \in {"sent", "headers", "returned"} \cup Arrived
        /\ step \in {"headers"} \cup Arrived =>
             answer.code = 409 \/ (answer.code = 200 /\ tid \in tm.limited)
        /\ step = "returned" => (tid \in tm.limited \/ renewed)

\* A transfer carries the request for the limit, and its answer, unchanged.
LEMMA TransferKeepsLimit ==
    ASSUME WebInv, RetryInv, LimitInv, Transfer
    PROVE  LimitInv'
<1>1. UNCHANGED <<task, rpc_version, tid, trouble, renewed, tm>>
  BY DEF Transfer, appVars, histVars
<1> SUFFICES ASSUME task = "limit", rpc_version # 0, ~trouble
             PROVE  LimitInv'
  BY <1>1 DEF LimitInv
<1>2. /\ request.rpc /\ request.post
      /\ request.packet = LimitPacket(tid, tm.version)
      /\ step \in {"sent", "headers", "returned"} \cup Arrived
      /\ step \in {"headers"} \cup Arrived =>
             answer.code = 409 \/ (answer.code = 200 /\ tid \in tm.limited)
  BY DEF LimitInv
<1>3. CASE HeaderLine \/ EndOfHeaders
  <2>1. answer'.code = answer.code /\ request' = request /\ step = "headers"
    BY <1>3 DEF HeaderLine, EndOfHeaders, WebInv, Shapes
  <2>2. step' \in {"headers", "body"}
    <3>1. answer.code \notin 300..399 BY <1>2, <2>1
    <3> QED BY <1>3, <2>1, <3>1 DEF HeaderLine, EndOfHeaders, IsRedirect
  <2>3. answer'.code = 409 \/ (answer'.code = 200 /\ tid \in tm.limited)
    BY <1>2, <2>1
  <2>4. step' \in {"headers"} \cup Arrived /\ step' # "returned"
    BY <2>2 DEF Arrived
  <2> QED BY <1>1, <1>2, <2>1, <2>3, <2>4 DEF LimitInv
<1>4. CASE Double \/ Store \/ Complete \/ \E n \in 1..MaxChunk : Receive(n)
  <2>1. /\ step \in {"body", "write"} /\ step' \in Arrived
        /\ request' = request /\ answer'.code = answer.code
    BY <1>4 DEF Double, Store, Complete, Receive, Arrived, WebInv, Shapes
  <2>2. /\ step \in Arrived
        /\ answer'.code = 409 \/ (answer'.code = 200 /\ tid \in tm.limited)
    BY <1>2, <2>1 DEF Arrived
  <2>3. step' # "returned" BY <2>1 DEF Arrived
  <2> QED BY <1>1, <1>2, <2>1, <2>2, <2>3 DEF LimitInv
<1>5. CASE ReturnNULL \/ ReturnResponse
  <2>1. /\ request' = request /\ step' = "returned"
        /\ step = "done"
        /\ answer.code = 409 => tries = 0
    BY <1>2, <1>5 DEF ReturnNULL, ReturnResponse, Return, Arrived
  <2>2. tid \in tm.limited \/ renewed
    BY <1>2, <2>1 DEF RetryInv, Arrived
  <2> QED BY <1>1, <1>2, <2>1, <2>2 DEF LimitInv, Arrived
<1>6. CASE Retry
  <2>1. /\ step' = "sent"
        /\ request' = [request EXCEPT
                         !.id = IF request.rpc THEN gSessionID ELSE NoId]
    BY <1>6 DEF Retry
  <2>2. /\ request'.rpc = request.rpc /\ request'.post = request.post
        /\ request'.packet = request.packet
    BY <2>1 DEF WebInv, Shapes
  <2> QED BY <1>1, <1>2, <2>1, <2>2 DEF LimitInv, Arrived
<1> QED BY <1>3, <1>4, <1>5, <1>6 DEF Transfer, TransferStep

\* Only Uploaded begins the task, with the packet for the new torrent.
LEMMA DaemonKeepsLimit ==
    ASSUME VersionInv, LimitInv, Daemon
    PROVE  LimitInv'
<1>1. ASSUME NEW result, Conclude(result) PROVE task' # "limit"
  BY <1>1 DEF Conclude
<1>2. CASE VerifyProwlAPIKey
  BY <1>2 DEF VerifyProwlAPIKey, LimitInv, appVars
<1>3. CASE AskRPCVersion \/ SetUp \/ downloadTorrent \/ DownloadFails
           \/ SpeedChanged \/ Notified
           \/ \E uri \in Magnets : uploadMagnet(uri)
  <2>1. task' # "limit"
    BY <1>1, <1>3 DEF AskRPCVersion, SetUp, downloadTorrent, DownloadFails,
       SpeedChanged, Notified, uploadMagnet
  <2> QED BY <2>1 DEF LimitInv
<1>4. CASE uploadTorrent
  BY <1>4 DEF uploadTorrent, LimitInv
<1>5. CASE Uploaded
  <2> DEFINE id == sendTransmissionRPC
             packet == makeChangeUpSpeedJSON(id, rpc_version)
  <2> SUFFICES ASSUME task' = "limit", rpc_version' # 0, ~trouble'
               PROVE  LimitInv'
    BY DEF LimitInv
  <2>1. /\ id > 0 /\ tid' = id /\ rpc_version' = rpc_version
        /\ IF packet = NoPacket THEN sendsNothing
                                ELSE sendHTTPData(packet, TRUE)
    BY <1>1, <1>5 DEF Uploaded
  <2> HIDE DEF id
  <2>2. packet = LimitPacket(tid', tm'.version)
    <3>1. task = "add" /\ tm' = tm
      BY <1>1, <1>5 DEF Uploaded
    <3>2. rpc_version = tm.version /\ rpc_version # 0
      BY <2>1, <3>1 DEF VersionInv
    <3> QED
      BY <2>1, <3>1, <3>2 DEF makeChangeUpSpeedJSON, LimitPacket
  <2>3. packet # NoPacket BY <2>2 DEF NoPacket, LimitPacket, Packet
  <2> HIDE DEF packet
  <2>4. sendHTTPData(packet, TRUE) BY <2>1, <2>3
  <2> QED BY <2>2, <2>4 DEF sendHTTPData, LimitInv, Arrived
<1> QED BY <1>2, <1>3, <1>4, <1>5 DEF Daemon

\* Transmission refuses the session id or sets the limit, without trouble.
LEMMA ServerKeepsLimit ==
    ASSUME RequestsInv, LimitInv, Server
    PROVE  LimitInv'
<1>1. UNCHANGED <<task, rpc_version, tid>> /\ (~trouble' => ~trouble)
  BY DEF Server, WebServerAnswers, SessionRefused, AccessDenied,
     TakesTorrent, HasTorrent, LimitsTorrent, TellsVersion, RefusesRequest,
     appVars, histVars
<1> SUFFICES ASSUME task = "limit", rpc_version # 0, ~trouble, ~trouble'
             PROVE  LimitInv'
  BY <1>1 DEF LimitInv
<1>2. /\ request.rpc /\ request.post
      /\ request.packet = LimitPacket(tid, tm.version)
      /\ request.packet.method = "torrent-set"
      /\ request.packet.ids = tid
      /\ request.packet.key = LimitKey(tm.version)
  <2>1. ASSUME NEW packet, NEW id, NEW version,
               packet = LimitPacket(id, version)
        PROVE  /\ packet.method = "torrent-set" /\ packet.ids = id
               /\ packet.key = LimitKey(version)
    <3> DEFINE key == LimitKey(version)
    <3>1. packet = [method |-> "torrent-set", magnet |-> FALSE,
                    content |-> NULL, ids |-> id, key |-> key]
      BY <2>1 DEF LimitPacket, Packet
    <3> HIDE DEF key
    <3>2. /\ packet.method = "torrent-set" /\ packet.ids = id
          /\ packet.key = key
      BY <3>1
    <3> QED
      BY <3>2 DEF key
  <2>2. /\ request.rpc /\ request.post
        /\ request.packet = LimitPacket(tid, tm.version)
    BY DEF LimitInv
  <2>3. /\ request.packet.method = "torrent-set"
        /\ request.packet.ids = tid
        /\ request.packet.key = LimitKey(tm.version)
    BY <2>1, <2>2
  <2> QED
    BY <2>2, <2>3
<1>3. CASE SessionRefused
  <2>1. /\ step' = "headers" /\ request' = request /\ answer'.code = 409
        /\ tm' = tm
    BY <1>3 DEF SessionRefused, Respond
  <2> QED BY <1>1, <1>2, <2>1 DEF LimitInv, Arrived
<1>4. CASE LimitsTorrent
  <2>1. step' = "headers" /\ request' = request /\ answer'.code = 200
    BY <1>4 DEF LimitsTorrent, Says, Respond
  <2>2. tm'.version = tm.version
    BY <1>4 DEF LimitsTorrent, RequestsInv, TMShape
  <2>3. Knows(request.packet.key)
    <3>1. tm.version \in Int
      BY VersionsAssumption DEF RequestsInv, TMShape
    <3> QED
      BY <1>2, <3>1 DEF Knows, LimitKey
  <2>4. tid \in tm'.limited
    BY <1>2, <1>4, <2>3 DEF LimitsTorrent, RequestsInv, TMShape
  <2> QED BY <1>1, <1>2, <2>1, <2>2, <2>4 DEF LimitInv, Arrived
<1> QED BY <1>2, <1>3, <1>4 DEF Server, WebServerAnswers, AccessDenied,
      TakesTorrent, HasTorrent, TellsVersion, RefusesRequest, Authorized

\* No step loses the limit of the torrent that was just added.
LEMMA LimitInvIsKept ==
    RequestsInv /\ RetryInv /\ VersionInv /\ LimitInv /\ [Next]_vars
      => LimitInv'
<1> SUFFICES ASSUME RequestsInv, RetryInv, VersionInv, LimitInv, [Next]_vars
             PROVE  LimitInv'
  OBVIOUS
<1>1. WebInv BY DEF RequestsInv
<1>2. CASE Transfer BY <1>1, <1>2, TransferKeepsLimit
<1>3. CASE Daemon BY <1>3, DaemonKeepsLimit
<1>4. CASE Server BY <1>4, ServerKeepsLimit
<1>5. CASE ConnectionBreaks BY <1>5 DEF ConnectionBreaks, LimitInv
<1>6. CASE NewSession
  <2>1. tm'.limited = tm.limited /\ tm'.version = tm.version
    BY <1>6 DEF NewSession, RequestsInv, TMShape
  <2> QED BY <1>6, <2>1 DEF NewSession, webVars, appVars, LimitInv
<1>7. CASE Restart BY <1>7 DEF Restart, LimitInv
<1>8. CASE UNCHANGED vars
  BY <1>8 DEF vars, webVars, appVars, histVars, LimitInv
<1> QED BY <1>2, <1>3, <1>4, <1>5, <1>6, <1>7, <1>8 DEF Next

\* A torrent that was added gets its limit, also when the session id changed
\* between the two requests, unless something broke, was refused, or
\* Transmission was restarted once more after the refusal.  It is asked for
\* under the key of this Transmission, because of VersionInv.
THEOREM LimitsAreSet == Spec => []LimitIsSet
<1>1. Init => LimitInv BY DEF Init, LimitInv
<1>2. Init => VersionInv BY DEF Init, VersionInv
<1>3. LimitInv => LimitIsSet BY DEF LimitInv, LimitIsSet
<1> QED BY <1>1, <1>2, <1>3, VersionInvIsKept, LimitInvIsKept,
      TransfersInvariant, RetryInvHolds, PTL DEF Spec

-----------------------------------------------------------------------------
(***************************************************************************)
(* The promise.                                                            *)
(***************************************************************************)
\* What Transmission may say of the torrent that is offered.
Says200(text) ==
    \/ taken /\ \E n \in Nat \ {0} : text = <<Id(n), Result(Success)>>
    \/ ~taken /\ Holds(item) /\ text = <<Result(Duplicate)>>
    \/ text = <<Result(Refused)>>

\* The packet holds the torrent, a document in its encoding.
Encodes(packet, t) ==
    IF packet.magnet THEN t = Magnet(packet.content)
    ELSE /\ t = Torrent(t.content) /\ t.content \in Seq(Byte)
         /\ packet.content = base64_encode(t.content)

\* While a torrent is offered.
AddInv ==
    task = "add" =>
        /\ item # Nothing
        /\ step \in Active =>
             /\ request.rpc /\ request.packet.method = "torrent-add"
             /\ Encodes(request.packet, item)
        /\ step = "sent" => ~taken
        /\ step \in {"headers"} \cup Arrived =>
             /\ answer.code \in {200, 401, 409}
             /\ answer.code = 409 => ~taken
             /\ answer.code = 200 => Says200(answer.body)
        /\ (step = "returned" /\ response.code = 200) =>
             response.data = NULL \/ Says200(response.data)

\* Around it.
OfferInv ==
    /\ (step \in Active /\ task # "add") =>
         ~(request.rpc /\ request.packet.method = "torrent-add")
    /\ task = "limit" => taken /\ item # Nothing
    /\ task = "download" =>
         /\ ~taken /\ ~request.rpc
         /\ (\/ step \in {"headers"} \cup Arrived
             \/ step = "returned" /\ response.code = 200) =>
               \E p \in Pages : answer.body = p.body

TorrentsInv == \E S : tm.torrents \in Seq(S)

HandOverInv == AddInv /\ OfferInv /\ TorrentsInv

\* Transmission decodes what was encoded.
LEMMA MeansWhatItEncodes ==
    ASSUME NEW packet, NEW t, Encodes(packet, t)
    PROVE  Meant(packet) = t
BY DecodesWhatWasEncoded DEF Encodes, Meant

\* What sendTransmissionRPC returns of an answer that is complete.
LEMMA ResultOfOffer ==
    ASSUME AddInv, task = "add", step = "returned"
    PROVE  \/ sendTransmissionRPC \in Nat \ {0} /\ taken
           \/ sendTransmissionRPC = 0 /\ ~taken /\ Holds(item)
           \/ sendTransmissionRPC = -1
<1>1. Success # Duplicate /\ Refused \notin {Success, Duplicate}
      /\ Success # -1 /\ Duplicate # -1
  BY DEF Success, Duplicate, Refused
<1>2. CASE response.code # 200 BY <1>2 DEF sendTransmissionRPC, Answered
<1>3. CASE response.code = 200
  <2>1. response.data = NULL \/ Says200(response.data) BY <1>3 DEF AddInv
  <2>2. CASE \/ response.data = NULL
             \/ response.data = <<Result(Refused)>>
    <3>1. parseResponse(response.data) \notin {Success, Duplicate}
      BY <1>1, <2>2, FieldsOfTexts DEF parseResponse
    <3> QED BY <3>1 DEF sendTransmissionRPC, Answered
  <2>3. CASE ~taken /\ Holds(item) /\ response.data = <<Result(Duplicate)>>
    <3>1. parseResponse(response.data) = Duplicate
      BY <2>3, FieldsOfTexts DEF parseResponse
    <3> QED BY <1>1, <1>3, <2>3, <3>1 DEF sendTransmissionRPC, Answered
  <2>4. CASE taken /\ \E n \in Nat \ {0} :
                         response.data = <<Id(n), Result(Success)>>
    <3>1. PICK n \in Nat \ {0} : response.data = <<Id(n), Result(Success)>>
      BY <2>4
    <3>2. /\ parseResponse(response.data) = Success
          /\ parseTorrentID(response.data) = n
      BY <3>1, FieldsOfTexts DEF parseResponse, parseTorrentID
    <3>3. sendTransmissionRPC = n
      BY <1>1, <1>3, <3>2 DEF sendTransmissionRPC, Answered
    <3> QED BY <2>4, <3>3
  <2> QED BY <2>1, <2>2, <2>3, <2>4 DEF Says200
<1> QED BY <1>2, <1>3

\* The steps of a transfer carry the answer to the caller.
LEMMA TransferKeepsHandOver ==
    ASSUME RequestsInv, HandOverInv, Transfer, AnswerIsWhole'
    PROVE  HandOverInv'
<1> USE DEF HandOverInv
<1>1. /\ UNCHANGED <<task, item, tm, taken>>
      /\ TransferStep /\ WebInv
  BY DEF Transfer, appVars, histVars, RequestsInv
<1>2. TorrentsInv' BY <1>1 DEF TorrentsInv
<1>3. /\ request'.rpc = request.rpc /\ request'.packet = request.packet
      /\ step' \in Active => step \in Active
      /\ (\/ step' \in {"headers"} \cup Arrived
          \/ step' = "returned" /\ response'.code = 200) =>
            step \in {"headers"} \cup Arrived /\ answer'.body = answer.body
  <2>1. CASE HeaderLine \/ Store
    BY <1>1, <2>1
       DEF HeaderLine, Store, WebInv, Shapes, NoAnswer, Active, Arrived
  <2>2. CASE \/ EndOfHeaders \/ Double \/ Complete
             \/ \E n \in 1..MaxChunk : Receive(n)
    BY <2>2 DEF EndOfHeaders, Double, Complete, Receive, Active, Arrived
  <2>3. CASE ReturnNULL \/ ReturnResponse
    BY <2>3 DEF ReturnNULL, ReturnResponse, Return, Active, Arrived,
       NoResponse
  <2>4. CASE Retry
    BY <1>1, <2>4 DEF Retry, WebInv, Shapes, Active, Arrived
  <2> QED BY <1>1, <2>1, <2>2, <2>3, <2>4 DEF TransferStep
<1>4. OfferInv' BY <1>1, <1>3 DEF OfferInv
<1>5. AddInv'
  <2> SUFFICES ASSUME task = "add" PROVE AddInv'
    BY <1>1 DEF AddInv
  <2>1. /\ item # Nothing
        /\ step \in Active =>
             /\ request.rpc /\ request.packet.method = "torrent-add"
             /\ Encodes(request.packet, item)
        /\ step = "sent" => ~taken
        /\ step \in {"headers"} \cup Arrived =>
             /\ answer.code \in {200, 401, 409}
             /\ answer.code = 409 => ~taken
             /\ answer.code = 200 => Says200(answer.body)
    BY DEF AddInv
  <2>2. step' \in Active =>
             /\ request'.rpc /\ request'.packet.method = "torrent-add"
             /\ Encodes(request'.packet, item')
    BY <1>1, <1>3, <2>1
  <2>3. ASSUME NEW text, Says200(text)
        PROVE  \/ taken' /\ \E n \in Nat \ {0} :
                                text = <<Id(n), Result(Success)>>
               \/ ~taken' /\ Holds(item)' /\ text = <<Result(Duplicate)>>
               \/ text = <<Result(Refused)>>
    BY <1>1, <2>3 DEF Says200, Holds
  <2>4. CASE /\ step' \in {"headers"} \cup Arrived
             /\ step \in {"headers"} \cup Arrived
             /\ answer'.code = answer.code /\ answer'.body = answer.body
    <3>1. answer'.code = 200 => Says200(answer.body)' BY <2>1, <2>3, <2>4
          DEF Says200
    <3> QED BY <1>1, <2>1, <2>2, <2>4, <3>1 DEF AddInv, Arrived
  <2>5. CASE HeaderLine \/ EndOfHeaders
    <3>1. /\ answer'.code = answer.code /\ answer'.body = answer.body
          /\ step = "headers"
      BY <1>1, <2>5 DEF HeaderLine, EndOfHeaders, WebInv, Shapes
    <3>2. step' \in {"headers", "body"}
      <4>1. answer.code \notin 300..399 BY <2>1, <3>1
      <4> QED BY <2>5, <3>1, <4>1 DEF HeaderLine, EndOfHeaders, IsRedirect
    <3> QED BY <2>4, <3>1, <3>2 DEF Arrived
  <2>6. CASE Double \/ Store \/ Complete \/ \E n \in 1..MaxChunk : Receive(n)
    <3>1. /\ step \in {"body", "write"} /\ step' \in Arrived
          /\ answer'.code = answer.code /\ answer'.body = answer.body
      BY <1>1, <2>6
         DEF Double, Store, Complete, Receive, Arrived, WebInv, Shapes
    <3> QED BY <2>4, <3>1 DEF Arrived
  <2>7. CASE ReturnNULL
    <3>1. step' = "returned" /\ response' = NoResponse
      BY <2>7 DEF ReturnNULL, Return
    <3>2. response'.code # 200 BY <3>1 DEF NoResponse
    <3> QED BY <1>1, <2>1, <3>1, <3>2 DEF AddInv, Active, Arrived
  <2>8. CASE ReturnResponse
    <3>1. /\ step = "done" /\ step' = "returned"
          /\ response' = Copied(webdata, answer)
          /\ answer' = answer
      BY <2>8 DEF ReturnResponse, Return
    <3>2. response'.code = answer.code BY <3>1 DEF Copied
    <3>3. response'.code = 200 =>
            response'.data = answer.body \/ response'.data = NULL
      BY <3>1 DEF AnswerIsWhole, NoResponse
    <3>4. response'.code = 200 =>
            response'.data = NULL \/ Says200(response.data)'
      BY <2>1, <2>3, <3>1, <3>2, <3>3 DEF Says200, Arrived
    <3> QED BY <1>1, <2>1, <3>1, <3>4 DEF AddInv, Active, Arrived
  <2>9. CASE Retry
    <3>1. step = "done" /\ answer.code = 409 /\ step' = "sent"
      BY <2>9 DEF Retry
    <3>2. ~taken' BY <1>1, <2>1, <3>1 DEF Arrived
    <3> QED BY <1>1, <2>1, <2>2, <3>1, <3>2 DEF AddInv, Arrived
  <2> QED BY <1>1, <2>5, <2>6, <2>7, <2>8, <2>9 DEF TransferStep
<1> QED BY <1>2, <1>4, <1>5

\* Transmission takes the torrent once, or has it, or refuses it.
LEMMA ServerKeepsHandOver ==
    ASSUME RequestsInv, HandOverInv, Server
    PROVE  HandOverInv'
<1> USE DEF HandOverInv
<1>1. /\ step = "sent" /\ step' = "headers"
      /\ UNCHANGED <<task, item, request>>
  <2>1. \A text : Says(text) =>
          step = "sent" /\ step' = "headers" /\ request' = request
    BY DEF Says, Respond
  <2>2. \A code, headers, body : Respond(code, headers, body) =>
          step = "sent" /\ step' = "headers" /\ request' = request
    BY DEF Respond
  <2> QED BY <2>1, <2>2 DEF Server, WebServerAnswers, SessionRefused,
        AccessDenied, TakesTorrent, HasTorrent, LimitsTorrent, TellsVersion,
        RefusesRequest, appVars
<1>2. ASSUME NEW text, Says(text)
      PROVE  answer'.code = 200 /\ answer'.body = text
  BY <1>2 DEF Says, Respond
<1>3. CASE TakesTorrent
  <2>1. /\ request.rpc /\ request.packet.method = "torrent-add"
        /\ taken' = TRUE
        /\ tm' = [tm EXCEPT !.torrents = Append(@, Meant(request.packet))]
        /\ Says(<<Id(Len(tm.torrents) + 1), Result(Success)>>)
    BY <1>3 DEF TakesTorrent, Authorized
  <2>2. task = "add" BY <1>1, <2>1 DEF OfferInv, Active
  <2>3. PICK S : tm.torrents \in Seq(S) BY DEF TorrentsInv
  <2>4. Len(tm.torrents) + 1 \in Nat \ {0} BY <2>3
  <2>5. TorrentsInv'
    <3> DEFINE T == S \cup {Meant(request.packet)}
    <3>1. tm.torrents \in Seq(T) BY <2>3, SeqMonotonic
    <3>2. Meant(request.packet) \in T OBVIOUS
    <3> HIDE DEF T
    <3>3. Append(tm.torrents, Meant(request.packet)) \in Seq(T)
      BY <3>1, <3>2, AppendProperties
    <3>4. tm'.torrents = Append(tm.torrents, Meant(request.packet))
      BY <2>1 DEF RequestsInv, TMShape
    <3> QED BY <3>3, <3>4 DEF TorrentsInv
  <2>6. answer'.code = 200 /\ Says200(answer.body)'
    BY <1>2, <2>1, <2>4 DEF Says200
  <2>7. AddInv'
    BY <1>1, <2>1, <2>2, <2>6 DEF AddInv, Active, Arrived
  <2>8. OfferInv' BY <1>1, <2>2 DEF OfferInv
  <2> QED BY <2>5, <2>7, <2>8
<1>4. CASE ~TakesTorrent
  <2>1. UNCHANGED <<taken, tm.torrents>>
    BY <1>4 DEF Server, WebServerAnswers, SessionRefused, AccessDenied,
       HasTorrent, LimitsTorrent, TellsVersion, RefusesRequest, histVars,
       RequestsInv, TMShape
  <2>2. TorrentsInv' BY <2>1 DEF TorrentsInv
  <2>3. OfferInv'
    <3>1. ~request.rpc => \E p \in Pages : answer'.body = p.body
      BY <1>4 DEF Server, WebServerAnswers, SessionRefused, AccessDenied,
         HasTorrent, LimitsTorrent, TellsVersion, RefusesRequest, Authorized,
         Respond
    <3> QED BY <1>1, <2>1, <3>1 DEF OfferInv, Active
  <2>4. AddInv'
    <3> SUFFICES ASSUME task = "add" PROVE AddInv'
      BY <1>1 DEF AddInv
    <3>1. /\ item # Nothing /\ request.rpc /\ ~taken
          /\ request.packet.method = "torrent-add"
          /\ Encodes(request.packet, item)
      BY <1>1 DEF AddInv, Active
    <3>2. /\ answer'.code \in {200, 401, 409}
          /\ answer'.code = 200 => Says200(answer.body)'
      <4>1. CASE SessionRefused \/ AccessDenied
        BY <4>1 DEF SessionRefused, AccessDenied, Respond
      <4>2. CASE HasTorrent
        <5>1. Says(<<Result(Duplicate)>>) /\ Holds(item)
          BY <3>1, <4>2, MeansWhatItEncodes DEF HasTorrent
        <5>2. Holds(item)' BY <1>1, <2>1, <5>1 DEF Holds
        <5> QED BY <1>2, <2>1, <3>1, <5>1, <5>2 DEF Says200
      <4>3. CASE RefusesRequest
        BY <1>2, <4>3 DEF RefusesRequest, Says200
      <4> QED BY <1>4, <3>1, <4>1, <4>2, <4>3 DEF Server, WebServerAnswers,
            LimitsTorrent, TellsVersion, Authorized
    <3> QED BY <1>1, <2>1, <3>1, <3>2 DEF AddInv, Active, Arrived
  <2> QED BY <2>2, <2>3, <2>4
<1> QED BY <1>3, <1>4

\* A torrent is offered by what uploadTorrent and uploadMagnet send.
LEMMA UploadOffers ==
    ASSUME RequestsInv, HandOverInv, uploadTorrent
    PROVE  \/ task' = "aborted" /\ UNCHANGED item
           \/ /\ task' = "add"
              /\ \E p \in Pages : item' = Torrent(p.body)
              /\ \/ sendsNothing
                 \/ \E packet : /\ sendHTTPData(packet, TRUE)
                                /\ packet.method = "torrent-add"
                                /\ Encodes(packet, item')
<1> DEFINE packet == makeTorrentAddMetaInfoJSON(response.data)
<1>1. task = "download" /\ step = "returned" /\ response.code = 200
  BY DEF uploadTorrent
<1>2. PICK p \in Pages : answer.body = p.body
  BY <1>1 DEF HandOverInv, OfferInv
<1>3. answer.body \in Seq(Byte) BY <1>2, PagesAssumption
<1>4. response.data = answer.body \/ response.data = NULL
  BY <1>1 DEF RequestsInv, WebInv, AnswerIsWhole, NoResponse
<1>5. CASE packet = NoPacket
  <2>1. \/ task' = "aborted" /\ item' = item
        \/ task' = "add" /\ item' = Torrent(answer.body) /\ sendsNothing
    BY <1>5 DEF uploadTorrent
  <2> HIDE DEF packet
  <2> QED BY <1>2, <2>1
<1>6. CASE packet # NoPacket
  <2>1. sendHTTPData(packet, TRUE) /\ task' = "add"
        /\ item' = Torrent(answer.body)
    BY <1>6 DEF uploadTorrent
  <2>2. response.data # NULL /\ response.data = answer.body
    BY <1>4, <1>6 DEF makeTorrentAddMetaInfoJSON
  <2>3. packet = Packet("torrent-add", FALSE, base64_encode(answer.body), 0,
                         "none")
    BY <2>2 DEF makeTorrentAddMetaInfoJSON
  <2>4. /\ packet.method = "torrent-add" /\ packet.magnet = FALSE
        /\ packet.content = base64_encode(answer.body)
    BY <2>3 DEF Packet
  <2>5. Encodes(packet, Torrent(answer.body))
    BY <1>3, <2>4 DEF Encodes, Torrent
  <2> HIDE DEF packet
  <2> QED BY <1>2, <2>1, <2>4, <2>5
<1> QED BY <1>5, <1>6

\* What is handed over is never mistaken for nothing.
LEMMA TorrentsAreSomething ==
    /\ \A content : Torrent(content) # Nothing
    /\ \A uri \in Magnets : Magnet(uri) # Nothing
BY MagnetsAssumption DEF Torrent, Magnet, Nothing

\* The daemon offers a torrent, and reports what it was answered.
LEMMA DaemonKeepsHandOver ==
    ASSUME RequestsInv, HandOverInv, Daemon \/ Restart
    PROVE  HandOverInv'
<1> USE DEF HandOverInv
<1>1. ASSUME NEW result, Conclude(result)
      PROVE  /\ task' \notin {"add", "limit", "download"}
             /\ step' \in Active => ~request'.rpc
             /\ tm' = tm
  BY <1>1 DEF Conclude, HTTPResponse_free, sendHTTPData, Active, Arrived
<1>2. ASSUME task' \notin {"add", "limit", "download"},
             step' \in Active =>
               ~(request'.rpc /\ request'.packet.method = "torrent-add"),
             tm' = tm
      PROVE  HandOverInv'
  BY <1>2 DEF AddInv, OfferInv, TorrentsInv
<1>3. CASE VerifyProwlAPIKey \/ AskRPCVersion \/ SetUp \/ Notified \/ Restart
  <2>1. CASE VerifyProwlAPIKey
    BY <1>2, <2>1 DEF VerifyProwlAPIKey, getHTTPData, Idle, appVars
  <2>2. CASE AskRPCVersion
    BY <1>2, <2>2 DEF AskRPCVersion, sendHTTPData, SessionGet, Packet
  <2>3. CASE SetUp \/ Restart
    BY <1>2, <2>3 DEF SetUp, Restart, HTTPResponse_free, Active, Arrived
  <2>4. CASE Notified
    BY <1>2, <2>4 DEF Notified, HTTPResponse_free, sendHTTPData, Active,
       Arrived
  <2> QED BY <1>3, <2>1, <2>2, <2>3, <2>4
<1>4. CASE DownloadFails \/ SpeedChanged
  BY <1>1, <1>2, <1>4 DEF DownloadFails, SpeedChanged
<1>5. CASE downloadTorrent
  <2>1. /\ task' = "download" /\ taken' = FALSE /\ request' = Idle
        /\ step' = "sent" /\ tm' = tm
    BY <1>5 DEF downloadTorrent, BeginItem, getHTTPData
  <2> QED BY <2>1 DEF AddInv, OfferInv, TorrentsInv, Idle, Arrived
<1>6. CASE \E uri \in Magnets : uploadMagnet(uri)
  <2>1. PICK uri \in Magnets : uploadMagnet(uri) BY <1>6
  <2> DEFINE packet == makeTorrentAddFilenameJSON(uri)
  <2>2. /\ task' = "add" /\ item' = Magnet(uri) /\ taken' = FALSE
        /\ request'.rpc /\ request'.packet = packet
        /\ step' = "sent" /\ tm' = tm
    BY <2>1 DEF uploadMagnet, BeginItem, sendHTTPData
  <2>3. packet.method = "torrent-add" /\ Encodes(packet, Magnet(uri))
    BY DEF makeTorrentAddFilenameJSON, Packet, Encodes, Magnet
  <2> HIDE DEF packet
  <2> QED BY <2>2, <2>3, TorrentsAreSomething
        DEF AddInv, OfferInv, TorrentsInv, Arrived
<1>7. CASE uploadTorrent
  <2>1. /\ task = "download" /\ step = "returned" /\ ~taken
        /\ taken' = taken /\ tm' = tm
    BY <1>7 DEF uploadTorrent, histVars, OfferInv
  <2>2. CASE task' = "aborted"
    <3>1. step' \notin Active
      BY <1>7, <2>1, <2>2 DEF uploadTorrent, webVars, Active, Arrived
    <3> QED BY <1>2, <2>1, <2>2, <3>1
  <2>3. CASE task' = "add" /\ item' # Nothing /\ sendsNothing
    <3>1. step' = "returned" /\ response'.code # 200
      BY <2>3 DEF sendsNothing, NoResponse
    <3> QED BY <2>1, <2>3, <3>1
          DEF AddInv, OfferInv, TorrentsInv, Active, Arrived
  <2>4. ASSUME task' = "add", item' # Nothing,
               NEW packet, sendHTTPData(packet, TRUE),
               packet.method = "torrent-add", Encodes(packet, item')
        PROVE  HandOverInv'
    <3>1. step' = "sent" /\ request'.rpc /\ request'.packet = packet
      BY <2>4 DEF sendHTTPData
    <3> QED BY <2>1, <2>4, <3>1 DEF AddInv, OfferInv, TorrentsInv, Arrived
  <2> QED BY <1>7, <2>2, <2>3, <2>4, UploadOffers, TorrentsAreSomething
<1>8. CASE Uploaded
  <2> DEFINE id == sendTransmissionRPC
  <2>1. task = "add" /\ step = "returned" /\ item # Nothing
    BY <1>8 DEF Uploaded, AddInv
  <2>2. CASE \E result : Conclude(result) BY <1>1, <1>2, <2>2
  <2>3. CASE ~\E result : Conclude(result)
    <3> DEFINE packet == makeChangeUpSpeedJSON(id, rpc_version)
    <3>1. /\ id > 0 /\ task' = "limit"
          /\ UNCHANGED <<item, tm, taken>>
          /\ IF packet = NoPacket THEN sendsNothing
                                  ELSE sendHTTPData(packet, TRUE)
      BY <1>8, <2>3 DEF Uploaded, histVars
    <3>2. taken
      <4>1. \/ id \in Nat \ {0} /\ taken
            \/ id = 0 \/ id = -1
        BY <2>1, ResultOfOffer
      <4> HIDE DEF id
      <4> QED BY <3>1, <4>1
    <3>3. packet # NoPacket => packet.method = "torrent-set"
      BY DEF makeChangeUpSpeedJSON, Packet
    <3> HIDE DEF packet, id
    <3>4. step' \in Active =>
            ~(request'.rpc /\ request'.packet.method = "torrent-add")
      BY <3>1, <3>3 DEF sendsNothing, sendHTTPData, Active, Arrived
    <3> QED BY <2>1, <3>1, <3>2, <3>4 DEF AddInv, OfferInv, TorrentsInv
  <2> QED BY <2>2, <2>3
<1> QED BY <1>3, <1>4, <1>5, <1>6, <1>7, <1>8 DEF Daemon

\* No step disturbs what is known of the torrent handed over.
LEMMA HandOverInvIsKept ==
    RequestsInv /\ RequestsInv' /\ HandOverInv /\ [Next]_vars => HandOverInv'
<1> SUFFICES ASSUME RequestsInv, RequestsInv', HandOverInv, [Next]_vars
             PROVE  HandOverInv'
  OBVIOUS
<1>1. CASE Transfer
  BY <1>1, TransferKeepsHandOver DEF RequestsInv, WebInv
<1>2. CASE Daemon \/ Restart BY <1>2, DaemonKeepsHandOver
<1>3. CASE Server BY <1>3, ServerKeepsHandOver
<1>4. CASE ConnectionBreaks
  BY <1>4 DEF ConnectionBreaks, Break, HandOverInv, AddInv, OfferInv,
     TorrentsInv, Says200, Holds, appVars, Active, Arrived
<1>5. CASE NewSession
  <2>1. tm'.torrents = tm.torrents
    BY <1>5 DEF NewSession, RequestsInv, TMShape
  <2> QED BY <1>5, <2>1 DEF NewSession, HandOverInv, AddInv, OfferInv,
        TorrentsInv, Says200, Holds, webVars, appVars
<1>6. CASE UNCHANGED vars
  BY <1>6 DEF vars, HandOverInv, AddInv, OfferInv, TorrentsInv, Says200,
     Holds, webVars, appVars, histVars
<1> QED BY <1>1, <1>2, <1>3, <1>4, <1>5, <1>6 DEF Next

\* It holds in every state of a behaviour.
LEMMA HandOverInvHolds == Spec => [](RequestsInv /\ HandOverInv)
<1>1. Init => HandOverInv
  <2> SUFFICES ASSUME Init PROVE HandOverInv
    OBVIOUS
  <2>1. task = "setup" /\ step = "ready" /\ tm.torrents = <<>>
    BY DEF Init, InitWeb
  <2>2. <<>> \in Seq({}) BY EmptySeq
  <2> QED BY <2>1, <2>2
        DEF HandOverInv, AddInv, OfferInv, TorrentsInv, Active, Arrived
<1> QED BY <1>1, RequestsInvHoldsAtFirst, RequestsInvIsKept,
      HandOverInvIsKept, PTL DEF Spec

\* What the variables of the promise stand for.
AllTorrents == {Torrent(p.body) : p \in Pages} \cup
               {Magnet(uri) : uri \in Magnets}
Held    == {tm.torrents[k] : k \in 1..Len(tm.torrents)}
Offered == IF task \in {"add", "limit"} THEN item ELSE Nothing
Taken   == taken /\ task \in {"add", "limit"}

\* The steps of the promise, in these terms.
OfferStep ==
    /\ Offered = Nothing /\ Offered' \in AllTorrents /\ ~Taken'
    /\ UNCHANGED <<Held, reported>>

TakeStep ==
    /\ Offered # Nothing /\ Offered \notin Held
    /\ Held' = Held \cup {Offered} /\ Taken'
    /\ UNCHANGED <<Offered, reported>>

ReportStep ==
    /\ Offered # Nothing
    /\ reported' \in -1..1
    /\ reported' = 1 => Taken
    /\ reported' = 0 => Offered \in Held /\ ~Taken
    /\ Offered' = Nothing /\ ~Taken'
    /\ UNCHANGED Held

FailStep ==
    /\ Offered = Nothing /\ reported' = -1
    /\ UNCHANGED <<Held, Offered, Taken>>

StutterStep == UNCHANGED <<Held, Offered, Taken, reported>>

PromiseStep ==
    OfferStep \/ TakeStep \/ ReportStep \/ FailStep \/ StutterStep

\* Each kind of step is one of HandOver, through the refinement mapping.
LEMMA StepsOfThePromise ==
    PromiseStep => [Promise!Next]_(Promise!vars)
<1>1. Held \in {Held} /\ Taken \in BOOLEAN /\ Taken' \in BOOLEAN
  BY DEF Taken
<1>2. OfferStep => Promise!Next
  <2> SUFFICES ASSUME OfferStep PROVE \E t \in AllTorrents : Promise!Offer(t)
    BY DEF Promise!Next, AllTorrents
  <2> QED BY DEF OfferStep, Promise!Offer, Held, Offered, Taken
<1>3. TakeStep => Promise!Take
  BY DEF TakeStep, Promise!Take, Held, Offered, Taken
<1>4. ReportStep => \E r \in -1..1 : Promise!Report(r)
  BY DEF ReportStep, Promise!Report, Held, Offered, Taken
<1>5. FailStep => Promise!Fail
  BY DEF FailStep, Promise!Fail, Held, Offered, Taken
<1>6. StutterStep => UNCHANGED Promise!vars
  BY DEF StutterStep, Promise!vars, Held, Offered, Taken
<1> QED BY <1>2, <1>3, <1>4, <1>5, <1>6 DEF PromiseStep, Promise!Next

\* Conclude reports, or fails before there is anything to report of.
LEMMA ConcludeReports ==
    ASSUME NEW result \in -1..1, Conclude(result),
           \/ Offered = Nothing /\ ~Taken /\ result = -1
           \/ /\ Offered # Nothing
              /\ result = 1 => Taken
              /\ result = 0 => Offered \in Held /\ ~Taken
    PROVE  PromiseStep
<1>1. /\ reported' = result /\ task' \in {"prowl", "pushover", "idle"}
      /\ tm' = tm
  BY DEF Conclude
<1>2. Offered' = Nothing /\ ~Taken' /\ Held' = Held
  BY <1>1 DEF Offered, Taken, Held
<1>3. Taken \in BOOLEAN /\ Taken' \in BOOLEAN BY DEF Taken
<1> QED BY <1>1, <1>2, <1>3 DEF PromiseStep, FailStep, ReportStep

\* What the daemon does is an offer, a report, a failure or a stutter.
LEMMA DaemonKeepsPromise ==
    ASSUME RequestsInv, HandOverInv, Daemon PROVE PromiseStep
<1> USE DEF HandOverInv
<1>1. CASE \/ VerifyProwlAPIKey \/ AskRPCVersion \/ SetUp \/ Notified
           \/ downloadTorrent
  <2>1. /\ task \notin {"add", "limit"} /\ task' \notin {"add", "limit"}
        /\ UNCHANGED <<tm, reported>>
    BY <1>1 DEF VerifyProwlAPIKey, AskRPCVersion, SetUp, Notified,
       downloadTorrent, BeginItem, appVars
  <2> QED BY <2>1 DEF PromiseStep, StutterStep, Held, Offered, Taken
<1>2. CASE \E uri \in Magnets : uploadMagnet(uri)
  <2>1. PICK uri \in Magnets : uploadMagnet(uri) BY <1>2
  <2>2. /\ task = "idle" /\ task' = "add" /\ item' = Magnet(uri)
        /\ taken' = FALSE /\ UNCHANGED <<tm, reported>>
    BY <2>1 DEF uploadMagnet, BeginItem
  <2>3. Magnet(uri) \in AllTorrents BY DEF AllTorrents
  <2> QED BY <2>2, <2>3
        DEF PromiseStep, OfferStep, Held, Offered, Taken
<1>3. CASE uploadTorrent
  <2>1. /\ task = "download" /\ ~taken
        /\ UNCHANGED <<tm, reported, taken>>
    BY <1>3 DEF uploadTorrent, histVars, OfferInv
  <2>2. CASE task' = "aborted"
    BY <2>1, <2>2 DEF PromiseStep, StutterStep, Held, Offered, Taken
  <2>3. CASE task' = "add" /\ \E p \in Pages : item' = Torrent(p.body)
    <3>1. item' \in AllTorrents BY <2>3 DEF AllTorrents
    <3> QED BY <2>1, <2>3, <3>1
          DEF PromiseStep, OfferStep, Held, Offered, Taken
  <2> QED BY <1>3, <2>2, <2>3, UploadOffers
<1>4. CASE DownloadFails
  <2>1. Conclude(-1) /\ Offered = Nothing /\ ~Taken
    BY <1>4 DEF DownloadFails, Offered, Taken
  <2>2. -1 \in -1..1 OBVIOUS
  <2> QED BY <2>1, <2>2, ConcludeReports
<1>5. CASE SpeedChanged
  <2>1. Conclude(1) /\ Offered # Nothing /\ Taken
    BY <1>5 DEF SpeedChanged, Offered, Taken, OfferInv
  <2>2. 1 \in -1..1 /\ 1 # 0 OBVIOUS
  <2> QED BY <2>1, <2>2, ConcludeReports
<1>6. CASE Uploaded
  <2> DEFINE id == sendTransmissionRPC
  <2>1. task = "add" /\ step = "returned" BY <1>6 DEF Uploaded
  <2>2. \/ id \in Nat \ {0} /\ taken
        \/ id = 0 /\ ~taken /\ Holds(item)
        \/ id = -1
    BY <2>1, ResultOfOffer
  <2>3. /\ Offered = item /\ item # Nothing
        /\ taken <=> Taken
        /\ Holds(item) => Offered \in Held
    BY <2>1 DEF AddInv, Offered, Taken, Held, Holds
  <2>4. ASSUME id > 0, Conclude(1) PROVE PromiseStep
    <3>1. taken
      <4> HIDE DEF id
      <4> QED BY <2>2, <2>4
    <3>2. 1 \in -1..1 /\ 1 # 0 OBVIOUS
    <3> QED BY <2>3, <2>4, <3>1, <3>2, ConcludeReports
  <2>5. ASSUME id <= 0, Conclude(id) PROVE PromiseStep
    <3> HIDE DEF id
    <3>1. \/ id = 0 /\ ~taken /\ Holds(item)
          \/ id = -1
      BY <2>2, <2>5
    <3>2. id \in -1..1 /\ id # 1 BY <3>1
    <3> QED BY <2>3, <2>5, <3>1, <3>2, ConcludeReports
  <2>6. ASSUME task' = "limit", UNCHANGED <<item, tm, taken, reported>>
        PROVE  PromiseStep
    BY <2>1, <2>6 DEF PromiseStep, StutterStep, Held, Offered, Taken
  <2> QED BY <1>6, <2>4, <2>5, <2>6 DEF Uploaded, histVars
<1> QED BY <1>1, <1>2, <1>3, <1>4, <1>5, <1>6 DEF Daemon

\* Of the servers only Transmission does anything: it takes a torrent.
LEMMA ServerKeepsPromise ==
    ASSUME RequestsInv, HandOverInv, Server PROVE PromiseStep
<1> USE DEF HandOverInv
<1>1. UNCHANGED <<task, item, reported>>
  BY DEF Server, WebServerAnswers, SessionRefused, AccessDenied,
     TakesTorrent, HasTorrent, LimitsTorrent, TellsVersion, RefusesRequest,
     appVars
<1>2. CASE TakesTorrent
  <2>1. /\ request.rpc /\ request.packet.method = "torrent-add"
        /\ step = "sent" /\ taken' = TRUE
        /\ ~Holds(Meant(request.packet))
        /\ tm' = [tm EXCEPT !.torrents = Append(@, Meant(request.packet))]
    BY <1>2 DEF TakesTorrent, Authorized
  <2>2. task = "add" BY <2>1 DEF OfferInv, Active
  <2>3. item # Nothing /\ Meant(request.packet) = item
    BY <2>1, <2>2, MeansWhatItEncodes DEF AddInv, Active
  <2>4. PICK S : tm.torrents \in Seq(S) BY DEF TorrentsInv
  <2>5. tm'.torrents = Append(tm.torrents, item)
    BY <2>1, <2>3 DEF RequestsInv, TMShape
  <2>6. Held' = Held \cup {item}
    <3> DEFINE T == S \cup {item}
               t == tm.torrents
    <3>1. t \in Seq(T) /\ item \in T BY <2>4, SeqMonotonic
    <3> HIDE DEF T
    <3>2. /\ Len(Append(t, item)) = Len(t) + 1 /\ Len(t) \in Nat
          /\ \A k \in 1..Len(t) : Append(t, item)[k] = t[k]
          /\ Append(t, item)[Len(t) + 1] = item
      BY <3>1, AppendProperties
    <3>3. Held' = {Append(t, item)[k] : k \in 1..Len(t) + 1}
      BY <2>5, <3>2 DEF Held
    <3>4. Held = {t[k] : k \in 1..Len(t)} BY DEF Held
    <3> HIDE DEF t
    <3>5. ASSUME NEW x \in Held' PROVE x \in Held \cup {item}
      <4>1. PICK k \in 1..Len(t) + 1 : x = Append(t, item)[k] BY <3>3
      <4>2. CASE k = Len(t) + 1 BY <3>2, <4>1, <4>2
      <4>3. CASE k # Len(t) + 1
        <5>1. k \in 1..Len(t) BY <3>2, <4>3
        <5> QED BY <3>2, <3>4, <4>1, <5>1
      <4> QED BY <4>2, <4>3
    <3>6. ASSUME NEW x \in Held PROVE x \in Held'
      <4>1. PICK k \in 1..Len(t) : x = t[k] BY <3>4
      <4>2. k \in 1..Len(t) + 1 /\ x = Append(t, item)[k] BY <3>2, <4>1
      <4> QED BY <3>3, <4>2
    <3>7. item \in Held'
      <4>1. Len(t) + 1 \in 1..Len(t) + 1 BY <3>2
      <4> QED BY <3>2, <3>3, <4>1
    <3> QED BY <3>5, <3>6, <3>7
  <2>7. item \notin Held BY <2>1, <2>3 DEF Holds, Held
  <2>8. Offered = item /\ Offered' = item /\ Taken'
    BY <1>1, <2>1, <2>2 DEF Offered, Taken
  <2> QED BY <1>1, <2>3, <2>6, <2>7, <2>8 DEF PromiseStep, TakeStep
<1>3. CASE ~TakesTorrent
  <2>1. UNCHANGED <<taken, tm.torrents>>
    BY <1>3 DEF Server, WebServerAnswers, SessionRefused, AccessDenied,
       HasTorrent, LimitsTorrent, TellsVersion, RefusesRequest, histVars,
       RequestsInv, TMShape
  <2> QED BY <1>1, <2>1 DEF PromiseStep, StutterStep, Held, Offered, Taken
<1> QED BY <1>2, <1>3

\* Every step of Requests is one of HandOver, or a stutter.
LEMMA EveryStepIsPromised ==
    RequestsInv /\ HandOverInv /\ [Next]_vars => [Promise!Next]_(Promise!vars)
<1> SUFFICES ASSUME RequestsInv, HandOverInv, [Next]_vars
             PROVE  PromiseStep
  BY StepsOfThePromise
<1>1. ASSUME UNCHANGED <<task, item, taken, reported, tm.torrents>>
      PROVE  PromiseStep
  BY <1>1 DEF PromiseStep, StutterStep, Held, Offered, Taken
<1>2. CASE Transfer \/ ConnectionBreaks \/ UNCHANGED vars
  BY <1>1, <1>2 DEF Transfer, ConnectionBreaks, vars, appVars, histVars
<1>3. CASE NewSession
  <2>1. tm'.torrents = tm.torrents
    BY <1>3 DEF NewSession, RequestsInv, TMShape
  <2> QED BY <1>1, <1>3, <2>1 DEF NewSession, appVars
<1>4. CASE Restart
  <2>1. /\ task' = "setup" /\ reported' = -1 /\ tm' = tm /\ -1 \in -1..1
        /\ Offered' = Nothing /\ ~Taken' /\ Held' = Held
    BY <1>4 DEF Restart, Offered, Taken, Held
  <2>2. CASE Offered = Nothing
    <3>1. ~Taken
      BY <2>2 DEF Offered, Taken, HandOverInv, AddInv, OfferInv
    <3>2. Taken' = Taken BY <2>1, <3>1 DEF Taken
    <3> QED BY <2>1, <2>2, <3>2 DEF PromiseStep, FailStep
  <2>3. CASE Offered # Nothing
    BY <2>1, <2>3 DEF PromiseStep, ReportStep
  <2> QED BY <2>2, <2>3
<1>5. CASE Daemon BY <1>5, DaemonKeepsPromise
<1>6. CASE Server BY <1>6, ServerKeepsPromise
<1> QED BY <1>2, <1>3, <1>4, <1>5, <1>6 DEF Next

\* The hand-over keeps its promise: through any number of requests, refusals,
\* broken connections and restarts, Transmission takes the torrent that was
\* downloaded, unchanged, at most once, and the daemon reports "added" only of
\* one that was taken and "duplicate" only of one that was there before.
THEOREM HandOverKeepsPromise == Spec => HandsOverAsPromised
<1>1. Init => Promise!Init
  <2> SUFFICES ASSUME Init PROVE Promise!Init
    OBVIOUS
  <2>1. /\ task = "setup" /\ reported = -1 /\ taken = FALSE
        /\ tm.torrents = <<>>
    BY DEF Init
  <2>2. Len(<<>>) = 0 OBVIOUS
  <2> QED BY <2>1, <2>2 DEF Promise!Init
<1> QED BY <1>1, HandOverInvHolds, EveryStepIsPromised,
      PTL DEF Spec, Promise!Spec, HandsOverAsPromised

\* The base64 text of a torrent, and what would be decoded from it, fit into
\* the buffers that are allocated for them, whatever the document.
THEOREM EncodingsFit == Spec => []EncodingFits
<1>1. RequestsInv /\ HandOverInv => EncodingFits
  <2> SUFFICES ASSUME HandOverInv, step = "sent", request.rpc,
                      request.packet.method = "torrent-add",
                      ~request.packet.magnet
               PROVE  LET text == request.packet.content IN
                      /\ Len(text) + 1 <= EncodedRoom(Len(item.content))
                      /\ Len(base64_decode(text)) + 1 <= DecodedRoom(Len(text))
    BY DEF EncodingFits
  <2>1. task = "add" BY DEF HandOverInv, OfferInv, Active
  <2>2. /\ item.content \in Seq(Byte)
        /\ request.packet.content = base64_encode(item.content)
    BY <2>1 DEF HandOverInv, AddInv, Active, Encodes
  <2> QED BY <2>2, EncodedFits
<1> QED BY <1>1, HandOverInvHolds, PTL

=============================================================================
