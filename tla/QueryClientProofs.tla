-------------------------- MODULE QueryClientProofs --------------------------
(***************************************************************************)
(* Theorems about QueryClient for any keys, hashes, versions, calls and    *)
(* sizes of buffer and page, on any transport: showAddress resolves with   *)
(* the text that the user read and approved, getAddress with the address   *)
(* and the public key of one key, if the app is not stopped meanwhile.     *)
(*                                                                         *)
(* To the app a call is some host, so that what AddressProofs proves of    *)
(* the app holds in the composition.                                       *)
(***************************************************************************)
EXTENDS QueryClient, AddressProofs, InductionLemmas

-----------------------------------------------------------------------------
(* Every cell holds a byte.                                                *)

LEMMA Sizes ==
  /\ BufferSize \in Nat /\ BufferSize >= 11 /\ BufferSize <= 260
  /\ RSA_MODULUS_HALVE \in Nat /\ RSA_MODULUS_HALVE + 3 <= BufferSize
  /\ AddressSize \in Nat \ {0} /\ AddressSize + 6 <= BufferSize
  /\ PageSize \in Nat \ {0}
  /\ AddressSize = EncodedLength(CX_SHA256_SIZE)
  <1> DEFINE n == CX_SHA256_SIZE
             len == EncodedLength(n)
  <1>1. n \in Nat \ {0} /\ n \div 3 \in Nat
    BY SizesAssumption
  <1>2. minimumBufferSize(n) = len /\ (len = n + n \div 3 \/ len = n + n \div 3 + 1)
    BY <1>1, Lengths
  <1> HIDE DEF len
  <1>3. len \in Nat \ {0}
    BY <1>1, <1>2
  <1> HIDE DEF n
  <1>4. AddressSize = len
    BY <1>2, SizesAssumption DEF n
  <1> QED
    BY <1>3, <1>4, SizesAssumption DEF len, n

LEMMA CharsetIsByte ==
  ASSUME NEW n \in 0..63
  PROVE  Charset(n) \in Byte
  <1>1. CASE n < 26
    BY <1>1 DEF Charset, Byte
  <1>2. CASE n \in 26..51
    BY <1>2 DEF Charset, Byte
  <1>3. CASE n \in 52..61
    BY <1>3 DEF Charset, Byte
  <1>4. CASE n = 62
    BY <1>4 DEF Charset, Byte
  <1>5. CASE n = 63
    BY <1>5 DEF Charset, Byte
  <1> QED
    BY <1>1, <1>2, <1>3, <1>4, <1>5

\* The address of a public key, and the halves of its modulus.
AddressOf(pub) == Base64(HashOfPub(pub))

HalfOf(pub, part) ==
    SubSeq(Modulus[pub], part * RSA_MODULUS_HALVE + 1, (part + 1) * RSA_MODULUS_HALVE)

LEMMA AddressBytes ==
  ASSUME NEW pub \in Keys \cup {NoKey}
  PROVE  AddressOf(pub) \in Seq(Byte) /\ Len(AddressOf(pub)) = AddressSize
  <1> DEFINE hash == HashOfPub(pub)
             len == EncodedLength(CX_SHA256_SIZE)
  <1>1. hash \in Seq(Byte) /\ Len(hash) = CX_SHA256_SIZE
    BY HashOfPubIsInput, InputsAssumption
  <1> HIDE DEF hash
  <1>2. len \in Nat /\ len = AddressSize
    BY Sizes
  <1>3. Base64(hash) = [k \in 1..len |-> Charset(Sextet(hash, k - 1))]
    BY <1>1 DEF Base64
  <1> HIDE DEF len
  <1>4. \A k \in 1..len : Charset(Sextet(hash, k - 1)) \in Byte
    <2>1. ASSUME NEW k \in 1..len PROVE Charset(Sextet(hash, k - 1)) \in Byte
      <3>1. k - 1 \in Nat
        BY <1>2
      <3> QED
        BY <1>1, <3>1, SextetRange, CharsetIsByte
    <2> QED
      BY <2>1
  <1>5. Base64(hash) \in Seq(Byte) /\ Len(Base64(hash)) = len
    BY <1>2, <1>3, <1>4
  <1> QED
    BY <1>2, <1>5 DEF AddressOf, hash

LEMMA HalfBytes ==
  ASSUME NEW pub \in Keys \cup {NoKey}, NEW part \in 0..1
  PROVE  HalfOf(pub, part) \in Seq(Byte) /\ Len(HalfOf(pub, part)) = RSA_MODULUS_HALVE
  <1> DEFINE m == Modulus[pub]
             h == RSA_MODULUS_HALVE
  <1>1. m \in Seq(Byte) /\ Len(m) = 2 * h /\ h \in Nat
    BY ModulusAssumption, Sizes
  <1> HIDE DEF m, h
  <1>2. CASE part = 0
    <2>1. HalfOf(pub, part) = SubSeq(m, 1, h)
      BY <1>1, <1>2 DEF HalfOf, m, h
    <2> QED
      BY <1>1, <2>1 DEF h
  <1>3. CASE part = 1
    <2>1. HalfOf(pub, part) = SubSeq(m, h + 1, 2 * h)
      BY <1>1, <1>3 DEF HalfOf, m, h
    <2>2. SubSeq(m, h + 1, 2 * h) \in Seq(Byte) /\ Len(SubSeq(m, h + 1, 2 * h)) = h
      BY <1>1
    <2> QED
      BY <2>1, <2>2 DEF h
  <1> QED
    BY <1>2, <1>3

\* What a joins b to.
Joins(s, a, b) ==
    /\ Len(s) = Len(a) + Len(b)
    /\ \A n \in 1..Len(a) : s[n] = a[n]
    /\ \A n \in 1..Len(b) : s[Len(a) + n] = b[n]

LEMMA BytesJoin ==
  ASSUME NEW s \in Seq(Byte), NEW a \in Seq(Byte), NEW b \in Seq(Byte), Joins(s, a, b)
  PROVE  s = a \o b
  <1>1. /\ Len(s) = Len(a) + Len(b)
        /\ \A n \in 1..Len(a) : s[n] = a[n]
        /\ \A n \in 1..Len(b) : s[Len(a) + n] = b[n]
    BY DEF Joins
  <1> QED
    BY <1>1, IsConcat

LEMMA HalvesJoin ==
  ASSUME NEW pub \in Keys \cup {NoKey}
  PROVE  HalfOf(pub, 0) \o HalfOf(pub, 1) = Modulus[pub]
  <1> DEFINE m == Modulus[pub]
             h == RSA_MODULUS_HALVE
             a == HalfOf(pub, 0)
             b == HalfOf(pub, 1)
  <1>1. m \in Seq(Byte) /\ Len(m) = 2 * h /\ h \in Nat
    BY ModulusAssumption, Sizes
  <1>2. a \in Seq(Byte) /\ Len(a) = h /\ b \in Seq(Byte) /\ Len(b) = h
    BY HalfBytes
  <1>3. a = SubSeq(m, 1, h) /\ b = SubSeq(m, h + 1, 2 * h)
    BY <1>1 DEF HalfOf
  <1> HIDE DEF m, h, a, b
  <1>4. \A n \in 1..h : m[n] = a[n] /\ m[h + n] = b[n]
    BY <1>1, <1>3
  <1>5. Len(m) = Len(a) + Len(b)
    BY <1>1, <1>2
  <1>6. m = a \o b
    <2>1. Joins(m, a, b)
      BY <1>2, <1>4, <1>5 DEF Joins
    <2> QED
      BY <1>1, <1>2, <2>1, BytesJoin
  <1> QED
    BY <1>6 DEF m, a, b

LEMMA PutBytes ==
  ASSUME NEW bytes \in Seq(Byte), NEW buffer \in [Cells -> Byte]
  PROVE  Put(buffer, bytes) \in [Cells -> Byte]
  <1>1. \A cell \in Cells : cell < Len(bytes) => bytes[cell + 1] \in Byte
    BY Sizes DEF Cells
  <1> QED
    BY <1>1 DEF Put

LEMMA ZeroesBytes == Zeroes \in [Cells -> Byte]
  BY DEF Zeroes, Byte

-----------------------------------------------------------------------------
(* The answer.                                                             *)

\* The status word of the answer is 0x9000.
Ok == SubSeq(Response, tx - 1, tx) = APDU_CODE_OK

\* The front of the buffer.
FrontOf(buffer, len) == [k \in 1..len |-> buffer[k - 1]]

StatusWord(sw) == sw \in Seq(Byte) /\ Len(sw) = 2

LEMMA TwoBytes ==
  ASSUME NEW bytes \in Seq(Byte), Len(bytes) = 2
  PROVE  bytes[1] \in Byte /\ bytes[2] \in Byte
  OBVIOUS

LEMMA StatusWords ==
  /\ StatusWord(APDU_CODE_OK) /\ StatusWord(APDU_CODE_CONDITIONS_NOT_SATISFIED)
  /\ StatusWord(APDU_CODE_COMMAND_NOT_ALLOWED) /\ StatusWord(APDU_CODE_TX_NOT_INITIALIZED)
  /\ StatusWord(APDU_CODE_INS_NOT_SUPPORTED) /\ StatusWord(APDU_CODE_CLA_NOT_SUPPORTED)
  BY DEF StatusWord, Byte, APDU_CODE_OK, APDU_CODE_CONDITIONS_NOT_SATISFIED,
         APDU_CODE_COMMAND_NOT_ALLOWED, APDU_CODE_TX_NOT_INITIALIZED,
         APDU_CODE_INS_NOT_SUPPORTED, APDU_CODE_CLA_NOT_SUPPORTED

LEMMA Errors ==
  /\ APDU_CODE_CONDITIONS_NOT_SATISFIED # APDU_CODE_OK
  /\ APDU_CODE_COMMAND_NOT_ALLOWED # APDU_CODE_OK
  /\ APDU_CODE_TX_NOT_INITIALIZED # APDU_CODE_OK
  /\ APDU_CODE_INS_NOT_SUPPORTED # APDU_CODE_OK
  /\ APDU_CODE_CLA_NOT_SUPPORTED # APDU_CODE_OK
  <1>1. \A a, b, c, d : <<a, b>> = <<c, d>> => a = c /\ b = d
    OBVIOUS
  <1> QED
    BY <1>1 DEF APDU_CODE_OK, APDU_CODE_CONDITIONS_NOT_SATISFIED,
         APDU_CODE_COMMAND_NOT_ALLOWED, APDU_CODE_TX_NOT_INITIALIZED,
         APDU_CODE_INS_NOT_SUPPORTED, APDU_CODE_CLA_NOT_SUPPORTED

LEMMA FrontBytes ==
  ASSUME NEW buffer \in [Cells -> Byte], NEW len \in Nat, len <= BufferSize
  PROVE  FrontOf(buffer, len) \in Seq(Byte) /\ Len(FrontOf(buffer, len)) = len
  <1>1. \A k \in 1..len : buffer[k - 1] \in Byte
    BY Sizes DEF Cells
  <1> QED
    BY <1>1 DEF FrontOf

LEMMA FrontOfPut ==
  ASSUME NEW buffer \in [Cells -> Byte], NEW bytes \in Seq(Byte), Len(bytes) <= BufferSize
  PROVE  FrontOf(Put(buffer, bytes), Len(bytes)) = bytes
  <1> DEFINE len == Len(bytes)
  <1>1. len \in Nat /\ bytes = [k \in 1..len |-> bytes[k]]
    OBVIOUS
  <1>2. \A k \in 1..len : k - 1 \in Cells /\ k - 1 < len /\ (k - 1) + 1 = k
    BY <1>1, Sizes DEF Cells
  <1> HIDE DEF len
  <1>3. \A k \in 1..len : Put(buffer, bytes)[k - 1] = bytes[k]
    BY <1>2 DEF Put, len
  <1>4. FrontOf(Put(buffer, bytes), len) = [k \in 1..len |-> bytes[k]]
    BY <1>3 DEF FrontOf
  <1> QED
    BY <1>1, <1>4 DEF len

LEMMA ReplyAnswers ==
  ASSUME NEW buffer \in [Cells -> Byte], NEW len \in Nat, len + 2 <= BufferSize,
         NEW sw, StatusWord(sw), Reply(buffer, len, sw)
  PROVE  /\ apdu' \in [Cells -> Byte] /\ tx' \in 2..BufferSize
         /\ tx' = len + 2 /\ Response' = FrontOf(buffer, len) \o sw
         /\ Ok' <=> sw = APDU_CODE_OK
  <1> DEFINE front == FrontOf(buffer, len)
             response == FrontOf(apdu', len + 2)
  <1>1. /\ apdu' = [buffer EXCEPT ![len] = sw[1], ![len + 1] = sw[2]]
        /\ tx' = len + 2
    BY DEF Reply
  <1>2. sw \in Seq(Byte) /\ Len(sw) = 2 /\ sw[1] \in Byte /\ sw[2] \in Byte
    <2>1. sw \in Seq(Byte) /\ Len(sw) = 2
      BY DEF StatusWord
    <2> QED
      BY <2>1, TwoBytes
  <1>3. len \in Cells /\ len + 1 \in Cells /\ len # len + 1
    BY Sizes DEF Cells
  <1>4. apdu' \in [Cells -> Byte]
    BY <1>1, <1>2
  <1>5. apdu'[len] = sw[1] /\ apdu'[len + 1] = sw[2]
    BY <1>1, <1>3
  <1>6. \A cell \in Cells : cell < len => apdu'[cell] = buffer[cell]
    BY <1>1
  <1>7. front \in Seq(Byte) /\ Len(front) = len
    BY FrontBytes, Sizes
  <1>8. response \in Seq(Byte) /\ Len(response) = len + 2
    <2> DEFINE m == len + 2
    <2>1. m \in Nat /\ m <= BufferSize
      OBVIOUS
    <2> HIDE DEF m
    <2>2. FrontOf(apdu', m) \in Seq(Byte) /\ Len(FrontOf(apdu', m)) = m
      BY <1>4, <2>1, FrontBytes
    <2> QED
      BY <2>2 DEF m
  <1>9. \A k \in 1..len : response[k] = front[k]
    <2>1. \A k \in 1..len : k - 1 \in Cells /\ k - 1 < len
      BY Sizes DEF Cells
    <2> QED
      BY <1>6, <2>1 DEF FrontOf
  <1>10. response[len + 1] = sw[1] /\ response[len + 2] = sw[2]
    BY <1>5 DEF FrontOf
  <1> HIDE DEF front, response
  <1>11. \A n \in 1..Len(sw) : response[Len(front) + n] = sw[n]
    BY <1>2, <1>7, <1>10
  <1>12. response = front \o sw
    <2>1. Joins(response, front, sw)
      BY <1>2, <1>7, <1>8, <1>9, <1>11 DEF Joins
    <2> QED
      BY <1>2, <1>7, <1>8, <2>1, BytesJoin
  <1>13. Response' = response
    BY <1>1 DEF Response, response, FrontOf
  <1>14. SubSeq(response, len + 1, len + 2) = sw
    BY <1>2, <1>8, <1>10
  <1>15. SubSeq(Response', tx' - 1, tx') = sw
    <2>1. tx' - 1 = len + 1
      BY <1>1
    <2> QED
      BY <1>1, <1>13, <1>14, <2>1
  <1>16. tx' \in 2..BufferSize
    BY <1>1, Sizes
  <1>17. Ok' <=> sw = APDU_CODE_OK
    BY <1>15 DEF Ok
  <1> QED
    BY <1>1, <1>4, <1>12, <1>13, <1>16, <1>17 DEF front

-----------------------------------------------------------------------------
(* The pages of a text are all of it.                                      *)

LEMMA PageCounts ==
  ASSUME NEW len \in Nat, NEW size \in Nat \ {0}
  PROVE  LET count == (len + size - 1) \div size IN
         /\ count \in Nat
         /\ \A n \in Nat : n < count => n * size < len
         /\ len <= count * size
  <1> DEFINE m == len + size - 1
             count == m \div size
  <1>1. m \in Nat
    OBVIOUS
  <1>2. count \in Nat /\ count * size <= m /\ m < (count + 1) * size
    BY <1>1, SMT
  <1> QED
    OBVIOUS

\* How many characters the first n pages of a text have.
ReadIn(text, n) == IF n < pageCount(text) THEN n * PageSize ELSE Len(text)

LEMMA PageSizes ==
  ASSUME NEW text \in Seq(Byte)
  PROVE  /\ pageCount(text) \in Nat /\ ReadIn(text, 0) = 0
         /\ \A n \in 0..pageCount(text) : ReadIn(text, n) \in 0..Len(text)
         /\ \A n \in 0..(pageCount(text) - 1) :
               /\ ReadIn(text, n) = n * PageSize /\ n * PageSize \in Nat
               /\ ReadIn(text, n + 1) - ReadIn(text, n)
                    = IF n + 1 < pageCount(text) THEN PageSize ELSE Len(text) - n * PageSize
               /\ ReadIn(text, n) <= ReadIn(text, n + 1)
  <1> DEFINE len == Len(text)
             count == pageCount(text)
  <1>1. len \in Nat /\ PageSize \in Nat \ {0}
    BY Sizes
  <1>2. /\ count \in Nat
        /\ \A n \in Nat : n < count => n * PageSize < len
        /\ len <= count * PageSize
    BY <1>1, PageCounts DEF pageCount
  <1> HIDE DEF len, count
  <1>3. \A n \in Nat : n * PageSize \in Nat /\ (n + 1) * PageSize = n * PageSize + PageSize
    BY <1>1
  <1>4. 0 * PageSize = 0
    BY <1>1
  <1>5. \A n : ReadIn(text, n) = IF n < count THEN n * PageSize ELSE len
    BY DEF ReadIn, count, len
  <1>6. count = 0 => len = 0
    BY <1>1, <1>2, <1>4
  <1>7. ASSUME NEW n \in 0..(count - 1)
        PROVE  /\ ReadIn(text, n) = n * PageSize /\ n * PageSize \in Nat
               /\ ReadIn(text, n + 1) - ReadIn(text, n)
                    = IF n + 1 < count THEN PageSize ELSE len - n * PageSize
               /\ ReadIn(text, n) <= ReadIn(text, n + 1)
    <2> DEFINE a == n * PageSize
               b == (n + 1) * PageSize
    <2>1. n \in Nat /\ n + 1 \in Nat /\ n < count
      BY <1>2
    <2>2. a \in Nat /\ a < len /\ b = a + PageSize
      BY <1>2, <1>3, <2>1
    <2>3. ReadIn(text, n) = a /\ ReadIn(text, n + 1) = IF n + 1 < count THEN b ELSE len
      BY <1>5, <2>1
    <2> HIDE DEF a, b
    <2>4. /\ ReadIn(text, n + 1) - ReadIn(text, n) = IF n + 1 < count THEN PageSize ELSE len - a
          /\ ReadIn(text, n) <= ReadIn(text, n + 1)
      BY <1>1, <2>2, <2>3
    <2> QED
      BY <2>2, <2>3, <2>4 DEF a
  <1>8. ASSUME NEW n \in 0..count PROVE ReadIn(text, n) \in 0..len
    <2>1. CASE n < count
      <3>1. n \in Nat
        BY <1>2
      <3>2. n * PageSize \in Nat /\ n * PageSize < len
        BY <1>2, <1>3, <2>1, <3>1
      <3> QED
        BY <1>1, <1>5, <2>1, <3>2
    <2>2. CASE ~(n < count)
      BY <1>1, <1>5, <2>2
    <2> QED
      BY <2>1, <2>2
  <1>9. ReadIn(text, 0) = 0
    BY <1>1, <1>2, <1>4, <1>5, <1>6
  <1> QED
    BY <1>2, <1>7, <1>8, <1>9 DEF len, count

\* The next characters of a text after its first.
LEMMA NextPage ==
  ASSUME NEW text \in Seq(Byte), NEW a \in Nat, NEW b \in Nat, a + b <= Len(text)
  PROVE  /\ [k \in 1..b |-> text[a + k]] \in Seq(Byte)
         /\ SubSeq(text, 1, a + b) = SubSeq(text, 1, a) \o [k \in 1..b |-> text[a + k]]
  <1> DEFINE s == SubSeq(text, 1, a + b)
             u == SubSeq(text, 1, a)
             v == [k \in 1..b |-> text[a + k]]
  <1>1. \A k \in 1..b : a + k \in 1..Len(text) /\ text[a + k] \in Byte
    OBVIOUS
  <1>2. v \in Seq(Byte) /\ Len(v) = b
    BY <1>1
  <1>3. u \in Seq(Byte) /\ Len(u) = a /\ s \in Seq(Byte) /\ Len(s) = a + b
    OBVIOUS
  <1>4. /\ \A n \in 1..a : s[n] = text[n] /\ u[n] = text[n]
        /\ \A n \in 1..b : s[a + n] = text[a + n] /\ v[n] = text[a + n]
    OBVIOUS
  <1> HIDE DEF s, u, v
  <1>5. Joins(s, u, v)
    BY <1>2, <1>3, <1>4 DEF Joins
  <1>6. s = u \o v
    BY <1>2, <1>3, <1>5, BytesJoin
  <1> QED
    BY <1>2, <1>6 DEF s, u, v

LEMMA PageBytes ==
  ASSUME NEW text \in Seq(Byte), NEW page \in 1..pageCount(text)
  PROVE  /\ pageString(text, page) \in Seq(Byte)
         /\ SubSeq(text, 1, ReadIn(text, page))
              = SubSeq(text, 1, ReadIn(text, page - 1)) \o pageString(text, page)
  <1> DEFINE n == page - 1
             a == ReadIn(text, n)
             c == ReadIn(text, page)
             b == c - a
             count == pageCount(text)
  <1>1. count \in Nat /\ n \in 0..(count - 1) /\ n \in 0..count /\ n + 1 = page
    BY PageSizes
  <1>2. /\ a = n * PageSize /\ a \in Nat
        /\ b = IF page < count THEN PageSize ELSE Len(text) - a
        /\ a <= c
    BY <1>1, PageSizes
  <1>3. c \in 0..Len(text)
    BY <1>1, PageSizes
  <1>4. pageString(text, page) = [k \in 1..b |-> text[a + k]]
    BY <1>2 DEF pageString
  <1> HIDE DEF a, c, count, n
  <1>5. b \in Nat /\ a + b = c /\ a + b <= Len(text)
    BY <1>2, <1>3
  <1> HIDE DEF b
  <1>6. /\ [k \in 1..b |-> text[a + k]] \in Seq(Byte)
        /\ SubSeq(text, 1, a + b) = SubSeq(text, 1, a) \o [k \in 1..b |-> text[a + k]]
    BY <1>2, <1>5, NextPage
  <1> QED
    BY <1>4, <1>5, <1>6 DEF a, c, n

\* A text is what its pages say one after the other.
LEMMA PagesJoin ==
  ASSUME NEW text \in Seq(Byte)
  PROVE  FlattenSeq([page \in 1..pageCount(text) |-> pageString(text, page)]) = text
  <1> DEFINE N == pageCount(text)
             s == [page \in 1..N |-> pageString(text, page)]
             read(n) == SubSeq(text, 1, ReadIn(text, n))
  <1>1. N \in Nat
    BY PageSizes
  <1>2. s \in Seq(Seq(Byte)) /\ Len(s) = N
    BY <1>1, PageBytes
  <1>3. \A n \in 1..N : s[n] = pageString(text, n)
    OBVIOUS
  <1>4. \A n \in 1..N : read(n) = read(n - 1) \o pageString(text, n)
    BY PageBytes
  <1>5. read(0) = <<>>
    <2>1. ReadIn(text, 0) = 0
      BY PageSizes
    <2> QED
      BY <2>1
  <1>6. read(N) = text
    <2>1. ReadIn(text, N) = Len(text)
      BY <1>1 DEF ReadIn
    <2> QED
      BY <2>1
  <1> HIDE DEF s, N, read
  <1>7. PICK f : IsJoin(f, Byte, s) /\ FlattenSeq(s) = f[N]
    BY <1>2, Flatten
  <1>8. f[0] = <<>> /\ \A n \in 1..N : f[n] = f[n - 1] \o s[n]
    BY <1>2, <1>7 DEF IsJoin
  <1> DEFINE S == {n \in Nat : n \in 0..N => f[n] = read(n)}
  <1>9. 0 \in S
    BY <1>5, <1>8
  <1>10. ASSUME NEW n \in Nat, n \in S PROVE n + 1 \in S
    <2>1. ASSUME n + 1 \in 0..N PROVE f[n + 1] = read(n + 1)
      <3>1. n + 1 \in 1..N /\ n \in 0..N /\ (n + 1) - 1 = n
        BY <1>1, <2>1
      <3>2. f[n] = read(n)
        BY <1>10, <3>1
      <3> QED
        BY <1>3, <1>4, <1>8, <3>1, <3>2
    <2> QED
      BY <2>1
  <1> HIDE DEF S
  <1>11. N \in S
    BY <1>1, <1>9, <1>10, Induction
  <1>12. f[N] = read(N)
    BY <1>1, <1>11 DEF S
  <1> QED
    BY <1>6, <1>7, <1>12 DEF s, N

-----------------------------------------------------------------------------
(* What a handler answers.                                                 *)

\* The handler has answered, and nothing but the buffer is different.
Said ==
    /\ apdu' \in [Cells -> Byte] /\ tx' \in 2..BufferSize
    /\ UNCHANGED <<action_addrResponseLen, requireConfirmation, stage, pages>>

LEMMA SayAnswers ==
  ASSUME NEW buffer \in [Cells -> Byte], NEW len \in Nat, len + 2 <= BufferSize,
         NEW sw, StatusWord(sw), Say(buffer, len, sw)
  PROVE  /\ Said
         /\ tx' = len + 2 /\ Response' = FrontOf(buffer, len) \o sw
         /\ Ok' <=> sw = APDU_CODE_OK
  <1>1. Reply(buffer, len, sw)
    BY DEF Say
  <1> QED
    BY <1>1, ReplyAnswers DEF Say, Said

LEMMA ErrorAnswers ==
  ASSUME NEW buffer \in [Cells -> Byte], NEW sw, StatusWord(sw), sw # APDU_CODE_OK,
         Say(buffer, 0, sw)
  PROVE  Said /\ ~Ok'
  <1>1. 0 \in Nat /\ 0 + 2 <= BufferSize
    BY Sizes
  <1> QED
    BY <1>1, SayAnswers

LEMMA RefuseAnswers ==
  ASSUME NEW buffer \in [Cells -> Byte], Refuse(buffer)
  PROVE  Said /\ ~Ok'
  <1>1. CASE Say(buffer, 0, APDU_CODE_CLA_NOT_SUPPORTED)
    BY <1>1, ErrorAnswers, StatusWords, Errors
  <1>2. CASE Say(buffer, 0, APDU_CODE_TX_NOT_INITIALIZED)
    BY <1>2, ErrorAnswers, StatusWords, Errors
  <1>3. CASE Say(buffer, 0, APDU_CODE_INS_NOT_SUPPORTED)
    BY <1>3, ErrorAnswers, StatusWords, Errors
  <1>4. CASE Say(buffer, 0, APDU_CODE_COMMAND_NOT_ALLOWED)
    BY <1>4, ErrorAnswers, StatusWords, Errors
  <1> QED
    BY <1>1, <1>2, <1>3, <1>4 DEF Refuse

LEMMA VersionAnswers ==
  ASSUME NEW buffer \in [Cells -> Byte], pin \in BOOLEAN, handle_getversion(buffer)
  PROVE  Said
  <1> DEFINE locked == <<IF pin THEN 0 ELSE 1>>
             bytes == <<0>> \o Version \o locked \o TARGET_ID
  <1>1. Version \in Seq(Byte) /\ TARGET_ID \in Seq(Byte)
    BY VersionAssumption
  <1>2. locked \in Seq(Byte) /\ <<0>> \in Seq(Byte)
    BY DEF Byte
  <1> HIDE DEF locked
  <1>3. bytes \in Seq(Byte)
    BY <1>1, <1>2
  <1>4. Say(Put(buffer, bytes), 9, APDU_CODE_OK)
    BY DEF handle_getversion, locked
  <1> HIDE DEF bytes
  <1>5. Put(buffer, bytes) \in [Cells -> Byte]
    BY <1>3, PutBytes
  <1>6. 9 \in Nat /\ 9 + 2 <= BufferSize
    BY Sizes
  <1> QED
    BY <1>4, <1>5, <1>6, SayAnswers, StatusWords

LEMMA PartAnswers ==
  ASSUME NEW buffer \in [Cells -> Byte], rsa_pub \in Keys \cup {NoKey},
         handleGetPubKeyPart(buffer)
  PROVE  /\ Said
         /\ Ok' => /\ device_initialized
                   /\ Response' = HalfOf(rsa_pub, buffer[OFFSET_P2]) \o APDU_CODE_OK
  <1> DEFINE part == buffer[OFFSET_P2]
  <1>1. CASE Say(buffer, 0, APDU_CODE_COMMAND_NOT_ALLOWED)
    BY <1>1, ErrorAnswers, StatusWords, Errors
  <1>2. CASE Say(Zeroes, 0, APDU_CODE_CONDITIONS_NOT_SATISFIED)
    BY <1>2, ErrorAnswers, StatusWords, Errors, ZeroesBytes
  <1>3. CASE part <= 1 /\ Say(Put(Zeroes, Half(part)), RSA_MODULUS_HALVE, APDU_CODE_OK)
    <2> DEFINE half == Half(part)
    <2>1. device_initialized
      BY DEF handleGetPubKeyPart, Admitted, INS_GET_PK, INS_GET_VERSION
    <2>2. OFFSET_P2 \in Cells
      BY Sizes DEF OFFSET_P2, Cells
    <2>3. part \in Byte
      BY <2>2
    <2> HIDE DEF part
    <2>4. part \in 0..1
      BY <1>3, <2>3 DEF Byte
    <2>5. half = HalfOf(rsa_pub, part)
      BY DEF Half, HalfOf
    <2> HIDE DEF half
    <2>6. half \in Seq(Byte) /\ Len(half) = RSA_MODULUS_HALVE
      BY <2>4, <2>5, HalfBytes
    <2>7. Put(Zeroes, half) \in [Cells -> Byte]
      BY <2>6, PutBytes, ZeroesBytes
    <2>8. FrontOf(Put(Zeroes, half), RSA_MODULUS_HALVE) = half
      BY <2>6, FrontOfPut, ZeroesBytes, Sizes
    <2>9. Say(Put(Zeroes, half), RSA_MODULUS_HALVE, APDU_CODE_OK)
      BY <1>3 DEF half
    <2>10. RSA_MODULUS_HALVE \in Nat /\ RSA_MODULUS_HALVE + 2 <= BufferSize
      BY Sizes
    <2>11. Said /\ Response' = FrontOf(Put(Zeroes, half), RSA_MODULUS_HALVE) \o APDU_CODE_OK
      BY <2>7, <2>9, <2>10, SayAnswers, StatusWords
    <2> QED
      BY <2>1, <2>5, <2>8, <2>11 DEF part
  <1> QED
    BY <1>1, <1>2, <1>3 DEF handleGetPubKeyPart

\* A GET_ADDR was admitted: its address is encoded next.
ToEncode(p1) ==
    /\ device_initialized
    /\ requireConfirmation' = p1
    /\ apdu' = Zeroes /\ tx' = 0 /\ action_addrResponseLen' = 0
    /\ stage' = "encoding" /\ pages' = pages

LEMMA AddressAnswers ==
  ASSUME NEW buffer \in [Cells -> Byte], handleGetAddress(buffer)
  PROVE  (Said /\ ~Ok') \/ ToEncode(buffer[OFFSET_P1])
  <1>1. CASE Say(buffer, 0, APDU_CODE_COMMAND_NOT_ALLOWED)
    BY <1>1, ErrorAnswers, StatusWords, Errors
  <1>2. CASE ~Say(buffer, 0, APDU_CODE_COMMAND_NOT_ALLOWED)
    <2>1. device_initialized
      BY DEF handleGetAddress, Admitted, INS_GET_ADDR, INS_GET_VERSION
    <2> QED
      BY <1>2, <2>1 DEF handleGetAddress, ToEncode, Cleared, Confirmation
  <1> QED
    BY <1>1, <1>2

\* Every command of bytes is answered or sets the encoder to work.
LEMMA CommandIsHandled ==
  ASSUME AddressTypeOK, NEW command \in Seq(Byte), HandleApdu(command)
  PROVE  /\ stage = "none" /\ UNCHANGED <<keyVars, pin>>
         /\ Said \/ \E p1 \in Byte : ToEncode(p1)
  <1> DEFINE buffer == Put(apdu, command)
  <1>1. buffer \in [Cells -> Byte] /\ pin \in BOOLEAN /\ rsa_pub \in Keys \cup {NoKey}
    BY PutBytes DEF AddressTypeOK
  <1>2. /\ stage = "none" /\ UNCHANGED <<keyVars, pin>>
        /\ \/ Refuse(buffer) \/ handle_getversion(buffer)
           \/ handleGetPubKeyPart(buffer) \/ handleGetAddress(buffer)
    BY DEF HandleApdu
  <1> HIDE DEF buffer
  <1>3. OFFSET_P1 \in Cells
    BY Sizes DEF OFFSET_P1, Cells
  <1>4. CASE Refuse(buffer)
    BY <1>1, <1>2, <1>4, RefuseAnswers
  <1>5. CASE handle_getversion(buffer)
    BY <1>1, <1>2, <1>5, VersionAnswers
  <1>6. CASE handleGetPubKeyPart(buffer)
    BY <1>1, <1>2, <1>6, PartAnswers
  <1>7. CASE handleGetAddress(buffer)
    <2>1. buffer[OFFSET_P1] \in Byte
      BY <1>1, <1>3
    <2> QED
      BY <1>1, <1>2, <1>7, <2>1, AddressAnswers
  <1> QED
    BY <1>2, <1>4, <1>5, <1>6, <1>7

\* The header of a command, as a handler reads it.
LEMMA Header ==
  ASSUME NEW buffer, NEW ins, NEW p1, NEW p2, NEW command,
         command = <<CLA, ins, p1, p2, 0>> \o <<>>
  PROVE  LET b == Put(buffer, command) IN
         b[0] = CLA /\ b[1] = ins /\ b[2] = p1 /\ b[3] = p2 /\ b[4] = 0
  <1>1. command = <<CLA, ins, p1, p2, 0>>
    OBVIOUS
  <1>2. Len(command) = 5 /\ command[1] = CLA /\ command[2] = ins /\ command[3] = p1
        /\ command[4] = p2 /\ command[5] = 0
    BY <1>1
  <1>3. 0 \in Cells /\ 1 \in Cells /\ 2 \in Cells /\ 3 \in Cells /\ 4 \in Cells
    BY Sizes DEF Cells
  <1> HIDE DEF Cells
  <1> QED
    BY <1>2, <1>3 DEF Put

\* GET_ADDR is refused, or its address is encoded.
LEMMA GetAddrIsHandled ==
  ASSUME AddressTypeOK, NEW p1 \in Byte, Send(INS_GET_ADDR, p1, 0, <<>>) \in Seq(Byte),
         HandleApdu(Send(INS_GET_ADDR, p1, 0, <<>>))
  PROVE  (Said /\ ~Ok') \/ ToEncode(p1)
  <1> DEFINE command == Send(INS_GET_ADDR, p1, 0, <<>>)
             buffer == Put(apdu, command)
  <1>1. buffer \in [Cells -> Byte]
    BY PutBytes DEF AddressTypeOK
  <1>2. \/ Refuse(buffer) \/ handle_getversion(buffer)
        \/ handleGetPubKeyPart(buffer) \/ handleGetAddress(buffer)
    BY DEF HandleApdu
  <1>3. buffer[1] = INS_GET_ADDR /\ buffer[2] = p1
    <2>1. command = <<CLA, INS_GET_ADDR, p1, 0, 0>> \o <<>>
      BY DEF Send
    <2> HIDE DEF command
    <2> QED
      BY <2>1, Header
  <1> HIDE DEF buffer
  <1>4. ~handle_getversion(buffer) /\ ~handleGetPubKeyPart(buffer)
    BY <1>3 DEF handle_getversion, handleGetPubKeyPart, Admitted, INS_GET_ADDR, INS_GET_PK,
                INS_GET_VERSION, OFFSET_INS
  <1>5. CASE Refuse(buffer)
    BY <1>1, <1>5, RefuseAnswers
  <1>6. CASE handleGetAddress(buffer)
    BY <1>1, <1>3, <1>6, AddressAnswers DEF OFFSET_P1
  <1> QED
    BY <1>2, <1>4, <1>5, <1>6

\* GET_PK is refused, or answered with a half of the modulus.
LEMMA GetPkIsHandled ==
  ASSUME AddressTypeOK, NEW part \in Byte, Send(INS_GET_PK, 0, part, <<>>) \in Seq(Byte),
         HandleApdu(Send(INS_GET_PK, 0, part, <<>>))
  PROVE  /\ Said
         /\ Ok' => /\ device_initialized
                   /\ Response' = HalfOf(rsa_pub, part) \o APDU_CODE_OK
  <1> DEFINE command == Send(INS_GET_PK, 0, part, <<>>)
             buffer == Put(apdu, command)
  <1>1. buffer \in [Cells -> Byte] /\ rsa_pub \in Keys \cup {NoKey}
    BY PutBytes DEF AddressTypeOK
  <1>2. \/ Refuse(buffer) \/ handle_getversion(buffer)
        \/ handleGetPubKeyPart(buffer) \/ handleGetAddress(buffer)
    BY DEF HandleApdu
  <1>3. buffer[1] = INS_GET_PK /\ buffer[3] = part
    <2>1. command = <<CLA, INS_GET_PK, 0, part, 0>> \o <<>>
      BY DEF Send
    <2> HIDE DEF command
    <2> QED
      BY <2>1, Header
  <1> HIDE DEF buffer
  <1>4. ~handle_getversion(buffer) /\ ~handleGetAddress(buffer)
    BY <1>3 DEF handle_getversion, handleGetAddress, Admitted, INS_GET_ADDR, INS_GET_PK,
                INS_GET_VERSION, OFFSET_INS
  <1>5. CASE Refuse(buffer)
    BY <1>1, <1>5, RefuseAnswers
  <1>6. CASE handleGetPubKeyPart(buffer)
    BY <1>1, <1>3, <1>6, PartAnswers DEF OFFSET_P2
  <1> QED
    BY <1>2, <1>4, <1>5, <1>6

-----------------------------------------------------------------------------
(* Commands are bytes, the length of their data among them.                *)

LEMMA SendBytes ==
  ASSUME NEW ins \in Byte, NEW p1 \in Byte, NEW p2 \in Byte,
         NEW data \in Seq(Byte), Len(data) <= 255
  PROVE  Send(ins, p1, p2, data) \in Seq(Byte)
  <1> DEFINE len == Len(data)
  <1>a. len \in Nat /\ len <= 255
    OBVIOUS
  <1> HIDE DEF len
  <1>1. CLA \in Byte /\ len \in Byte
    BY <1>a DEF CLA, Byte
  <1>2. <<CLA, ins, p1, p2, len>> \in Seq(Byte)
    BY <1>1
  <1> QED
    BY <1>2 DEF Send, len

LEMMA SmallBytes ==
  /\ 0 \in Byte /\ 1 \in Byte /\ 2 \in Byte /\ 88 \in Byte /\ 99 \in Byte
  /\ INS_GET_VERSION \in Byte /\ INS_GET_ADDR \in Byte /\ INS_GET_PK \in Byte
  /\ GET_DIGEST \in Byte
  BY DEF Byte, INS_GET_VERSION, INS_GET_ADDR, INS_GET_PK, GET_DIGEST

LEMMA NoData == <<>> \in Seq(Byte) /\ Len(<<>>) <= 255
  OBVIOUS

LEMMA CommandsAreBytes ==
  ASSUME NEW command \in Commands
  PROVE  command \in Seq(Byte)
  <1>1. ASSUME NEW p1 \in 0..1, command = Send(INS_GET_ADDR, p1, 0, <<>>)
        PROVE  command \in Seq(Byte)
    <2>1. p1 \in Byte
      BY DEF Byte
    <2> QED
      BY <1>1, <2>1, SmallBytes, NoData, SendBytes
  <1>2. ASSUME NEW part \in 1..2, command = Send(INS_GET_PK, 0, part, <<>>)
        PROVE  command \in Seq(Byte)
    <2>1. part \in Byte
      BY DEF Byte
    <2> QED
      BY <1>2, <2>1, SmallBytes, NoData, SendBytes
  <1>3. ASSUME NEW ins \in {INS_GET_ADDR, INS_GET_PK}, command = Send(ins, 0, 0, << 88 >>)
        PROVE  command \in Seq(Byte)
    <2>1. <<88>> \in Seq(Byte) /\ Len(<<88>>) <= 255
      BY SmallBytes
    <2> QED
      BY <1>3, <2>1, SmallBytes, SendBytes
  <1>4. CASE command = Send(99, 0, 0, [k \in 1..(BufferSize - 5) |-> 88])
    <2> DEFINE len == BufferSize - 5
               data == [k \in 1..len |-> 88]
    <2>1. len \in Nat /\ len <= 255
      BY Sizes
    <2> HIDE DEF len
    <2>2. data \in Seq(Byte) /\ Len(data) = len
      BY <2>1, SmallBytes
    <2> HIDE DEF data
    <2>3. Send(99, 0, 0, data) \in Seq(Byte)
      BY <2>1, <2>2, SmallBytes, SendBytes
    <2> QED
      BY <1>4, <2>3 DEF data, len
  <1>5. CASE command = <<0, 0, 0, 0, 0>>
    BY <1>5, SmallBytes
  <1> QED
    BY <1>1, <1>2, <1>3, <1>4, <1>5 DEF Commands

\* The commands of a call.
LEMMA CommandsOfCalls ==
  /\ CommandsOf["getAddress"] = <<Send(INS_GET_ADDR, 0, 0, <<>>), Send(INS_GET_PK, 0, 0, <<>>),
                                  Send(INS_GET_PK, 0, 1, <<>>)>>
  /\ CommandsOf["showAddress"] = <<Send(INS_GET_ADDR, 1, 0, <<>>)>>
  /\ CommandsOf["getVersion"] = <<Send(INS_GET_VERSION, 0, 0, <<>>)>>
  /\ CommandsOf["digest"] =
        [k \in 1..Len(Message) |->
            Send(GET_DIGEST, IF k = Len(Message) THEN 2 ELSE IF k = 1 THEN 0 ELSE 1, 0, Message[k])]
  BY DEF CommandsOf

LEMMA CallsSendBytes ==
  ASSUME NEW k \in Kinds
  PROVE  CommandsOf[k] \in Seq(Seq(Byte)) /\ Len(CommandsOf[k]) \in Nat \ {0}
  <1>1. k \in {"getAddress", "showAddress", "getVersion", "digest"}
    BY KindsAssumption
  <1>2. CASE k = "getAddress"
    <2>1. /\ Send(INS_GET_ADDR, 0, 0, <<>>) \in Seq(Byte)
          /\ Send(INS_GET_PK, 0, 0, <<>>) \in Seq(Byte)
          /\ Send(INS_GET_PK, 0, 1, <<>>) \in Seq(Byte)
      BY SmallBytes, NoData, SendBytes
    <2> QED
      BY <1>2, <2>1, CommandsOfCalls
  <1>3. CASE k = "showAddress"
    <2>1. Send(INS_GET_ADDR, 1, 0, <<>>) \in Seq(Byte)
      BY SmallBytes, NoData, SendBytes
    <2> QED
      BY <1>3, <2>1, CommandsOfCalls
  <1>4. CASE k = "getVersion"
    <2>1. Send(INS_GET_VERSION, 0, 0, <<>>) \in Seq(Byte)
      BY SmallBytes, NoData, SendBytes
    <2> QED
      BY <1>4, <2>1, CommandsOfCalls
  <1>5. CASE k = "digest"
    <2> DEFINE N == Len(Message)
               p1(n) == IF n = N THEN 2 ELSE IF n = 1 THEN 0 ELSE 1
               c(n) == Send(GET_DIGEST, p1(n), 0, Message[n])
    <2>1. N \in Nat \ {0} /\ \A n \in 1..N : Message[n] \in Seq(Byte) /\ Len(Message[n]) <= 255
      BY MessageAssumption
    <2>2. \A n \in 1..N : p1(n) \in Byte
      BY SmallBytes
    <2> HIDE DEF N, p1
    <2>3. \A n \in 1..N : c(n) \in Seq(Byte)
      BY <2>1, <2>2, SmallBytes, SendBytes
    <2>4. CommandsOf[k] = [n \in 1..N |-> c(n)]
      BY <1>5, CommandsOfCalls DEF N, p1
    <2> HIDE DEF c
    <2> QED
      BY <2>1, <2>3, <2>4
  <1> QED
    BY <1>1, <1>2, <1>3, <1>4, <1>5

-----------------------------------------------------------------------------
(* The app, to which any host may send bytes.                              *)

ByteStep ==
    \/ \E command \in Seq(Byte) : HandleApdu(command)
    \/ AppStep \/ UserChoice \/ Environment

\* During a review the buffer holds the address that will be the answer.
BufferInv ==
    stage = "review" =>
        /\ apdu = Put(Zeroes, AddressOf(rsa_pub))
        /\ action_addrResponseLen = AddressSize

LEMMA EncodedIsAddress ==
  ASSUME AddressInv, stage = "encoding", i = Len(in)
  PROVE  apdu = Zeroes /\ Encoded = AddressOf(rsa_pub)
  BY InvGivesEncoding DEF AddressInv, EncodingIsBase64, AddressOf

\* The front of the buffer is the address.
LEMMA FrontIsAddress ==
  ASSUME NEW pub \in Keys \cup {NoKey}
  PROVE  /\ Put(Zeroes, AddressOf(pub)) \in [Cells -> Byte]
         /\ FrontOf(Put(Zeroes, AddressOf(pub)), AddressSize) = AddressOf(pub)
  <1>1. AddressOf(pub) \in Seq(Byte) /\ Len(AddressOf(pub)) = AddressSize
    BY AddressBytes
  <1>2. AddressSize <= BufferSize
    BY Sizes
  <1> QED
    BY <1>1, <1>2, PutBytes, FrontOfPut, ZeroesBytes

\* The answer is the address of the public key in use.
AddressAnswered ==
    /\ apdu' \in [Cells -> Byte] /\ tx' \in 2..BufferSize
    /\ Response' = AddressOf(rsa_pub) \o APDU_CODE_OK /\ Ok'

LEMMA AddressIsAnswered ==
  ASSUME NEW pub \in Keys \cup {NoKey}, pub = rsa_pub, NEW buffer,
         buffer = Put(Zeroes, AddressOf(pub)), Reply(buffer, AddressSize, APDU_CODE_OK)
  PROVE  AddressAnswered
  <1>1. buffer \in [Cells -> Byte] /\ FrontOf(buffer, AddressSize) = AddressOf(pub)
    BY FrontIsAddress
  <1>2. AddressSize \in Nat /\ AddressSize + 2 <= BufferSize
    BY Sizes
  <1> QED
    BY <1>1, <1>2, ReplyAnswers, StatusWords DEF AddressAnswered

\* What FillAddress, and the user's buttons, leave.
LEMMA AddressIsFilled ==
  ASSUME AddressTypeOK, AddressInv, FillAddress
  PROVE  /\ stage = "encoding" /\ device_initialized
         /\ UNCHANGED <<keyVars, pin, requireConfirmation, pages>>
         /\ action_addrResponseLen' = AddressSize
         /\ \/ /\ requireConfirmation # 0
               /\ apdu' = Put(Zeroes, AddressOf(rsa_pub)) /\ stage' = "review" /\ tx' = tx
            \/ requireConfirmation = 0 /\ stage' = "none" /\ AddressAnswered
  <1>1. /\ stage = "encoding" /\ i = Len(in) /\ device_initialized
        /\ UNCHANGED <<keyVars, pin, requireConfirmation, pages>>
        /\ action_addrResponseLen' = AddressSize
    BY DEF FillAddress, addrLen, AddressInv
  <1>2. apdu = Zeroes /\ Encoded = AddressOf(rsa_pub)
    BY <1>1, EncodedIsAddress
  <1>3. CASE requireConfirmation # 0
    BY <1>1, <1>2, <1>3 DEF FillAddress
  <1>4. CASE requireConfirmation = 0
    <2>1. Reply(Put(Zeroes, AddressOf(rsa_pub)), AddressSize, APDU_CODE_OK) /\ stage' = "none"
      BY <1>2, <1>4 DEF FillAddress, addrLen
    <2>2. rsa_pub \in Keys \cup {NoKey}
      BY DEF AddressTypeOK
    <2>3. AddressAnswered
      BY <2>1, <2>2, AddressIsAnswered
    <2> QED
      BY <1>1, <1>4, <2>1, <2>3
  <1> QED
    BY <1>3, <1>4

LEMMA AddressIsApproved ==
  ASSUME AddressTypeOK, AddressInv, BufferInv, ApproveAddress
  PROVE  /\ stage = "review" /\ stage' = "none" /\ pages' = <<>>
         /\ UNCHANGED <<keyVars, pin, action_addrResponseLen, requireConfirmation>>
         /\ AddressAnswered
         /\ FlattenSeq(pages) = AddressOf(rsa_pub)
  <1> DEFINE text == AddressOf(rsa_pub)
  <1>1. /\ stage = "review" /\ stage' = "none" /\ pages' = <<>>
        /\ UNCHANGED <<keyVars, pin, action_addrResponseLen, requireConfirmation>>
        /\ Len(pages) = pageCount(Text(apdu))
        /\ Reply(apdu, action_addrResponseLen, APDU_CODE_OK)
    BY DEF ApproveAddress
  <1>2. rsa_pub \in Keys \cup {NoKey}
    BY DEF AddressTypeOK
  <1>3. apdu = Put(Zeroes, text) /\ action_addrResponseLen = AddressSize
    BY <1>1 DEF BufferInv
  <1>4. AddressAnswered
    BY <1>1, <1>2, <1>3, AddressIsAnswered
  <1>5. Text(apdu) = text /\ pages = [page \in 1..Len(pages) |-> pageString(text, page)]
    BY <1>1 DEF AddressInv, ReviewShowsAddress, AddressOf
  <1>6. text \in Seq(Byte)
    BY <1>2, AddressBytes
  <1> HIDE DEF text
  <1>7. pages = [page \in 1..pageCount(text) |-> pageString(text, page)]
    BY <1>1, <1>5
  <1>8. FlattenSeq(pages) = text
    BY <1>6, <1>7, PagesJoin
  <1> QED
    BY <1>1, <1>4, <1>8 DEF text

LEMMA AddressIsRejected ==
  ASSUME Reject
  PROVE  /\ stage = "review" /\ stage' = "none" /\ pages' = <<>>
         /\ UNCHANGED <<keyVars, pin, action_addrResponseLen, requireConfirmation>>
         /\ apdu' \in [Cells -> Byte] /\ tx' \in 2..BufferSize /\ ~Ok'
  <1>1. /\ stage = "review" /\ stage' = "none" /\ pages' = <<>>
        /\ UNCHANGED <<keyVars, pin, action_addrResponseLen, requireConfirmation>>
        /\ Reply(Zeroes, 0, APDU_CODE_COMMAND_NOT_ALLOWED)
    BY DEF Reject
  <1>2. 0 \in Nat /\ 0 + 2 <= BufferSize
    BY Sizes
  <1> QED
    BY <1>1, <1>2, ReplyAnswers, StatusWords, Errors, ZeroesBytes

LEMMA PagesAreBytes ==
  ASSUME AddressTypeOK, AddressInv, ShowPage
  PROVE  pages' \in Seq(Seq(Byte))
  <1> DEFINE text == AddressOf(rsa_pub)
             n == Len(pages)
  <1>1. Text(apdu) = text /\ pages \in Seq(Seq(Byte)) /\ n \in Nat
    BY DEF ShowPage, AddressInv, ReviewShowsAddress, AddressOf, AddressTypeOK
  <1>2. text \in Seq(Byte)
    BY AddressBytes DEF AddressTypeOK
  <1>3. PICK page \in 1..(n + 1) :
            /\ page <= pageCount(text)
            /\ pages' = [k \in 1..(IF page > n THEN page ELSE n) |->
                            IF k = page THEN pageString(text, page) ELSE pages[k]]
    BY <1>1 DEF ShowPage
  <1> DEFINE m == IF page > n THEN page ELSE n
  <1>4. m \in Nat /\ \A k \in 1..m : k # page => k \in 1..n
    BY <1>1, <1>3
  <1> HIDE DEF text
  <1>5. page \in 1..pageCount(text)
    BY <1>2, <1>3, PageSizes
  <1>6. pageString(text, page) \in Seq(Byte)
    BY <1>2, <1>5, PageBytes
  <1>7. \A k \in 1..n : pages[k] \in Seq(Byte)
    BY <1>1
  <1>8. pages' = [k \in 1..m |-> IF k = page THEN pageString(text, page) ELSE pages[k]]
    BY <1>3
  <1> HIDE DEF m, n
  <1>9. \A k \in 1..m : (IF k = page THEN pageString(text, page) ELSE pages[k]) \in Seq(Byte)
    BY <1>4, <1>6, <1>7
  <1> QED
    BY <1>4, <1>8, <1>9

\* The parts of the type invariant that a step of the app does not leave alone.
LEMMA SaidKeepsType ==
  ASSUME AddressTypeOK, UNCHANGED <<keyVars, pin>>,
         apdu' \in [Cells -> Byte], tx' \in 0..BufferSize,
         action_addrResponseLen' \in {0, AddressSize}, requireConfirmation' \in Byte,
         stage' \in {"none", "encoding", "review"}, pages' \in Seq(Seq(Byte))
  PROVE  AddressTypeOK'
  BY DEF AddressTypeOK, keyVars, store, Cells

LEMMA TypeOfApp ==
  ASSUME AddressTypeOK, AddressInv, BufferInv, ByteStep \/ UNCHANGED addressVars
  PROVE  AddressTypeOK'
  <1>0. 0 \in 0..BufferSize /\ 2..BufferSize \subseteq 0..BufferSize
    BY Sizes
  <1>1. ASSUME NEW command \in Seq(Byte), HandleApdu(command) PROVE AddressTypeOK'
    <2>1. UNCHANGED <<keyVars, pin>> /\ (Said \/ \E p1 \in Byte : ToEncode(p1))
      BY <1>1, CommandIsHandled
    <2>2. CASE Said
      BY <1>0, <2>1, <2>2, SaidKeepsType DEF Said, AddressTypeOK
    <2>3. ASSUME NEW p1 \in Byte, ToEncode(p1) PROVE AddressTypeOK'
      BY <1>0, <2>1, <2>3, SaidKeepsType, ZeroesBytes DEF ToEncode, AddressTypeOK
    <2> QED
      BY <2>1, <2>2, <2>3
  <1>2. CASE EncodeStep
    BY <1>2 DEF EncodeStep, AddressTypeOK, keyVars, store, answer, Cells
  <1>3. CASE FillAddress
    <2>1. /\ UNCHANGED <<keyVars, pin, requireConfirmation, pages>>
          /\ action_addrResponseLen' = AddressSize
          /\ \/ apdu' = Put(Zeroes, AddressOf(rsa_pub)) /\ stage' = "review" /\ tx' = tx
             \/ stage' = "none" /\ AddressAnswered
      BY <1>3, AddressIsFilled
    <2>2. Put(Zeroes, AddressOf(rsa_pub)) \in [Cells -> Byte]
      BY FrontIsAddress DEF AddressTypeOK
    <2>3. apdu' \in [Cells -> Byte] /\ tx' \in 0..BufferSize /\ stage' \in {"none", "review"}
      BY <1>0, <2>1, <2>2 DEF AddressAnswered, AddressTypeOK
    <2> QED
      BY <2>1, <2>3, SaidKeepsType DEF AddressTypeOK
  <1>4. CASE ShowPage
    <2>1. pages' \in Seq(Seq(Byte))
      BY <1>4, PagesAreBytes
    <2> QED
      BY <1>4, <2>1, SaidKeepsType DEF ShowPage, AddressTypeOK
  <1>5. CASE ApproveAddress \/ Reject
    <2>1. /\ UNCHANGED <<keyVars, pin, action_addrResponseLen, requireConfirmation>>
          /\ stage' = "none" /\ pages' = <<>>
          /\ apdu' \in [Cells -> Byte] /\ tx' \in 2..BufferSize
      BY <1>5, AddressIsApproved, AddressIsRejected DEF AddressAnswered
    <2>2. pages' \in Seq(Seq(Byte))
      BY <2>1
    <2> QED
      BY <1>0, <2>1, <2>2, SaidKeepsType DEF AddressTypeOK
  <1>6. CASE Start \/ ChangeMnemonic \/ ToggleLock \/ UNCHANGED addressVars
    BY <1>6 DEF Start, ChangeMnemonic, ToggleLock, KeyStart, KeyChange, addressVars, keyVars,
                store, answer, AddressTypeOK, Cells
  <1>7. CASE Initialize
    BY <1>7 DEF Initialize, BecomeReady, answer, AddressTypeOK, Cells
  <1>8. CASE Stop
    <2>1. 0 \in Byte /\ KEY_SLOT_1 \in Slots /\ <<>> \in Seq(Seq(Byte))
      BY SmallBytes, SlotsAssumption
    <2> QED
      BY <1>0, <1>8, <2>1, ZeroesBytes DEF Stop, KeyStop, AddressTypeOK, Cells
  <1> QED
    BY <1>1, <1>2, <1>3, <1>4, <1>5, <1>6, <1>7, <1>8
       DEF ByteStep, AppStep, UserChoice, Environment

LEMMA NoReviewInBuffer ==
  ASSUME stage' # "review"
  PROVE  BufferInv'
  BY DEF BufferInv

LEMMA BufferOfApp ==
  ASSUME AddressTypeOK, AddressInv, BufferInv, ByteStep \/ UNCHANGED addressVars
  PROVE  BufferInv'
  <1>1. ASSUME UNCHANGED <<apdu, rsa_pub, action_addrResponseLen, stage>> PROVE BufferInv'
    BY <1>1 DEF BufferInv, AddressOf, HashOfPub, Put, Zeroes, Cells
  <1>2. ASSUME NEW command \in Seq(Byte), HandleApdu(command) PROVE BufferInv'
    <2>1. stage = "none" /\ (Said \/ \E p1 \in Byte : ToEncode(p1))
      BY <1>2, CommandIsHandled
    <2> QED
      BY <2>1, NoReviewInBuffer DEF Said, ToEncode
  <1>3. CASE EncodeStep
    BY <1>1, <1>3 DEF EncodeStep, keyVars, store, answer
  <1>4. CASE FillAddress
    <2>1. rsa_pub' = rsa_pub /\ action_addrResponseLen' = AddressSize
      BY <1>4, AddressIsFilled DEF keyVars, store
    <2>2. stage' # "review" \/ apdu' = Put(Zeroes, AddressOf(rsa_pub))
      BY <1>4, AddressIsFilled
    <2>3. Put(Zeroes, AddressOf(rsa_pub))' = Put(Zeroes, AddressOf(rsa_pub))
      BY <2>1 DEF AddressOf, HashOfPub, Put, Zeroes, Cells
    <2> QED
      BY <2>1, <2>2, <2>3 DEF BufferInv
  <1>5. CASE ShowPage
    BY <1>1, <1>5 DEF ShowPage, keyVars, store
  <1>6. CASE ApproveAddress \/ Reject
    BY <1>6, NoReviewInBuffer DEF ApproveAddress, Reject
  <1>7. CASE Start \/ ChangeMnemonic \/ ToggleLock \/ UNCHANGED addressVars
    BY <1>1, <1>7 DEF Start, ChangeMnemonic, ToggleLock, KeyStart, KeyChange, addressVars, keyVars,
                      store, answer
  <1>8. CASE Initialize
    <2>1. stage' = stage /\ ~device_initialized
      BY <1>8 DEF Initialize, BecomeReady, answer
    <2>2. stage # "review"
      BY <2>1 DEF AddressInv
    <2> QED
      BY <2>1, <2>2, NoReviewInBuffer
  <1>9. CASE Stop
    BY <1>9, NoReviewInBuffer DEF Stop
  <1> QED
    BY <1>2, <1>3, <1>4, <1>5, <1>6, <1>7, <1>8, <1>9
       DEF ByteStep, AppStep, UserChoice, Environment

-----------------------------------------------------------------------------
(* A call, and the device under it.                                        *)

CallTypeOK ==
    /\ kind \in Kinds \cup {"none"}
    /\ step \in Nat \ {0}
    /\ outcome \in {"pending", "resolved", "failed"}
    /\ answers \in Seq(Seq(Byte))
    /\ exchange \in {"nobody", "call", "other"}
    /\ confirmed \in Seq(Byte) /\ steady \in BOOLEAN
    /\ outcome = "pending" =>
          kind \in Kinds /\ step <= Len(CommandsOf[kind]) /\ Len(answers) = step - 1
    /\ outcome # "pending" => step = 1 /\ exchange # "call"
    /\ outcome = "resolved" => kind \in Kinds /\ Len(answers) = Len(CommandsOf[kind])

LEMMA TypeParts == QueryTypeOK <=> AddressTypeOK /\ CallTypeOK
  BY DEF QueryTypeOK, CallTypeOK

\* Where a call stands after an answer.
Fails == outcome' = "failed" /\ step' = 1 /\ answers' = <<>>

GoesOn(response) ==
    /\ outcome' = "pending" /\ step' = step + 1 /\ step < Len(CommandsOf[kind])
    /\ answers' = Append(answers, response)

Resolves(response) ==
    /\ outcome' = "resolved" /\ step' = 1 /\ step = Len(CommandsOf[kind])
    /\ answers' = Append(answers, response)

LEMMA AfterAnswer ==
  ASSUME CallTypeOK, outcome = "pending", NEW response, NEW ok \in BOOLEAN,
         Answered(response, ok)
  PROVE  /\ kind' = kind /\ exchange' \in {"nobody", "other"}
         /\ Fails \/ ((ok \/ kind = "digest") /\ (GoesOn(response) \/ Resolves(response)))
  <1> DEFINE len == Len(CommandsOf[kind])
  <1>1. step \in Nat \ {0} /\ step <= len /\ len \in Nat
    BY CallsSendBytes DEF CallTypeOK
  <1> HIDE DEF len
  <1>2. /\ outcome' = Onward(ok)[1] /\ step' = Onward(ok)[2]
        /\ answers' = IF outcome' = "resolved" \/ step' > 1 THEN Append(answers, response) ELSE <<>>
        /\ kind' = kind /\ exchange' \in {"nobody", "other"}
    BY DEF Answered, CallTypeOK
  <1>3. CASE ~ok /\ ~(kind = "digest" /\ step = 1)
    <2>1. Onward(ok) = <<"failed", 1>>
      BY <1>3 DEF Onward
    <2> QED
      BY <1>2, <2>1 DEF Fails
  <1>4. CASE ~(~ok /\ ~(kind = "digest" /\ step = 1)) /\ step < len
    <2>1. Onward(ok) = <<"pending", step + 1>>
      BY <1>4 DEF Onward, len
    <2>2. step + 1 > 1
      BY <1>1
    <2> QED
      BY <1>2, <1>4, <2>1, <2>2 DEF GoesOn, len
  <1>5. CASE ~(~ok /\ ~(kind = "digest" /\ step = 1)) /\ ~(step < len)
    <2>1. Onward(ok) = <<"resolved", 1>>
      BY <1>5 DEF Onward, len
    <2>2. step = len
      BY <1>1, <1>5
    <2> QED
      BY <1>2, <1>5, <2>1, <2>2 DEF Resolves, len
  <1> QED
    BY <1>3, <1>4, <1>5

LEMMA ResponseBytes ==
  ASSUME AddressTypeOK
  PROVE  Response \in Seq(Byte)
  <1>1. apdu \in [Cells -> Byte] /\ tx \in Nat /\ tx <= BufferSize
    BY Sizes DEF AddressTypeOK
  <1>2. Response = FrontOf(apdu, tx)
    BY DEF Response, FrontOf
  <1> QED
    BY <1>1, <1>2, FrontBytes

LEMMA AnswerKeepsType ==
  ASSUME CallTypeOK, outcome = "pending", UNCHANGED history,
         NEW response \in Seq(Byte), NEW ok \in BOOLEAN, Answered(response, ok)
  PROVE  CallTypeOK'
  <1> DEFINE len == Len(CommandsOf[kind])
             longer == Append(answers, response)
  <1>1. /\ step \in Nat \ {0} /\ step <= len /\ len \in Nat /\ kind \in Kinds
        /\ answers \in Seq(Seq(Byte)) /\ Len(answers) = step - 1
    BY CallsSendBytes DEF CallTypeOK
  <1>2. longer \in Seq(Seq(Byte)) /\ Len(longer) = step
    BY <1>1
  <1>3. /\ kind' = kind /\ exchange' \in {"nobody", "other"}
        /\ Fails \/ GoesOn(response) \/ Resolves(response)
    BY AfterAnswer
  <1>4. CommandsOf[kind]' = CommandsOf[kind] /\ confirmed' = confirmed /\ steady' = steady
    BY <1>3 DEF CommandsOf, Send, history
  <1> HIDE DEF len
  <1>5. len' = len
    BY <1>4 DEF len
  <1>6. CASE Fails
    BY <1>1, <1>3, <1>4, <1>6 DEF Fails, CallTypeOK
  <1>7. CASE GoesOn(response)
    <2>1. /\ outcome' = "pending" /\ step' = step + 1 /\ step < len /\ answers' = longer
      BY <1>7 DEF GoesOn, len
    <2> HIDE DEF longer
    <2>2. step' \in Nat \ {0} /\ step' <= len' /\ Len(answers') = step' - 1
      BY <1>1, <1>2, <1>5, <2>1
    <2> QED
      BY <1>1, <1>2, <1>3, <1>4, <2>1, <2>2 DEF CallTypeOK, len
  <1>8. CASE Resolves(response)
    <2>1. /\ outcome' = "resolved" /\ step' = 1 /\ step = len /\ answers' = longer
      BY <1>8 DEF Resolves, len
    <2> HIDE DEF longer
    <2>2. Len(answers') = len'
      BY <1>2, <1>5, <2>1
    <2> QED
      BY <1>1, <1>2, <1>3, <1>4, <2>1, <2>2 DEF CallTypeOK, len
  <1> QED
    BY <1>3, <1>6, <1>7, <1>8

\* To the app, a call is some host.
LEMMA StepsOfApp ==
  ASSUME CallTypeOK, [QueryNext]_queryVars
  PROVE  ByteStep \/ UNCHANGED addressVars
  <1>1. CASE Deliver
    <2>1. outcome = "pending"
      BY <1>1 DEF Deliver, Sending
    <2>2. kind \in Kinds /\ step \in Nat \ {0} /\ step <= Len(CommandsOf[kind])
      BY <2>1 DEF CallTypeOK
    <2>3. CommandsOf[kind] \in Seq(Seq(Byte))
      BY <2>2, CallsSendBytes
    <2>4. CommandsOf[kind][step] \in Seq(Byte)
      BY <2>2, <2>3
    <2> QED
      BY <1>1, <2>4 DEF Deliver, ByteStep
  <1>2. CASE OtherProgram
    BY <1>2, CommandsAreBytes DEF OtherProgram, ByteStep
  <1>3. CASE (\E k \in Kinds : Call(k)) \/ SendFails \/ Receive \/ AnswerLost
    BY <1>3 DEF Call, SendFails, Receive, AnswerLost
  <1>4. CASE Choose
    BY <1>4 DEF Choose, Decide, ByteStep, UserChoice
  <1>5. CASE App \/ Device
    BY <1>5 DEF App, Device, ByteStep
  <1>6. CASE UNCHANGED queryVars
    BY <1>6 DEF queryVars
  <1> QED
    BY <1>1, <1>2, <1>3, <1>4, <1>5, <1>6 DEF QueryNext, ClientStep

LEMMA CallKeepsType ==
  ASSUME CallTypeOK, NEW k \in Kinds, Call(k)
  PROVE  CallTypeOK'
  <1>1. Len(CommandsOf[k]) \in Nat \ {0}
    BY CallsSendBytes
  <1>2. /\ outcome # "pending" /\ kind' = k /\ step' = 1 /\ outcome' = "pending" /\ answers' = <<>>
        /\ confirmed' = <<>> /\ steady' = TRUE /\ exchange' = exchange
    BY DEF Call
  <1>3. CommandsOf[kind]' = CommandsOf[k]
    BY <1>2 DEF CommandsOf, Send
  <1>4. <<>> \in Seq(Byte) /\ <<>> \in Seq(Seq(Byte)) /\ Len(<<>>) = 1 - 1
    OBVIOUS
  <1> QED
    BY <1>1, <1>2, <1>3, <1>4 DEF CallTypeOK

LEMMA TypeOfCalls ==
  ASSUME AddressTypeOK, CallTypeOK, [QueryNext]_queryVars
  PROVE  CallTypeOK'
  <1>1. ASSUME UNCHANGED <<kind, step, outcome, answers>>,
               exchange' \in {"nobody", "call", "other"}, outcome # "pending" => exchange' # "call",
               confirmed' \in Seq(Byte), steady' \in BOOLEAN
        PROVE  CallTypeOK'
    <2>1. CommandsOf[kind]' = CommandsOf[kind]
      BY <1>1 DEF CommandsOf, Send
    <2> QED
      BY <1>1, <2>1 DEF CallTypeOK
  <1>2. ASSUME NEW k \in Kinds, Call(k) PROVE CallTypeOK'
    BY <1>2, CallKeepsType
  <1>3. CASE Deliver
    BY <1>1, <1>3 DEF Deliver, Sending, history, CallTypeOK
  <1>4. CASE SendFails \/ AnswerLost
    <2>1. outcome = "pending" /\ Answered(<<>>, FALSE) /\ UNCHANGED history
      BY <1>4 DEF SendFails, AnswerLost, Sending, CallTypeOK
    <2>2. <<>> \in Seq(Byte) /\ FALSE \in BOOLEAN
      OBVIOUS
    <2> QED
      BY <2>1, <2>2, AnswerKeepsType
  <1>5. CASE Receive
    <2>1. outcome = "pending" /\ Answered(Response, Ok) /\ UNCHANGED history
      BY <1>5 DEF Receive, Ok, CallTypeOK
    <2>2. Response \in Seq(Byte) /\ Ok \in BOOLEAN
      BY ResponseBytes DEF Ok
    <2> QED
      BY <2>1, <2>2, AnswerKeepsType
  <1>6. CASE OtherProgram
    BY <1>1, <1>6 DEF OtherProgram, history, CallTypeOK
  <1>7. CASE Decide
    <2>1. FlattenSeq(pages) \in Seq(Byte)
      BY FlattenInSeq DEF AddressTypeOK
    <2> QED
      BY <1>1, <1>7, <2>1 DEF Decide, client, CallTypeOK
  <1>8. CASE Choose /\ ~Decide
    BY <1>1, <1>8 DEF Choose, client, history, CallTypeOK
  <1>9. CASE App
    BY <1>1, <1>9 DEF App, client, history, CallTypeOK
  <1>10. CASE Device
    BY <1>1, <1>10 DEF Device, client, CallTypeOK
  <1>11. CASE UNCHANGED queryVars
    BY <1>1, <1>11 DEF queryVars, client, history, CallTypeOK
  <1> QED
    BY <1>2, <1>3, <1>4, <1>5, <1>6, <1>7, <1>8, <1>9, <1>10, <1>11 DEF QueryNext, ClientStep

-----------------------------------------------------------------------------
(* showAddress.                                                            *)

\* The app answers nothing before the user has read the address; the answer, and
\* then what the call resolves with, is the text that was confirmed.
IsConfirmed(response) ==
    response = confirmed \o APDU_CODE_OK /\ Len(confirmed) = AddressSize

ShowInv ==
    kind = "showAddress" =>
        /\ exchange = "call" /\ stage # "none" => tx = 0 /\ requireConfirmation # 0
        /\ exchange = "call" /\ tx # 0 /\ Ok => IsConfirmed(Response)
        /\ outcome = "resolved" => IsConfirmed(answers[1])

LEMMA SameResponse ==
  ASSUME UNCHANGED <<apdu, tx>>
  PROVE  Response' = Response /\ (Ok' <=> Ok)
  <1>1. Response' = Response
    BY DEF Response
  <1> QED
    BY <1>1 DEF Ok

LEMMA ShowUndisturbed ==
  ASSUME ShowInv, UNCHANGED <<client, confirmed, apdu, tx, requireConfirmation, stage>>
  PROVE  ShowInv'
  <1>1. Response' = Response /\ (Ok' <=> Ok)
    BY SameResponse
  <1> QED
    BY <1>1 DEF ShowInv, IsConfirmed, client

LEMMA ShowNotAsked ==
  ASSUME ShowInv, UNCHANGED <<kind, outcome, answers, confirmed>>, exchange' # "call"
  PROVE  ShowInv'
  BY DEF ShowInv, IsConfirmed

LEMMA DeliverShows ==
  ASSUME AddressTypeOK, CallTypeOK, Deliver
  PROVE  ShowInv'
  <1> SUFFICES ASSUME kind = "showAddress" PROVE ShowInv'
    BY DEF ShowInv, Deliver
  <1>1. outcome = "pending" /\ outcome' = "pending" /\ HandleApdu(CommandsOf[kind][step])
    BY DEF Deliver, Sending
  <1>2. step = 1
    BY <1>1, CommandsOfCalls DEF CallTypeOK
  <1>3. HandleApdu(Send(INS_GET_ADDR, 1, 0, <<>>))
    BY <1>1, <1>2, CommandsOfCalls
  <1>4. Send(INS_GET_ADDR, 1, 0, <<>>) \in Seq(Byte)
    BY SmallBytes, NoData, SendBytes
  <1>5. (Said /\ ~Ok') \/ ToEncode(1)
    BY <1>3, <1>4, GetAddrIsHandled, SmallBytes
  <1>6. stage = "none"
    BY <1>3 DEF HandleApdu
  <1> QED
    BY <1>1, <1>5, <1>6 DEF ShowInv, Said, ToEncode

LEMMA AnswerShows ==
  ASSUME CallTypeOK, ShowInv, ClientStep, ~Deliver
  PROVE  ShowInv'
  <1> SUFFICES ASSUME kind' = "showAddress" PROVE ShowInv'
    BY DEF ShowInv
  <1>1. outcome = "pending" /\ confirmed' = confirmed
    BY DEF ClientStep, SendFails, AnswerLost, Receive, Sending, CallTypeOK, history
  <1>2. CASE Answered(<<>>, FALSE)
    <2>1. kind' = kind /\ exchange' # "call" /\ (Fails \/ kind = "digest")
      BY <1>1, <1>2, AfterAnswer
    <2> QED
      BY <2>1 DEF ShowInv, Fails
  <1>3. CASE Receive
    <2>1. exchange = "call" /\ tx # 0 /\ Answered(Response, Ok) /\ Ok \in BOOLEAN
      BY <1>3 DEF Receive, Ok
    <2>2. /\ kind' = kind /\ exchange' # "call"
          /\ Fails \/ ((Ok \/ kind = "digest") /\ (GoesOn(Response) \/ Resolves(Response)))
      BY <1>1, <2>1, AfterAnswer
    <2>3. CASE Resolves(Response) /\ Ok
      <3>1. IsConfirmed(Response) /\ kind = "showAddress"
        BY <2>1, <2>2, <2>3 DEF ShowInv
      <3>2. Len(CommandsOf[kind]) = 1
        BY <3>1, CommandsOfCalls
      <3>3. step = 1 /\ answers' = Append(answers, Response)
        BY <2>3, <3>2 DEF Resolves
      <3>4. answers \in Seq(Seq(Byte)) /\ Len(answers) = 0
        BY <1>1, <3>3 DEF CallTypeOK
      <3>5. answers'[1] = Response
        BY <3>3, <3>4
      <3> QED
        BY <1>1, <2>2, <3>1, <3>5 DEF ShowInv, IsConfirmed
    <2> QED
      BY <2>2, <2>3 DEF ShowInv, Fails, GoesOn
  <1> QED
    BY <1>2, <1>3 DEF ClientStep, SendFails, AnswerLost

LEMMA DecideShows ==
  ASSUME AddressTypeOK, CallTypeOK, AddressInv, BufferInv, ShowInv, Decide
  PROVE  ShowInv'
  <1>1. UNCHANGED <<kind, outcome, answers, exchange>> /\ (ApproveAddress \/ Reject)
    BY DEF Decide, client
  <1>2. CASE exchange # "call"
    <2>1. confirmed' = confirmed
      BY <1>2 DEF Decide
    <2> QED
      BY <1>1, <1>2, <2>1, ShowNotAsked
  <1>3. CASE exchange = "call"
    <2>1. outcome' # "resolved"
      BY <1>1, <1>3 DEF CallTypeOK
    <2>2. CASE ApproveAddress /\ confirmed' = FlattenSeq(pages)
      <3>1. stage' = "none" /\ Response' = AddressOf(rsa_pub) \o APDU_CODE_OK
            /\ FlattenSeq(pages) = AddressOf(rsa_pub)
        BY <2>2, AddressIsApproved DEF AddressAnswered
      <3>2. Len(AddressOf(rsa_pub)) = AddressSize
        BY AddressBytes DEF AddressTypeOK
      <3>3. confirmed' = AddressOf(rsa_pub)
        BY <2>2, <3>1
      <3>4. IsConfirmed(Response)'
        BY <3>1, <3>2, <3>3 DEF IsConfirmed
      <3> QED
        BY <2>1, <3>1, <3>4 DEF ShowInv
    <2>3. CASE Reject
      <3>1. stage' = "none" /\ ~Ok'
        BY <2>3, AddressIsRejected
      <3> QED
        BY <2>1, <3>1 DEF ShowInv
    <2> QED
      BY <1>3, <2>2, <2>3 DEF Decide
  <1> QED
    BY <1>2, <1>3

LEMMA AppShows ==
  ASSUME AddressTypeOK, AddressInv, ShowInv, App
  PROVE  ShowInv'
  <1>1. UNCHANGED <<client, history>>
    BY DEF App
  <1>2. CASE EncodeStep
    BY <1>1, <1>2, ShowUndisturbed DEF EncodeStep, answer, history
  <1>3. CASE FillAddress
    <2>1. /\ stage = "encoding" /\ requireConfirmation' = requireConfirmation
          /\ (requireConfirmation # 0 /\ tx' = tx) \/ requireConfirmation = 0
      BY <1>3, AddressIsFilled
    <2> QED
      BY <1>1, <2>1 DEF ShowInv, IsConfirmed, client, history
  <1> QED
    BY <1>2, <1>3 DEF App, AppStep

LEMMA DeviceShows ==
  ASSUME ShowInv, Device
  PROVE  ShowInv'
  <1>1. UNCHANGED <<client, confirmed>> /\ Environment
    BY DEF Device
  <1>2. CASE Stop
    <2>1. stage' = "none" /\ tx' = 0
      BY <1>2 DEF Stop
    <2> QED
      BY <1>1, <2>1 DEF ShowInv, IsConfirmed, client
  <1>3. CASE ~Stop
    <2>1. UNCHANGED answer
      BY <1>1, <1>3 DEF Environment, Start, Initialize, ChangeMnemonic, ToggleLock
    <2> QED
      BY <1>1, <2>1, ShowUndisturbed DEF answer
  <1> QED
    BY <1>2, <1>3

LEMMA ShowInvInductive ==
  ASSUME AddressTypeOK, CallTypeOK, AddressInv, BufferInv, ShowInv, [QueryNext]_queryVars
  PROVE  ShowInv'
  <1>1. ASSUME NEW k \in Kinds, Call(k) PROVE ShowInv'
    BY <1>1 DEF Call, ShowInv, CallTypeOK
  <1>2. CASE ClientStep
    BY <1>2, DeliverShows, AnswerShows
  <1>3. CASE OtherProgram
    BY <1>3, ShowNotAsked DEF OtherProgram, history
  <1>4. CASE Decide
    BY <1>4, DecideShows
  <1>5. CASE ShowPage /\ UNCHANGED <<client, history>>
    BY <1>5, ShowUndisturbed DEF ShowPage, history
  <1>6. CASE App
    BY <1>6, AppShows
  <1>7. CASE Device
    BY <1>7, DeviceShows
  <1>8. CASE UNCHANGED queryVars
    BY <1>8, ShowUndisturbed DEF queryVars, history, addressVars, answer
  <1> QED
    BY <1>1, <1>2, <1>3, <1>4, <1>5, <1>6, <1>7, <1>8 DEF QueryNext, Choose

-----------------------------------------------------------------------------
(* getAddress.                                                             *)

\* What its commands ask for, and the answer to one of them.
FactsOf(pub) == <<AddressOf(pub), HalfOf(pub, 0), HalfOf(pub, 1)>>

IsAnswer(response, pub, n) == response = FactsOf(pub)[n] \o APDU_CODE_OK

\* The first len answers are about one key.
AreOf(responses, pub, len) == \A n \in 1..len : IsAnswer(responses[n], pub, n)

\* After the first answer the app is ready, so that its keys stay what they are
\* until it is stopped, and what it has told is about them.
AskedInv ==
    outcome = "pending" =>
        /\ step >= 2 => device_initialized
        /\ AreOf(answers, rsa_pub, step - 1)

AnsweredInv ==
    exchange = "call" =>
        /\ stage # "review"
        /\ stage = "encoding" => step = 1 /\ requireConfirmation = 0 /\ tx = 0
        /\ tx # 0 /\ Ok => device_initialized /\ IsAnswer(Response, rsa_pub, step)

ResolvedInv ==
    outcome = "resolved" => \E pub \in Keys \cup {NoKey} : AreOf(answers, pub, 3)

KeysInv == kind = "getAddress" /\ steady => AskedInv /\ AnsweredInv /\ ResolvedInv

LEMMA Facts ==
  ASSUME NEW response, NEW pub
  PROVE  /\ IsAnswer(response, pub, 1) <=> response = AddressOf(pub) \o APDU_CODE_OK
         /\ IsAnswer(response, pub, 2) <=> response = HalfOf(pub, 0) \o APDU_CODE_OK
         /\ IsAnswer(response, pub, 3) <=> response = HalfOf(pub, 1) \o APDU_CODE_OK
  BY DEF IsAnswer, FactsOf

\* A step that leaves the call alone, and the keys of a ready app.
LEMMA KeysUndisturbed ==
  ASSUME KeysInv, CallTypeOK, UNCHANGED <<kind, step, outcome, answers>>, steady' => steady,
         exchange' = "call" => UNCHANGED <<exchange, apdu, tx, requireConfirmation, stage>>,
         device_initialized => device_initialized' /\ rsa_pub' = rsa_pub
  PROVE  KeysInv'
  <1> SUFFICES ASSUME kind = "getAddress", steady PROVE AskedInv' /\ AnsweredInv' /\ ResolvedInv'
    BY DEF KeysInv
  <1>1. AskedInv /\ AnsweredInv /\ ResolvedInv
    BY DEF KeysInv
  <1>2. kind' = kind /\ step' = step /\ outcome' = outcome /\ answers' = answers
    OBVIOUS
  <1>3. AskedInv'
    <2>1. CASE outcome = "pending" /\ step >= 2
      BY <1>1, <1>2, <2>1 DEF AskedInv, AreOf, IsAnswer, FactsOf, AddressOf, HashOfPub, HalfOf
    <2>2. CASE outcome = "pending" /\ ~(step >= 2)
      <3>1. 1..(step - 1) = {}
        BY <2>2 DEF CallTypeOK
      <3> QED
        BY <1>2, <2>2, <3>1 DEF AskedInv, AreOf
    <2> QED
      BY <1>2, <2>1, <2>2 DEF AskedInv
  <1>4. AnsweredInv'
    <2>1. exchange' = "call" => Response' = Response /\ (Ok' <=> Ok)
      BY SameResponse
    <2> QED
      BY <1>1, <1>2, <2>1 DEF AnsweredInv, IsAnswer, FactsOf, AddressOf, HashOfPub, HalfOf
  <1>5. ResolvedInv'
    BY <1>1, <1>2 DEF ResolvedInv, AreOf, IsAnswer, FactsOf, AddressOf, HashOfPub, HalfOf
  <1> QED
    BY <1>3, <1>4, <1>5

\* What is said of the key in use, in a step that leaves it alone.
LEMMA SameKey ==
  ASSUME rsa_pub' = rsa_pub
  PROVE  FactsOf(rsa_pub)' = FactsOf(rsa_pub)
  BY DEF FactsOf, AddressOf, HashOfPub, HalfOf

LEMMA DeliverTells ==
  ASSUME AddressTypeOK, CallTypeOK, KeysInv, Deliver
  PROVE  KeysInv'
  <1> SUFFICES ASSUME kind = "getAddress", steady PROVE AskedInv' /\ AnsweredInv' /\ ResolvedInv'
    BY DEF KeysInv, Deliver, history
  <1>1. /\ outcome = "pending" /\ HandleApdu(CommandsOf[kind][step])
        /\ exchange' = "call" /\ UNCHANGED <<kind, step, outcome, answers>>
    BY DEF Deliver, Sending
  <1>2. Len(CommandsOf[kind]) = 3
    BY CommandsOfCalls
  <1>3. step \in {1, 2, 3}
    BY <1>1, <1>2 DEF CallTypeOK
  <1>4. stage = "none" /\ rsa_pub' = rsa_pub /\ device_initialized' = device_initialized
    BY <1>1 DEF HandleApdu, keyVars, store
  <1>5. FactsOf(rsa_pub)' = FactsOf(rsa_pub)
    BY <1>4, SameKey
  <1>6. AskedInv'
    BY <1>1, <1>4, <1>5 DEF KeysInv, AskedInv, AreOf, IsAnswer
  <1>7. CASE step = 1
    <2>1. HandleApdu(Send(INS_GET_ADDR, 0, 0, <<>>))
      BY <1>1, <1>7, CommandsOfCalls
    <2>2. Send(INS_GET_ADDR, 0, 0, <<>>) \in Seq(Byte)
      BY SmallBytes, NoData, SendBytes
    <2>3. (Said /\ ~Ok') \/ ToEncode(0)
      BY <2>1, <2>2, GetAddrIsHandled, SmallBytes
    <2> QED
      BY <1>1, <1>4, <1>6, <1>7, <2>3 DEF AnsweredInv, ResolvedInv, Said, ToEncode
  <1>8. ASSUME NEW part \in {0, 1}, step = part + 2 PROVE AnsweredInv'
    <2>1. part \in Byte
      BY SmallBytes
    <2>2. CommandsOf[kind][step] = Send(INS_GET_PK, 0, part, <<>>)
      BY <1>8, CommandsOfCalls
    <2>3. Send(INS_GET_PK, 0, part, <<>>) \in Seq(Byte)
      BY <2>1, SmallBytes, NoData, SendBytes
    <2>4. /\ Said
          /\ Ok' => device_initialized /\ Response' = HalfOf(rsa_pub, part) \o APDU_CODE_OK
      BY <1>1, <2>1, <2>2, <2>3, GetPkIsHandled
    <2>5. FactsOf(rsa_pub)[step] = HalfOf(rsa_pub, part)
      BY <1>8 DEF FactsOf
    <2>6. Ok' => IsAnswer(Response, rsa_pub, step)'
      BY <1>1, <1>5, <2>4, <2>5 DEF IsAnswer
    <2> QED
      BY <1>4, <2>4, <2>6 DEF AnsweredInv, Said
  <1>9. CASE step # 1
    <2>1. AnsweredInv'
      <3>1. step = 0 + 2 \/ step = 1 + 2
        BY <1>3, <1>9
      <3> QED
        BY <3>1, <1>8
    <2> QED
      BY <1>1, <1>6, <2>1 DEF ResolvedInv
  <1> QED
    BY <1>7, <1>9

LEMMA AnswerTells ==
  ASSUME AddressTypeOK, CallTypeOK, KeysInv, ClientStep, ~Deliver
  PROVE  KeysInv'
  <1> SUFFICES ASSUME kind' = "getAddress", steady' PROVE AskedInv' /\ AnsweredInv' /\ ResolvedInv'
    BY DEF KeysInv
  <1>1. outcome = "pending" /\ UNCHANGED <<addressVars, history>>
    BY DEF ClientStep, SendFails, AnswerLost, Receive, Sending, CallTypeOK
  <1>2. CASE Answered(<<>>, FALSE)
    <2>1. kind' = kind /\ exchange' # "call" /\ (Fails \/ kind = "digest")
      BY <1>1, <1>2, AfterAnswer
    <2> QED
      BY <2>1 DEF AskedInv, AnsweredInv, ResolvedInv, Fails
  <1>3. CASE Receive
    <2>1. exchange = "call" /\ tx # 0 /\ Answered(Response, Ok) /\ Ok \in BOOLEAN
      BY <1>3 DEF Receive, Ok
    <2>2. /\ kind' = kind /\ exchange' # "call"
          /\ Fails \/ ((Ok \/ kind = "digest") /\ (GoesOn(Response) \/ Resolves(Response)))
      BY <1>1, <2>1, AfterAnswer
    <2>3. CASE Ok /\ answers' = Append(answers, Response)
      <3>1. AskedInv /\ AnsweredInv
        BY <1>1, <2>2 DEF KeysInv, history
      <3>2. /\ device_initialized /\ IsAnswer(Response, rsa_pub, step)
            /\ AreOf(answers, rsa_pub, step - 1)
        BY <1>1, <2>1, <2>3, <3>1 DEF AskedInv, AnsweredInv
      <3>3. /\ step \in Nat \ {0} /\ answers \in Seq(Seq(Byte)) /\ Len(answers) = step - 1
        BY <1>1 DEF CallTypeOK
      <3>4. AreOf(answers', rsa_pub, step)
        <4>1. \A n \in 1..step : n = step \/ n \in 1..(step - 1)
          BY <3>3
        <4>2. answers'[step] = Response /\ \A n \in 1..(step - 1) : answers'[n] = answers[n]
          BY <2>3, <3>3
        <4> QED
          BY <3>2, <4>1, <4>2 DEF AreOf
      <3>5. rsa_pub' = rsa_pub /\ device_initialized' = device_initialized
        BY <1>1 DEF addressVars, keyVars, store
      <3>6. CASE GoesOn(Response)
        <4>1. outcome' = "pending" /\ step' = step + 1
          BY <3>6 DEF GoesOn
        <4>2. step' - 1 = step
          BY <3>3, <4>1
        <4>3. AreOf(answers, rsa_pub, step - 1)'
          BY <3>4, <3>5, <4>2, SameKey DEF AreOf, IsAnswer
        <4> QED
          BY <2>2, <3>2, <3>5, <4>1, <4>3 DEF AskedInv, AnsweredInv, ResolvedInv
      <3>7. CASE Resolves(Response)
        <4>1. Len(CommandsOf["getAddress"]) = 3
          BY CommandsOfCalls
        <4>2. step = 3 /\ outcome' = "resolved"
          BY <2>2, <3>7, <4>1 DEF Resolves
        <4>3. AreOf(answers', rsa_pub, 3) /\ rsa_pub \in Keys \cup {NoKey}
          BY <3>4, <4>2 DEF AddressTypeOK
        <4>4. \E pub \in Keys \cup {NoKey} : AreOf(answers, pub, 3)'
          BY <3>5, <4>3 DEF AreOf, IsAnswer, FactsOf, AddressOf, HashOfPub, HalfOf
        <4>5. ResolvedInv'
          BY <4>4 DEF ResolvedInv
        <4> QED
          BY <2>2, <4>2, <4>5 DEF AskedInv, AnsweredInv
      <3>8. GoesOn(Response) \/ Resolves(Response)
        <4>1. Len(answers') # 0
          BY <2>3, <3>3
        <4>2. ~Fails
          BY <4>1 DEF Fails
        <4> QED
          BY <2>2, <4>2
      <3> QED
        BY <3>6, <3>7, <3>8
    <2>4. CASE Fails
      BY <2>2, <2>4 DEF Fails, AskedInv, AnsweredInv, ResolvedInv
    <2> QED
      BY <2>2, <2>3, <2>4 DEF GoesOn, Resolves
  <1> QED
    BY <1>2, <1>3 DEF ClientStep, SendFails, AnswerLost

LEMMA DecideTells ==
  ASSUME CallTypeOK, KeysInv, Decide
  PROVE  KeysInv'
  <1>1. /\ stage = "review" /\ UNCHANGED keyVars
        /\ UNCHANGED <<kind, step, outcome, answers, exchange, steady>>
    BY DEF Decide, client, ApproveAddress, Reject
  <1>2. CASE exchange # "call"
    BY <1>1, <1>2, KeysUndisturbed DEF keyVars, store
  <1>3. CASE exchange = "call"
    BY <1>1, <1>3 DEF KeysInv, AnsweredInv
  <1> QED
    BY <1>2, <1>3

LEMMA AppTells ==
  ASSUME AddressTypeOK, CallTypeOK, AddressInv, KeysInv, App
  PROVE  KeysInv'
  <1>1. UNCHANGED <<kind, step, outcome, answers, exchange, steady>>
    BY DEF App, client, history
  <1>2. UNCHANGED keyVars
    BY DEF App, AppStep, EncodeStep, FillAddress
  <1>3. CASE EncodeStep \/ exchange # "call"
    BY <1>1, <1>2, <1>3, KeysUndisturbed DEF EncodeStep, answer, keyVars, store
  <1>4. CASE FillAddress /\ exchange = "call"
    <2> SUFFICES ASSUME kind = "getAddress", steady PROVE AskedInv' /\ AnsweredInv' /\ ResolvedInv'
      BY <1>1 DEF KeysInv
    <2>1. /\ stage = "encoding" /\ device_initialized
          /\ requireConfirmation # 0 \/ (stage' = "none" /\ AddressAnswered)
      BY <1>4, AddressIsFilled
    <2>2. AskedInv /\ AnsweredInv /\ step = 1 /\ requireConfirmation = 0
      BY <1>4, <2>1 DEF KeysInv, AnsweredInv
    <2>3. stage' = "none" /\ Response' = AddressOf(rsa_pub) \o APDU_CODE_OK
      BY <2>1, <2>2 DEF AddressAnswered
    <2>4. FactsOf(rsa_pub)' = FactsOf(rsa_pub) /\ device_initialized'
      BY <1>2, <2>1, SameKey DEF keyVars, store
    <2>5. FactsOf(rsa_pub)[step] = AddressOf(rsa_pub)
      BY <2>2 DEF FactsOf
    <2>6. IsAnswer(Response, rsa_pub, step)'
      BY <1>1, <2>3, <2>4, <2>5 DEF IsAnswer
    <2>7. AnsweredInv'
      BY <2>3, <2>4, <2>6 DEF AnsweredInv
    <2>8. AskedInv'
      BY <1>1, <2>2, <2>4 DEF AskedInv, AreOf, IsAnswer
    <2>9. ResolvedInv'
      BY <1>1, <1>4 DEF ResolvedInv, CallTypeOK
    <2> QED
      BY <2>7, <2>8, <2>9
  <1> QED
    BY <1>3, <1>4 DEF App, AppStep

LEMMA DeviceTells ==
  ASSUME CallTypeOK, KeysInv, Device
  PROVE  KeysInv'
  <1>1. /\ UNCHANGED <<kind, step, outcome, answers, exchange>> /\ Environment
        /\ steady' = (steady /\ (running => running'))
    BY DEF Device, client
  <1>2. CASE Stop
    <2>1. ~steady'
      BY <1>1, <1>2 DEF Stop, KeyStop
    <2> QED
      BY <2>1 DEF KeysInv
  <1>3. CASE ~Stop
    <2>1. /\ UNCHANGED answer
          /\ device_initialized => device_initialized' /\ rsa_pub' = rsa_pub
      BY <1>1, <1>3 DEF Environment, Start, Initialize, ChangeMnemonic, ToggleLock, KeyStart,
                        BecomeReady, KeyChange, keyVars, store
    <2> QED
      BY <1>1, <2>1, KeysUndisturbed DEF answer
  <1> QED
    BY <1>2, <1>3

LEMMA KeysInvInductive ==
  ASSUME AddressTypeOK, CallTypeOK, AddressInv, KeysInv, [QueryNext]_queryVars
  PROVE  KeysInv'
  <1>1. ASSUME NEW k \in Kinds, Call(k) PROVE KeysInv'
    <2>1. exchange' # "call" /\ outcome' = "pending" /\ step' = 1
      BY <1>1 DEF Call, CallTypeOK
    <2>2. step' - 1 = 0
      BY <2>1
    <2>3. AskedInv'
      BY <2>1, <2>2 DEF AskedInv, AreOf
    <2> QED
      BY <2>1, <2>3 DEF KeysInv, AnsweredInv, ResolvedInv
  <1>2. CASE ClientStep
    BY <1>2, DeliverTells, AnswerTells
  <1>3. CASE OtherProgram
    <2>1. /\ UNCHANGED <<kind, step, outcome, answers, steady, keyVars>>
          /\ exchange' # "call"
      BY <1>3 DEF OtherProgram, history, addressVars, HandleApdu
    <2> QED
      BY <2>1, KeysUndisturbed DEF keyVars, store
  <1>4. CASE Decide
    BY <1>4, DecideTells
  <1>5. CASE ShowPage /\ UNCHANGED <<client, history>>
    BY <1>5, KeysUndisturbed DEF ShowPage, client, history, keyVars, store
  <1>6. CASE App
    BY <1>6, AppTells
  <1>7. CASE Device
    BY <1>7, DeviceTells
  <1>8. CASE UNCHANGED queryVars
    BY <1>8, KeysUndisturbed DEF queryVars, client, history, addressVars, answer, keyVars, store
  <1> QED
    BY <1>1, <1>2, <1>3, <1>4, <1>5, <1>6, <1>7, <1>8 DEF QueryNext, Choose

-----------------------------------------------------------------------------
(* The theorems.                                                           *)

QueryInv ==
    /\ AddressTypeOK /\ CallTypeOK
    /\ AddressInv /\ BufferInv
    /\ ShowInv /\ KeysInv

LEMMA QueryInitGivesInv == QueryInit => QueryInv
  <1> SUFFICES ASSUME QueryInit PROVE QueryInv
    OBVIOUS
  <1>1. /\ AddressInit
        /\ kind = "none" /\ step = 1 /\ outcome = "failed" /\ answers = <<>>
        /\ exchange = "nobody" /\ confirmed = <<>> /\ steady = TRUE
    BY DEF QueryInit
  <1>2. stage = "none" /\ AddressInv
    BY <1>1, InitGivesAddressInv DEF AddressInit
  <1>3. <<>> \in Seq(Byte) /\ <<>> \in Seq(Seq(Byte)) /\ 0 \in 0..BufferSize
        /\ KEY_SLOT_1 \in Slots /\ 0 \in Byte
    BY Sizes, SlotsAssumption, SmallBytes
  <1>4. AddressTypeOK
    BY <1>1, <1>3, ZeroesBytes DEF AddressInit, KeyInit, AddressTypeOK
  <1>5. CallTypeOK
    BY <1>1, <1>3 DEF CallTypeOK
  <1> QED
    BY <1>1, <1>2, <1>4, <1>5 DEF QueryInv, BufferInv, ShowInv, KeysInv

\* The invariant of the calls, whatever is lost and whoever else uses the device:
\* what a call holds rests on what the buffer holds, and that on AddressInv.
THEOREM QueryInvariance == QuerySpec => []QueryInv
  <1>1. QueryInv /\ [QueryNext]_queryVars => QueryInv'
    <2> SUFFICES ASSUME QueryInv, [QueryNext]_queryVars PROVE QueryInv'
      OBVIOUS
    <2>1. AddressTypeOK /\ CallTypeOK /\ AddressInv /\ BufferInv /\ ShowInv /\ KeysInv
      BY DEF QueryInv
    <2>2. ByteStep \/ UNCHANGED addressVars
      BY <2>1, StepsOfApp
    <2>3. [AddressStep]_addressVars
      BY <2>2 DEF ByteStep, AddressStep
    <2>4. AddressTypeOK' /\ BufferInv' /\ AddressInv'
      BY <2>1, <2>2, <2>3, TypeOfApp, BufferOfApp, AddressInvInductive
    <2>5. CallTypeOK' /\ ShowInv' /\ KeysInv'
      BY <2>1, TypeOfCalls, ShowInvInductive, KeysInvInductive
    <2> QED
      BY <2>4, <2>5 DEF QueryInv
  <1> QED
    BY <1>1, QueryInitGivesInv, PTL DEF QuerySpec

\* Whatever the transport loses and other programs send, every cell of the buffer
\* holds a byte, and a call has the answers to the commands it has sent.
THEOREM QueryTypeCorrect == QuerySpec => []QueryTypeOK
  <1>1. QueryInv => QueryTypeOK
    BY TypeParts DEF QueryInv
  <1> QED
    BY <1>1, QueryInvariance, PTL

\* Under the calls of the package, too, every page of every review is a part of
\* the address of the public key in use.
THEOREM ReviewsAddress == QuerySpec => [](AddressInv /\ EncodingIsBase64 /\ ReviewShowsAddress)
  <1>1. QueryInv => AddressInv /\ EncodingIsBase64 /\ ReviewShowsAddress
    BY InvGivesEncoding DEF QueryInv, AddressInv
  <1> QED
    BY <1>1, QueryInvariance, PTL

\* What an answer has before its status word.
CarriesOk(response, bytes) == response = bytes \o APDU_CODE_OK

LEMMA FrontOfJoin ==
  ASSUME NEW a \in Seq(Byte), NEW b \in Seq(Byte), NEW s, s = a \o b
  PROVE  Len(s) = Len(a) + Len(b) /\ Len(a) \in Nat /\ SubSeq(s, 1, Len(a)) = a
  <1>1. Len(a \o b) = Len(a) + Len(b) /\ Len(a) \in Nat
    OBVIOUS
  <1>2. SubSeq(a \o b, 1, Len(a)) = a
    OBVIOUS
  <1> QED
    BY <1>1, <1>2

LEMMA FrontOfAnswer ==
  ASSUME NEW bytes \in Seq(Byte), NEW response, CarriesOk(response, bytes)
  PROVE  /\ Len(response) = Len(bytes) + 2
         /\ SubSeq(response, 1, Len(response) - 2) = bytes
         /\ FirstBytes(response, Len(bytes)) = bytes
  <1> DEFINE sw == APDU_CODE_OK
             len == Len(bytes)
  <1>1. sw \in Seq(Byte) /\ Len(sw) = 2 /\ response = bytes \o sw
    BY StatusWords DEF StatusWord, CarriesOk
  <1> HIDE DEF sw
  <1>2. /\ Len(response) = len + 2 /\ len \in Nat
        /\ SubSeq(response, 1, len) = bytes
    <2>1. Len(response) = Len(bytes) + Len(sw) /\ len \in Nat /\ SubSeq(response, 1, len) = bytes
      BY <1>1, FrontOfJoin
    <2> QED
      BY <1>1, <2>1
  <1> HIDE DEF len
  <1>3. Len(response) - 2 = len
    BY <1>2
  <1>4. FirstBytes(response, len) = SubSeq(response, 1, len)
    BY <1>2 DEF FirstBytes
  <1> QED
    BY <1>2, <1>3, <1>4 DEF len

\* showAddress resolves with the text that the user read and approved.
THEOREM ResolvesWithShown == QuerySpec => []ShownIsAnswered
  <1>1. QueryInv => ShownIsAnswered
    <2> SUFFICES ASSUME QueryInv, kind = "showAddress", outcome = "resolved"
                 PROVE  address = confirmed /\ confirmed # <<>>
      BY DEF ShownIsAnswered
    <2>1. CarriesOk(answers[1], confirmed) /\ Len(confirmed) = AddressSize
      BY DEF QueryInv, ShowInv, IsConfirmed, CarriesOk
    <2>2. confirmed \in Seq(Byte) /\ AddressSize \in Nat \ {0}
      BY Sizes DEF QueryInv, CallTypeOK
    <2>3. address = confirmed
      BY <2>1, <2>2, FrontOfAnswer DEF address
    <2>4. confirmed # <<>>
      BY <2>1, <2>2
    <2> QED
      BY <2>3, <2>4
  <1> QED
    BY <1>1, QueryInvariance, PTL

\* getAddress resolves with the address and the public key of one key, if the app
\* has not been stopped since it was called.
THEOREM ResolvesWithOneKey == QuerySpec => []AddressIsOfPubkey
  <1>1. QueryInv => AddressIsOfPubkey
    <2> SUFFICES ASSUME QueryInv, kind = "getAddress", outcome = "resolved", steady
                 PROVE  \E key \in Keys \cup {NoKey} :
                            pubkey = Modulus[key] /\ address = Base64(HashOfPub(key))
      BY DEF AddressIsOfPubkey
    <2>1. PICK key \in Keys \cup {NoKey} : AreOf(answers, key, 3)
      BY DEF QueryInv, KeysInv, ResolvedInv
    <2>2. 1 \in 1..3 /\ 2 \in 1..3 /\ 3 \in 1..3
      OBVIOUS
    <2>3. IsAnswer(answers[1], key, 1) /\ IsAnswer(answers[2], key, 2) /\ IsAnswer(answers[3], key, 3)
      BY <2>1, <2>2 DEF AreOf
    <2>4. /\ CarriesOk(answers[1], AddressOf(key))
          /\ CarriesOk(answers[2], HalfOf(key, 0)) /\ CarriesOk(answers[3], HalfOf(key, 1))
      BY <2>3, Facts DEF CarriesOk
    <2>5. address = AddressOf(key)
      BY <2>4, AddressBytes, FrontOfAnswer DEF address
    <2>6. /\ HalfOf(key, 0) \in Seq(Byte) /\ Len(HalfOf(key, 0)) = RSA_MODULUS_HALVE
          /\ HalfOf(key, 1) \in Seq(Byte) /\ Len(HalfOf(key, 1)) = RSA_MODULUS_HALVE
      BY HalfBytes
    <2>7. /\ FirstBytes(answers[2], RSA_MODULUS_HALVE) = HalfOf(key, 0)
          /\ FirstBytes(answers[3], RSA_MODULUS_HALVE) = HalfOf(key, 1)
      <3>1. FirstBytes(answers[2], Len(HalfOf(key, 0))) = HalfOf(key, 0)
        BY <2>4, <2>6, FrontOfAnswer
      <3>2. FirstBytes(answers[3], Len(HalfOf(key, 1))) = HalfOf(key, 1)
        BY <2>4, <2>6, FrontOfAnswer
      <3> QED
        BY <2>6, <3>1, <3>2
    <2>8. pubkey = HalfOf(key, 0) \o HalfOf(key, 1)
      BY <2>7 DEF pubkey
    <2> QED
      BY <2>5, <2>8, HalvesJoin DEF AddressOf
  <1> QED
    BY <1>1, QueryInvariance, PTL
=============================================================================
