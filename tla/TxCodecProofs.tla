---------------------------- MODULE TxCodecProofs ----------------------------
(***************************************************************************)
(* The parser and the encoder of the package are inverse to each other:    *)
(* what was read is what the package writes for what was found, and no two *)
(* transactions are written alike.                                         *)
(***************************************************************************)
EXTENDS TxReview, TxParserProofs, InductionLemmas

-----------------------------------------------------------------------------
(* The bytes of an element.                                                *)

\* An element is as many bytes as its length says, wherever it points.
LEMMA BytesInSeq ==
  ASSUME buffer \in Seq(Byte), NEW e \in Element
  PROVE  Bytes(e) \in Seq(Byte) /\ Len(Bytes(e)) = e.len
  <1>1. e.len \in Nat /\ e.ptr \in Nat
    BY Words DEF Element
  <1>2. ASSUME NEW o \in Nat PROVE ByteAt(o) \in Byte
    <2>1. CASE o < Len(buffer)
      <3>1. o + 1 \in 1..Len(buffer)
        BY <2>1
      <3> QED
        BY <2>1, <3>1 DEF ByteAt
    <2>2. CASE ~(o < Len(buffer))
      BY <2>2 DEF ByteAt, Byte
    <2> QED
      BY <2>1, <2>2
  <1>3. ASSUME NEW n \in 1..e.len PROVE ByteAt(e.ptr + n - 1) \in Byte
    <2>1. e.ptr + n - 1 \in Nat
      BY <1>1
    <2> QED
      BY <1>2, <2>1
  <1>4. Bytes(e) \in [1..e.len -> Byte]
    BY <1>3 DEF Bytes
  <1> QED
    BY <1>1, <1>4
-----------------------------------------------------------------------------
(* The encoding.                                                           *)

\* What an encoding is made of: bytes, and the two digits of a length.
Octet == Byte \cup 0..(ByteSize - 1)
Octets == Seq(Octet)

\* The digits of a number of 16 bits are those it is written with.
LEMMA DigitsOfNumber ==
  ASSUME NEW B \in Nat \ {0}, NEW n \in 0..(B * B - 1)
  PROVE  ((n \div B) % B) * B + (n % B) = n
  <1>1. n = B * (n \div B) + (n % B) /\ (n % B) \in 0..(B - 1) /\ n \div B \in Nat
    OBVIOUS
  <1>2. n \div B < B
    <2> SUFFICES ASSUME n \div B >= B PROVE FALSE
      BY <1>1
    <2>1. B * (n \div B) >= B * B
      BY <1>1
    <2> QED
      BY <1>1, <2>1
  <1>3. (n \div B) % B = n \div B
    BY <1>1, <1>2
  <1>4. (n \div B) * B + (n % B) = n
    BY <1>1
  <1> QED
    BY <1>3, <1>4

\* And two digits are those of the number they write.
LEMMA NumberOfDigits ==
  ASSUME NEW B \in Nat \ {0}, NEW a \in 0..(B - 1), NEW b \in 0..(B - 1)
  PROVE  LET n == (a * B + b) % (B * B) IN (n \div B) % B = a /\ n % B = b
  <1> DEFINE n == a * B + b
  <1>1. a * B + b < B * B /\ n \in Nat
    <2>1. a * B <= (B - 1) * B
      OBVIOUS
    <2>2. (B - 1) * B = B * B - B
      OBVIOUS
    <2> QED
      BY <2>1, <2>2
  <1>2. n % (B * B) = n
    BY <1>1
  <1>3. n % B = b /\ n \div B = a
    OBVIOUS
  <1>4. a % B = a
    OBVIOUS
  <1> QED
    BY <1>2, <1>3, <1>4

LEMMA JoinOctets ==
  /\ \A a, b \in Octets : a \o b \in Octets /\ Len(a \o b) = Len(a) + Len(b)
  /\ \A a, b, c \in Octets : (a \o b) \o c = a \o (b \o c)
  /\ \A a \in Octets : a \o <<>> = a /\ <<>> \o a = a /\ Len(a) \in Nat
  /\ <<>> \in Octets
  <1>1. \A a, b \in Octets : a \o b \in Octets /\ Len(a \o b) = Len(a) + Len(b)
    BY Concat DEF Octets
  <1>2. \A a, b, c \in Octets : (a \o b) \o c = a \o (b \o c)
    BY Associativity DEF Octets, JoinAssociates
  <1>3. \A a \in Octets : a \o <<>> = a /\ <<>> \o a = a /\ Len(a) \in Nat
    BY ConcatEmptySeq DEF Octets
  <1>4. <<>> \in Octets
    BY DEF Octets
  <1> QED
    BY <1>1, <1>2, <1>3, <1>4

\* Joined is joined, whichever is joined first.
Associate(a, b, c) == (a \o b) \o c = a \o (b \o c)

LEMMA OctetsAssociate ==
  \A a, b, c \in Octets : Associate(a, b, c)
  BY JoinOctets DEF Associate

LEMMA JoinedOctets ==
  \A a, b \in Octets : /\ \A n \in 1..Len(a) : (a \o b)[n] = a[n]
                       /\ \A n \in 1..Len(b) : (a \o b)[Len(a) + n] = b[n]
  BY Concat DEF Octets

\* What was joined of parts of the same lengths was joined of the same parts.
LEMMA Cancel ==
  ASSUME NEW a \in Octets, NEW b \in Octets, NEW x \in Octets, NEW y \in Octets,
         Len(a) = Len(b), a \o x = b \o y
  PROVE  a = b /\ x = y
  <1> DEFINE s == a \o x
             t == b \o y
  <1>1. /\ Len(s) = Len(a) + Len(x) /\ Len(t) = Len(b) + Len(y)
        /\ Len(a) \in Nat /\ Len(x) \in Nat /\ Len(y) \in Nat
        /\ \A n \in 1..Len(a) : s[n] = a[n]
        /\ \A n \in 1..Len(b) : t[n] = b[n]
        /\ \A n \in 1..Len(x) : s[Len(a) + n] = x[n]
        /\ \A n \in 1..Len(y) : t[Len(b) + n] = y[n]
    BY JoinOctets, JoinedOctets
  <1>2. s = t
    OBVIOUS
  <1> HIDE DEF s, t
  <1>3. Len(x) = Len(y) /\ \A n \in 1..Len(x) : x[n] = y[n]
    BY <1>1, <1>2
  <1>4. \A n \in 1..Len(a) : a[n] = b[n]
    BY <1>1, <1>2
  <1>5. x = y
    BY <1>3, SeqEqual DEF Octets
  <1>6. a = b
    BY <1>4, SeqEqual DEF Octets
  <1> QED
    BY <1>5, <1>6

\* A number is written in two digits.
LEMMA EncodedU16 ==
  ASSUME NEW n \in Nat
  PROVE  /\ EncodeU16(n) \in Octets /\ Len(EncodeU16(n)) = 2
         /\ EncodeU16(n)[1] = (n \div ByteSize) % ByteSize
         /\ EncodeU16(n)[2] = n % ByteSize
  <1>1. (n \div ByteSize) % ByteSize \in Octet /\ n % ByteSize \in Octet
    <2>1. n \div ByteSize \in Nat
      BY ByteSizeAssumption
    <2>2. \A m \in Nat : m % ByteSize \in 0..(ByteSize - 1)
      BY ByteSizeAssumption
    <2> QED
      BY <2>1, <2>2 DEF Octet
  <1> QED
    BY <1>1 DEF EncodeU16, Octets

\* A string that is a part and what comes behind it.
Leads(part, rest, s) == s = part \o rest

\* No two numbers of 16 bits are written alike.
LEMMA CancelU16 ==
  ASSUME NEW m \in Nat, NEW n \in Nat, m < U16, n < U16,
         NEW x \in Octets, NEW y \in Octets, NEW s,
         Leads(EncodeU16(m), x, s), Leads(EncodeU16(n), y, s)
  PROVE  m = n /\ x = y
  <1> DEFINE u == EncodeU16(m)
             v == EncodeU16(n)
  <1>a. /\ u \in Octets /\ v \in Octets /\ Len(u) = 2 /\ Len(v) = 2
        /\ u[1] = (m \div ByteSize) % ByteSize /\ u[2] = m % ByteSize
        /\ v[1] = (n \div ByteSize) % ByteSize /\ v[2] = n % ByteSize
    BY EncodedU16
  <1>b. u \o x = v \o y
    BY DEF Leads
  <1> HIDE DEF u, v
  <1>1. u = v /\ x = y
    <2>1. u \in Octets /\ v \in Octets /\ Len(u) = Len(v)
      BY <1>a
    <2> QED
      BY <1>b, <2>1, Cancel
  <1>2. (m \div ByteSize) % ByteSize = (n \div ByteSize) % ByteSize /\ m % ByteSize = n % ByteSize
    BY <1>1, <1>a
  <1>3. ASSUME NEW k \in Nat, k < U16
        PROVE  ((k \div ByteSize) % ByteSize) * ByteSize + (k % ByteSize) = k
    <2>1. k \in 0..(ByteSize * ByteSize - 1)
      BY <1>3, ByteSizeAssumption DEF U16
    <2> QED
      BY <2>1, ByteSizeAssumption, DigitsOfNumber
  <1>4. m = n
    BY <1>2, <1>3
  <1> QED
    BY <1>1, <1>4

LEMMA EncodedWithLen ==
  ASSUME NEW a \in Octets
  PROVE  EncodeWithLen(a) \in Octets /\ Len(EncodeWithLen(a)) = Len(a) + 2
  <1>1. Len(a) \in Nat
    BY JoinOctets
  <1> DEFINE u == EncodeU16(Len(a))
  <1>2. u \in Octets /\ Len(u) = 2 /\ EncodeWithLen(a) = u \o a
    BY <1>1, EncodedU16 DEF EncodeWithLen
  <1> HIDE DEF u
  <1>3. u \o a \in Octets /\ Len(u \o a) = Len(u) + Len(a)
    BY <1>2, JoinOctets
  <1> QED
    BY <1>1, <1>2, <1>3

\* Where two strings begin with an element each, and the elements are short
\* enough for their lengths, they begin with the same and go on alike.
LEMMA CancelElement ==
  ASSUME NEW a \in Octets, NEW b \in Octets, NEW x \in Octets, NEW y \in Octets,
         NEW s, Leads(EncodeWithLen(a), x, s), Leads(EncodeWithLen(b), y, s),
         Len(a) < U16, Len(s) < U16
  PROVE  a = b /\ x = y /\ Len(y) < U16
  <1> DEFINE u == EncodeU16(Len(a))
             v == EncodeU16(Len(b))
             w == EncodeWithLen(b)
  <1>1. Len(a) \in Nat /\ Len(b) \in Nat /\ Len(y) \in Nat /\ U16 \in Nat
    BY JoinOctets, Words
  <1>2. u \in Octets /\ v \in Octets /\ w \in Octets /\ Len(w) = Len(b) + 2
    BY <1>1, EncodedU16, EncodedWithLen
  <1>3. w = v \o b /\ EncodeWithLen(a) = u \o a
    BY DEF EncodeWithLen
  <1>4. s = (u \o a) \o x /\ s = w \o y
    BY <1>3 DEF Leads
  <1> HIDE DEF u, v, w
  <1>5. Len(w \o y) = Len(w) + Len(y)
    BY <1>2, JoinOctets
  <1>6. Len(b) < U16 /\ Len(y) < U16
    BY <1>1, <1>2, <1>4, <1>5
  <1>7. /\ (u \o a) \o x = u \o (a \o x) /\ (v \o b) \o y = v \o (b \o y)
        /\ a \o x \in Octets /\ b \o y \in Octets
    <2>1. Associate(u, a, x) /\ Associate(v, b, y)
      BY <1>2, OctetsAssociate
    <2>2. (u \o a) \o x = u \o (a \o x) /\ (v \o b) \o y = v \o (b \o y)
      BY <2>1 DEF Associate
    <2>3. a \o x \in Octets /\ b \o y \in Octets
      BY JoinOctets
    <2> QED
      BY <2>2, <2>3
  <1> DEFINE m == Len(a)
             n == Len(b)
             p == a \o x
             q == b \o y
  <1>9. m \in Nat /\ n \in Nat /\ m < U16 /\ n < U16 /\ p \in Octets /\ q \in Octets
    BY <1>1, <1>6, <1>7
  <1>10. Leads(EncodeU16(m), p, s) /\ Leads(EncodeU16(n), q, s)
    BY <1>3, <1>4, <1>7 DEF u, v, Leads
  <1> HIDE DEF m, n, p, q
  <1>11. m = n /\ p = q
    BY <1>9, <1>10, CancelU16
  <1> QED
    BY <1>6, <1>11, Cancel DEF m, n, p, q
-----------------------------------------------------------------------------
(* What is read is what was written.                                       *)

\* A string of bytes is made of octets.
LEMMA BytesAreOctets ==
  Seq(Byte) \subseteq Octets
  <1>1. Byte \subseteq Octet
    BY DEF Octet
  <1> QED
    BY <1>1, SeqMonotonic DEF Octets

\* Two bytes of the buffer are the number read there, written.
LEMMA NumberRead ==
  ASSUME ByteSize = 256, buffer \in Seq(Byte), NEW o \in Nat, o + 2 <= Len(buffer)
  PROVE  SubSeq(buffer, o + 1, o + 2) = EncodeU16(U16At(o))
  <1> DEFINE a == ByteAt(o)
             b == ByteAt(o + 1)
             s == SubSeq(buffer, o + 1, o + 2)
  <1>1. o + 1 \in 1..Len(buffer) /\ o + 2 \in 1..Len(buffer) /\ (o + 1) + 1 = o + 2
    OBVIOUS
  <1>2. a = buffer[o + 1] /\ b = buffer[o + 2] /\ a \in Byte /\ b \in Byte
    BY <1>1 DEF ByteAt
  <1>3. s \in Seq(Byte) /\ Len(s) = 2 /\ s[1] = buffer[o + 1] /\ s[2] = buffer[o + 2]
    BY <1>1
  <1> HIDE DEF a, b, s
  <1>4. a \in 0..(ByteSize - 1) /\ b \in 0..(ByteSize - 1)
    BY <1>2 DEF Byte
  <1>5. U16At(o) = (a * ByteSize + b) % (ByteSize * ByteSize)
    BY DEF U16At, U16, a, b
  <1> DEFINE n == U16At(o)
  <1>6. (n \div ByteSize) % ByteSize = a /\ n % ByteSize = b
    <2> DEFINE B == ByteSize
               k == (a * B + b) % (B * B)
    <2>1. (k \div B) % B = a /\ k % B = b
      <3> B \in Nat \ {0} /\ a \in 0..(B - 1) /\ b \in 0..(B - 1)
        BY <1>4, ByteSizeAssumption
      <3> HIDE DEF B
      <3> QED
        BY NumberOfDigits
    <2>2. n = k
      BY <1>5
    <2> HIDE DEF k
    <2> QED
      BY <2>1, <2>2
  <1> HIDE DEF n
  <1>7. EncodeU16(n) = <<a, b>>
    BY <1>6 DEF EncodeU16
  <1>8. s = <<a, b>>
    BY <1>2, <1>3
  <1> QED
    BY <1>7, <1>8 DEF n, s

\* The bytes of an element are a part of the buffer.
LEMMA ElementRead ==
  ASSUME buffer \in Seq(Byte), NEW e \in Element, e.ptr + e.len <= Len(buffer)
  PROVE  SubSeq(buffer, e.ptr + 1, e.ptr + e.len) = Bytes(e)
  <1> DEFINE s == SubSeq(buffer, e.ptr + 1, e.ptr + e.len)
  <1>1. e.ptr \in Nat /\ e.len \in Nat
    BY Words DEF Element
  <1>2. Bytes(e) \in Seq(Byte) /\ Len(Bytes(e)) = e.len
    BY BytesInSeq
  <1>3. ASSUME NEW n \in 1..e.len
        PROVE  /\ e.ptr + n \in 1..Len(buffer)
               /\ Bytes(e)[n] = buffer[e.ptr + n]
    <2>1. e.ptr + n \in 1..Len(buffer) /\ (e.ptr + n - 1) + 1 = e.ptr + n
      BY <1>1
    <2>2. Bytes(e)[n] = ByteAt(e.ptr + n - 1)
      BY DEF Bytes
    <2>3. e.ptr + n - 1 < Len(buffer)
      BY <1>1, <2>1
    <2> QED
      BY <2>1, <2>2, <2>3 DEF ByteAt
  <1>4. /\ s \in Seq(Byte) /\ Len(s) = e.len
        /\ \A n \in 1..e.len : s[n] = buffer[e.ptr + n]
    <2> DEFINE m == e.ptr + 1
               last == e.ptr + e.len
    <2>1. /\ m \in Int /\ last \in Int /\ m <= last + 1 /\ last - m + 1 = e.len
          /\ \A n \in m..last : n \in 1..Len(buffer)
          /\ \A n \in 1..e.len : m + n - 1 = e.ptr + n
      BY <1>1
    <2>2. \A n \in m..last : buffer[n] \in Byte
      BY <2>1
    <2>a. s = SubSeq(buffer, m, last)
      OBVIOUS
    <2> HIDE DEF m, last, s
    <2>3. /\ s \in Seq(Byte) /\ Len(s) = IF m <= last THEN last - m + 1 ELSE 0
          /\ \A n \in 1..(last - m + 1) : s[n] = buffer[m + n - 1]
      BY <2>1, <2>2, <2>a, SubSeqProperties
    <2>4. Len(s) = e.len
      BY <1>1, <2>1, <2>3
    <2> QED
      BY <2>1, <2>3, <2>4
  <1> HIDE DEF s
  <1>5. \A n \in 1..Len(s) : s[n] = Bytes(e)[n]
    BY <1>3, <1>4
  <1>6. s = Bytes(e)
    BY <1>2, <1>4, <1>5, SeqEqual
  <1> QED
    BY <1>6 DEF s

\* The first o bytes of the buffer.
BufferTo(o) == SubSeq(buffer, 1, o)

\* Two parts of the buffer side by side.
LEMMA BufferParts ==
  ASSUME buffer \in Seq(Byte), NEW o \in Nat, NEW p \in Nat, o <= p, p <= Len(buffer)
  PROVE  BufferTo(p) = BufferTo(o) \o SubSeq(buffer, o + 1, p) /\ BufferTo(p) \in Octets
  <1>1. Len(buffer) \in Nat
    OBVIOUS
  <1>2. 1 \in 1..(Len(buffer) + 1) /\ o \in (1 - 1)..Len(buffer) /\ p \in o..Len(buffer)
    BY <1>1
  <1>3. BufferTo(p) = BufferTo(o) \o SubSeq(buffer, o + 1, p)
    BY <1>2, ConcatAdjacentSubSeq DEF BufferTo
  <1>4. BufferTo(p) \in Seq(Byte)
    BY <1>1 DEF BufferTo
  <1> QED
    BY <1>3, <1>4, BytesAreOctets

\* A number that is read adds its encoding to what was read.
LEMMA NumberAdds ==
  ASSUME ByteSize = 256, buffer \in Seq(Byte), NEW o \in Nat, o + 2 <= Len(buffer)
  PROVE  BufferTo(o + 2) = BufferTo(o) \o EncodeU16(U16At(o))
  <1>1. o + 2 \in Nat /\ o <= o + 2
    OBVIOUS
  <1> QED
    BY <1>1, NumberRead, BufferParts

\* So does an element.
LEMMA ElementAdds ==
  ASSUME ByteSize = 256, buffer \in Seq(Byte), offset \in Word, NEW e \in Element,
         ReadElement(e).ok
  PROVE  LET r == ReadElement(e)
         IN BufferTo(r.offset) = BufferTo(offset) \o EncodeWithLen(Bytes(r.element))
  <1> DEFINE r == ReadElement(e)
             len == U16At(offset)
             el == [ptr |-> offset + 2, len |-> len]
  <1>1. offset \in Nat /\ bufferLen <= Len(buffer) /\ Len(buffer) \in Nat /\ bufferLen \in Nat
    <2>1. Len(buffer) \in Nat
      OBVIOUS
    <2>2. offset \in Nat /\ bufferLen <= Len(buffer) /\ bufferLen \in Nat
      BY BufferLen, Words
    <2> QED
      BY <2>1, <2>2
  <1>2. len \in Word /\ len \in Nat
    BY <1>1, Words, U16AtWord
  <1>3. Available(offset, 2) /\ Available(offset + 2, len)
    BY DEF ReadElement
  <1>4. r.offset = offset + 2 + len /\ r.element = el
    BY <1>3 DEF ReadElement
  <1>5. offset + 2 <= Len(buffer) /\ offset + 2 + len <= Len(buffer)
    BY <1>1, <1>2, <1>3 DEF Available
  <1>6. el \in Element
    BY <1>1, <1>2 DEF Element
  <1>7. Bytes(el) = SubSeq(buffer, offset + 2 + 1, offset + 2 + len)
    BY <1>5, <1>6, ElementRead
  <1>8. Bytes(el) \in Octets /\ Len(Bytes(el)) = len
    BY <1>6, BytesInSeq, BytesAreOctets
  <1> HIDE DEF el, len, r
  <1> DEFINE p == offset + 2
             q == p + len
             u == EncodeU16(len)
             bytes == Bytes(el)
  <1>9. p \in Nat /\ q \in Nat /\ p <= q /\ q <= Len(buffer) /\ p <= Len(buffer)
    BY <1>1, <1>2, <1>5
  <1>10. BufferTo(q) = BufferTo(p) \o bytes
    <2> HIDE DEF p
    <2>1. bytes = SubSeq(buffer, p + 1, q)
      BY <1>7 DEF p
    <2> QED
      BY <1>9, <2>1, BufferParts
  <1>11. BufferTo(p) = BufferTo(offset) \o u
    BY <1>1, <1>5, NumberAdds DEF len
  <1>12. BufferTo(offset) \in Octets /\ u \in Octets /\ bytes \in Octets
    <2>1. BufferTo(offset) \in Octets
      BY <1>1, <1>5, BufferParts
    <2> QED
      BY <1>2, <1>8, <2>1, EncodedU16
  <1>13. EncodeWithLen(bytes) = u \o bytes
    BY <1>8 DEF EncodeWithLen
  <1> HIDE DEF p, q, u, bytes
  <1>14. BufferTo(q) = BufferTo(offset) \o (u \o bytes)
    <2>1. Associate(BufferTo(offset), u, bytes)
      BY <1>12, OctetsAssociate
    <2> QED
      BY <1>10, <1>11, <2>1 DEF Associate
  <1> QED
    BY <1>4, <1>13, <1>14 DEF r, p, q, bytes
-----------------------------------------------------------------------------
(* What has been read, at each place of _read.                             *)

Written(f) == EncodeWithLen(Bytes(element[f]))

TagRead(n) == [name |-> Bytes(tagKey[n - 1]), value |-> Bytes(tagValue[n - 1])]

\* The first k tags.
TagsWritten(k) == FlattenSeq([n \in 1..k |-> EncodeTag(TagRead(n))])

ToOwner == Written("format") \o Written("owner")
ToReward == ToOwner \o Written("target") \o Written("quantity") \o Written("reward")
ToTags == ToReward \o Written("last_tx") \o EncodeU16(tags_count) \o TagsWritten(i)

ReadBefore(p) ==
    CASE p = "format" -> <<>>
      [] p = "owner" -> Written("format")
      [] p = "target" -> ToOwner
      [] p = "quantity" -> ToOwner \o Written("target")
      [] p = "reward" -> ToOwner \o Written("target") \o Written("quantity")
      [] p = "last_tx" -> ToReward
      [] p = "tags_count" -> ToReward \o Written("last_tx")
      [] p \in {"tag_key", "data_size"} -> ToTags
      [] p = "tag_value" -> ToTags \o EncodeWithLen(Bytes(tagKey[i]))
      [] p = "data_root" -> ToTags \o Written("data_size")
      [] p = "ok" -> ToTags \o Written("data_size") \o Written("data_root")

\* Up to the place it has reached, the parser has read what the package writes
\* for the fields and tags it has found, and nothing else.
EncodedInv ==
    \A p \in Places \ {"idle", "failed"} : pc = p => BufferTo(offset) = ReadBefore(p)

\* Encoded fields are strings of octets.
LEMMA WrittenOctets ==
  TypeOK => \A f \in Fields : Written(f) \in Octets
  <1> SUFFICES ASSUME TypeOK, NEW f \in Fields PROVE Written(f) \in Octets
    OBVIOUS
  <1>1. buffer \in Seq(Byte) /\ element[f] \in Element
    BY DEF TypeOK
  <1>2. Bytes(element[f]) \in Octets
    BY <1>1, BytesInSeq, BytesAreOctets
  <1> QED
    BY <1>2, EncodedWithLen DEF Written

\* A tag is encoded in at least the four bytes of its lengths.
LEMMA EncodedTag ==
  ASSUME NEW name \in Octets, NEW value \in Octets
  PROVE  LET tag == [name |-> name, value |-> value]
         IN EncodeTag(tag) \in Octets /\ Len(EncodeTag(tag)) >= 4
  <1> DEFINE u == EncodeWithLen(name)
             v == EncodeWithLen(value)
             tag == [name |-> name, value |-> value]
  <1>1. u \in Octets /\ v \in Octets /\ Len(u) >= 2 /\ Len(v) >= 2
        /\ Len(u) \in Nat /\ Len(v) \in Nat
    <2>1. Len(name) \in Nat /\ Len(value) \in Nat
      BY JoinOctets
    <2>2. u \in Octets /\ v \in Octets /\ Len(u) = Len(name) + 2 /\ Len(v) = Len(value) + 2
      BY EncodedWithLen
    <2> QED
      BY <2>1, <2>2
  <1>2. EncodeTag(tag) = u \o v
    BY DEF EncodeTag
  <1> HIDE DEF u, v, tag
  <1>3. u \o v \in Octets /\ Len(u \o v) = Len(u) + Len(v)
    BY <1>1, JoinOctets
  <1>4. EncodeTag(tag) \in Octets /\ Len(EncodeTag(tag)) >= 4
    BY <1>1, <1>2, <1>3
  <1> QED
    BY <1>4 DEF tag

\* So are the tags.
LEMMA TagsWrittenOctets ==
  ASSUME TypeOK, NEW k \in 0..MaxTags
  PROVE  LET tags == [n \in 1..k |-> EncodeTag(TagRead(n))]
         IN /\ tags \in Seq(Octets) /\ Len(tags) = k
            /\ TagsWritten(k) \in Octets
            /\ k = 0 => TagsWritten(k) = <<>>
  <1> DEFINE tags == [n \in 1..k |-> EncodeTag(TagRead(n))]
  <1>1. ASSUME NEW n \in 1..k PROVE EncodeTag(TagRead(n)) \in Octets
    <2>1. n - 1 \in Tags
      BY SizesAssumption DEF Tags
    <2>2. buffer \in Seq(Byte) /\ tagKey[n - 1] \in Element /\ tagValue[n - 1] \in Element
      BY <2>1 DEF TypeOK
    <2>3. Bytes(tagKey[n - 1]) \in Octets /\ Bytes(tagValue[n - 1]) \in Octets
      BY <2>2, BytesInSeq, BytesAreOctets
    <2> QED
      BY <2>3, EncodedTag DEF TagRead
  <1>2. k \in Nat
    BY SizesAssumption
  <1>3. tags \in Seq(Octets) /\ Len(tags) = k
    BY <1>1, <1>2
  <1>4. TagsWritten(k) = FlattenSeq(tags)
    BY DEF TagsWritten
  <1>5. k = 0 => tags = <<>>
    BY <1>3
  <1> HIDE DEF tags
  <1>6. FlattenSeq(tags) \in Octets /\ (k = 0 => FlattenSeq(tags) = <<>>)
    BY <1>3, <1>5, FlattenInSeq DEF Octets
  <1> QED
    BY <1>3, <1>4, <1>6 DEF tags

\* One more tag adds its encoding.
LEMMA TagAdds ==
  ASSUME TypeOK, NEW k \in 0..MaxTags, k + 1 <= MaxTags
  PROVE  TagsWritten(k + 1) = TagsWritten(k) \o EncodeTag(TagRead(k + 1))
  <1> DEFINE s == [n \in 1..k |-> EncodeTag(TagRead(n))]
             t == [n \in 1..(k + 1) |-> EncodeTag(TagRead(n))]
  <1>1. k \in Nat /\ k + 1 \in 0..MaxTags
    BY SizesAssumption
  <1>2. s \in Seq(Octets) /\ Len(s) = k /\ TagsWritten(k) = FlattenSeq(s)
    BY TagsWrittenOctets DEF TagsWritten
  <1>3. t \in Seq(Octets) /\ Len(t) = k + 1 /\ TagsWritten(k + 1) = FlattenSeq(t)
    BY <1>1, TagsWrittenOctets DEF TagsWritten
  <1>4. /\ \A n \in 1..k : t[n] = s[n]
        /\ t[k + 1] = EncodeTag(TagRead(k + 1))
    BY <1>1
  <1> HIDE DEF s, t
  <1>5. FlattenSeq(t) = FlattenSeq(s) \o t[Len(t)]
    BY <1>2, <1>3, <1>4, FlattenLast DEF Octets
  <1> QED
    BY <1>2, <1>3, <1>4, <1>5

\* What was read before the tags, and with them.
LEMMA ToTagsOctets ==
  TypeOK => /\ ToReward \in Octets /\ ToReward \o Written("last_tx") \in Octets
            /\ ToReward \o Written("last_tx") \o EncodeU16(tags_count) \in Octets
            /\ ToTags \in Octets
  <1> SUFFICES ASSUME TypeOK
               PROVE  /\ ToReward \in Octets /\ ToReward \o Written("last_tx") \in Octets
                      /\ ToReward \o Written("last_tx") \o EncodeU16(tags_count) \in Octets
                      /\ ToTags \in Octets
    OBVIOUS
  <1>1. /\ Written("format") \in Octets /\ Written("owner") \in Octets
        /\ Written("target") \in Octets /\ Written("quantity") \in Octets
        /\ Written("reward") \in Octets /\ Written("last_tx") \in Octets
    BY WrittenOctets DEF Fields
  <1>2. EncodeU16(tags_count) \in Octets /\ TagsWritten(i) \in Octets
    BY Words, EncodedU16, TagsWrittenOctets DEF TypeOK
  <1>3. ToOwner \in Octets
    BY <1>1, JoinOctets DEF ToOwner
  <1>4. ToOwner \o Written("target") \in Octets
    BY <1>1, <1>3, JoinOctets
  <1>5. ToOwner \o Written("target") \o Written("quantity") \in Octets
    BY <1>1, <1>4, JoinOctets
  <1>6. ToReward \in Octets
    BY <1>1, <1>5, JoinOctets DEF ToReward
  <1>7. ToReward \o Written("last_tx") \in Octets
    BY <1>1, <1>6, JoinOctets
  <1>8. ToReward \o Written("last_tx") \o EncodeU16(tags_count) \in Octets
    BY <1>2, <1>7, JoinOctets
  <1>9. ToTags \in Octets
    BY <1>2, <1>8, JoinOctets DEF ToTags
  <1> QED
    BY <1>6, <1>7, <1>8, <1>9

\* A field follows what was read before it.
LEMMA FieldFollows ==
  TypeOK => \A f \in Fields : ReadBefore(After[f]) = ReadBefore(f) \o Written(f)
  <1> SUFFICES ASSUME TypeOK, NEW f \in Fields
               PROVE  ReadBefore(After[f]) = ReadBefore(f) \o Written(f)
    OBVIOUS
  <1>1. CASE f = "format"
    <2>1. ReadBefore(After[f]) = Written(f) /\ ReadBefore(f) = <<>>
      BY <1>1 DEF ReadBefore, After
    <2> QED
      BY <2>1, WrittenOctets, JoinOctets
  <1>2. CASE f = "owner"
    BY <1>2 DEF ReadBefore, After, ToOwner
  <1>3. CASE f = "target"
    BY <1>3 DEF ReadBefore, After
  <1>4. CASE f = "quantity"
    BY <1>4 DEF ReadBefore, After
  <1>5. CASE f = "reward"
    BY <1>5 DEF ReadBefore, After, ToReward
  <1>6. CASE f = "last_tx"
    BY <1>6 DEF ReadBefore, After
  <1>7. CASE f = "data_size"
    BY <1>7 DEF ReadBefore, After
  <1>8. CASE f = "data_root"
    BY <1>8 DEF ReadBefore, After
  <1> QED
    BY <1>1, <1>2, <1>3, <1>4, <1>5, <1>6, <1>7, <1>8 DEF Fields

\* Reading a field changes nothing of what was read before it.
LEMMA BeforeFieldStays ==
  ASSUME NEW f \in Fields, \A g \in Fields : g # f => Written(g)' = Written(g),
         UNCHANGED <<tags_count, i>>, TagsWritten(i)' = TagsWritten(i)
  PROVE  ReadBefore(f)' = ReadBefore(f)
  <1>1. CASE f = "format"
    BY <1>1 DEF ReadBefore
  <1>2. CASE f = "owner"
    BY <1>2 DEF ReadBefore, Fields
  <1>3. CASE f = "target"
    BY <1>3 DEF ReadBefore, Fields, ToOwner
  <1>4. CASE f = "quantity"
    BY <1>4 DEF ReadBefore, Fields, ToOwner
  <1>5. CASE f = "reward"
    BY <1>5 DEF ReadBefore, Fields, ToOwner
  <1>6. CASE f = "last_tx"
    BY <1>6 DEF ReadBefore, Fields, ToOwner, ToReward
  <1>7. CASE f = "data_size"
    BY <1>7 DEF ReadBefore, Fields, ToOwner, ToReward, ToTags
  <1>8. CASE f = "data_root"
    BY <1>8 DEF ReadBefore, Fields, ToOwner, ToReward, ToTags
  <1> QED
    BY <1>1, <1>2, <1>3, <1>4, <1>5, <1>6, <1>7, <1>8 DEF Fields

\* Both hold after a step that keeps the types.
LEMMA FieldFollowsNext ==
  (TypeOK => \A f \in Fields : ReadBefore(After[f]) = ReadBefore(f) \o Written(f))'
  BY FieldFollows, PTL

LEMMA ToTagsOctetsNext ==
  (TypeOK => /\ ToReward \in Octets /\ ToReward \o Written("last_tx") \in Octets
             /\ ToReward \o Written("last_tx") \o EncodeU16(tags_count) \in Octets
             /\ ToTags \in Octets)'
  BY ToTagsOctets, PTL

\* Reading a field adds its encoding.
LEMMA ReadFieldEncoded ==
  ASSUME ByteSize = 256, ParserInv, EncodedInv, NEW f \in Fields, ReadField(f)
  PROVE  EncodedInv'
  <1> DEFINE r == ReadElement(element[f])
  <1>1. TypeOK /\ TypeOK'
    BY ReadFieldInv DEF ParserInv
  <1>2. /\ pc = f /\ element' = [element EXCEPT ![f] = r.element] /\ offset' = r.offset
        /\ pc' = IF r.ok /\ Accepted(f, r.element) THEN After[f] ELSE "failed"
        /\ UNCHANGED <<buffer, tags_count, tagKey, tagValue, i, parses>>
    BY DEF ReadField
  <1>3. SUFFICES ASSUME NEW p \in Places \ {"idle", "failed"}, pc' = p
                 PROVE  BufferTo(offset)' = ReadBefore(p)'
    BY DEF EncodedInv
  <1>4. r.ok /\ p = After[f]
    BY <1>2, <1>3
  <1>5. element[f] \in Element /\ buffer \in Seq(Byte) /\ offset \in Word
    BY <1>1 DEF TypeOK
  <1>6. BufferTo(r.offset) = BufferTo(offset) \o EncodeWithLen(Bytes(r.element))
    BY <1>4, <1>5, ElementAdds
  <1>7. BufferTo(offset) = ReadBefore(f)
    BY <1>2 DEF EncodedInv, Fields, Places
  <1> HIDE DEF r
  <1>8. element'[f] = r.element /\ \A g \in Fields : g # f => element'[g] = element[g]
    BY <1>1, <1>2 DEF TypeOK
  <1>9. Written(f)' = EncodeWithLen(Bytes(r.element))
    <2>1. Bytes(element[f])' = Bytes(r.element)
      BY <1>2, <1>8 DEF Bytes, ByteAt
    <2> QED
      BY <2>1 DEF Written, EncodeWithLen, EncodeU16
  <1>10. ASSUME NEW g \in Fields, g # f PROVE Written(g)' = Written(g)
    <2>1. Bytes(element[g])' = Bytes(element[g])
      BY <1>2, <1>8, <1>10 DEF Bytes, ByteAt
    <2> QED
      BY <2>1 DEF Written, EncodeWithLen, EncodeU16
  <1>11. TagsWritten(i)' = TagsWritten(i)
    BY <1>2 DEF TagsWritten, TagRead, EncodeTag, EncodeWithLen, EncodeU16, Bytes, ByteAt
  <1>12. ReadBefore(f)' = ReadBefore(f)
    BY <1>2, <1>10, <1>11, BeforeFieldStays
  <1>13. ReadBefore(After[f])' = ReadBefore(f)' \o Written(f)'
    BY <1>1, FieldFollowsNext
  <1>14. BufferTo(offset)' = BufferTo(r.offset)
    BY <1>2 DEF BufferTo
  <1> QED
    BY <1>4, <1>6, <1>7, <1>9, <1>12, <1>13, <1>14

\* Reading the number of tags adds it.
LEMMA ReadTagsCountEncoded ==
  ASSUME ByteSize = 256, ParserInv, EncodedInv, ReadTagsCount
  PROVE  EncodedInv'
  <1>1. TypeOK /\ TypeOK'
    BY ReadTagsCountInv DEF ParserInv
  <1>2. /\ pc = "tags_count" /\ i' = 0
        /\ UNCHANGED <<buffer, element, tagKey, tagValue, parses>>
    BY DEF ReadTagsCount
  <1>3. SUFFICES ASSUME NEW p \in Places \ {"idle", "failed"}, pc' = p
                 PROVE  BufferTo(offset)' = ReadBefore(p)'
    BY DEF EncodedInv
  <1>4. /\ Available(offset, 2) /\ tags_count' = U16At(offset) /\ offset' = offset + 2
        /\ p \in {"tag_key", "data_size"}
    BY <1>3 DEF ReadTagsCount, TagsOrSize
  <1>5. buffer \in Seq(Byte) /\ offset \in Nat /\ offset + 2 <= Len(buffer)
    <2>1. buffer \in Seq(Byte) /\ offset \in Nat
      BY <1>1, Words DEF TypeOK
    <2>2. bufferLen \in Nat /\ bufferLen <= Len(buffer) /\ Len(buffer) \in Nat
      <3>1. Len(buffer) \in Nat
        BY <2>1
      <3> QED
        BY <2>1, <3>1, BufferLen, Words
    <2> QED
      BY <1>4, <2>1, <2>2 DEF Available
  <1>6. BufferTo(offset + 2) = BufferTo(offset) \o EncodeU16(U16At(offset))
    BY <1>5, NumberAdds
  <1>7. BufferTo(offset) = ToReward \o Written("last_tx")
    <2>1. BufferTo(offset) = ReadBefore("tags_count")
      BY <1>2 DEF EncodedInv, Places
    <2> QED
      BY <2>1 DEF ReadBefore
  <1>8. ToReward' = ToReward /\ Written("last_tx")' = Written("last_tx")
    BY <1>2 DEF ToReward, ToOwner, Written, EncodeWithLen, EncodeU16, Bytes, ByteAt
  <1> DEFINE before == ToReward \o Written("last_tx") \o EncodeU16(tags_count)
  <1>9. before' \in Octets /\ ToTags' \in Octets
    BY <1>1, ToTagsOctetsNext
  <1>10. ReadBefore(p)' = ToTags'
    <2>1. CASE p = "tag_key"
      BY <2>1 DEF ReadBefore
    <2>2. CASE p = "data_size"
      BY <2>2 DEF ReadBefore
    <2> QED
      BY <1>4, <2>1, <2>2
  <1>11. TagsWritten(i)' = <<>>
    <2>1. [n \in 1..i |-> EncodeTag(TagRead(n))]' = <<>>
      BY <1>2
    <2>2. TagsWritten(i)' = FlattenSeq(<<>>)
      BY <2>1 DEF TagsWritten
    <2>3. <<>> \in Seq(Seq(Octet))
      OBVIOUS
    <2> QED
      BY <2>2, <2>3, FlattenInSeq
  <1>12. before' = BufferTo(offset) \o EncodeU16(U16At(offset))
    BY <1>4, <1>7, <1>8 DEF EncodeU16
  <1>13. ToTags' = before' \o TagsWritten(i)'
    BY DEF ToTags
  <1>14. BufferTo(offset)' = BufferTo(offset + 2)
    BY <1>2, <1>4 DEF BufferTo
  <1> HIDE DEF before
  <1>15. before' \o <<>> = before'
    BY <1>9, JoinOctets
  <1> QED
    BY <1>6, <1>10, <1>11, <1>12, <1>13, <1>14, <1>15

LEMMA TagAddsNext ==
  (TypeOK => \A k \in 0..MaxTags : k + 1 <= MaxTags =>
     TagsWritten(k + 1) = TagsWritten(k) \o EncodeTag(TagRead(k + 1)))'
  <1>1. TypeOK => \A k \in 0..MaxTags : k + 1 <= MaxTags =>
          TagsWritten(k + 1) = TagsWritten(k) \o EncodeTag(TagRead(k + 1))
    BY TagAdds
  <1> QED
    BY <1>1, PTL

\* Reading the tag k + 1 changes nothing of the k before it.
LEMMA TagsBeforeStay ==
  ASSUME NEW k \in Nat, buffer' = buffer,
         \A n \in 1..k : tagKey'[n - 1] = tagKey[n - 1] /\ tagValue'[n - 1] = tagValue[n - 1]
  PROVE  TagsWritten(k)' = TagsWritten(k)
  <1>1. ASSUME NEW n \in 1..k PROVE EncodeTag(TagRead(n))' = EncodeTag(TagRead(n))
    <2>1. /\ Bytes(tagKey[n - 1])' = Bytes(tagKey[n - 1])
          /\ Bytes(tagValue[n - 1])' = Bytes(tagValue[n - 1])
      BY DEF Bytes, ByteAt
    <2> QED
      BY <2>1 DEF TagRead, EncodeTag, EncodeWithLen, EncodeU16
  <1>2. [n \in 1..k |-> EncodeTag(TagRead(n))]' = [n \in 1..k |-> EncodeTag(TagRead(n))]
    BY <1>1
  <1> QED
    BY <1>2 DEF TagsWritten

\* Reading the name of a tag adds it.
LEMMA ReadTagKeyEncoded ==
  ASSUME ByteSize = 256, ParserInv, EncodedInv, ReadTagKey
  PROVE  EncodedInv'
  <1> DEFINE r == ReadElement(tagKey[i])
  <1>1. TypeOK /\ TagsRead
    BY DEF ParserInv
  <1>2. /\ pc = "tag_key" /\ tagKey' = [tagKey EXCEPT ![i] = r.element] /\ offset' = r.offset
        /\ pc' = IF r.ok THEN "tag_value" ELSE "failed"
        /\ UNCHANGED <<buffer, element, tags_count, tagValue, i, parses>>
    BY DEF ReadTagKey
  <1>3. SUFFICES ASSUME NEW p \in Places \ {"idle", "failed"}, pc' = p
                 PROVE  BufferTo(offset)' = ReadBefore(p)'
    BY DEF EncodedInv
  <1>4. r.ok /\ p = "tag_value"
    BY <1>2, <1>3
  <1>5. i \in Nat /\ i \in Tags /\ tags_count \in Nat
    <2>1. i \in Nat /\ tags_count \in Nat /\ MaxTags \in Nat
      BY <1>1, SizesAssumption, Words DEF TypeOK
    <2>2. i < tags_count /\ tags_count <= MaxTags
      BY <1>1, <1>2, Ranks DEF TagsRead
    <2> QED
      BY <2>1, <2>2 DEF Tags
  <1>6. tagKey[i] \in Element /\ buffer \in Seq(Byte) /\ offset \in Word
    BY <1>1, <1>5 DEF TypeOK
  <1>7. BufferTo(r.offset) = BufferTo(offset) \o EncodeWithLen(Bytes(r.element))
    BY <1>4, <1>6, ElementAdds
  <1>8. BufferTo(offset) = ToTags
    <2>1. BufferTo(offset) = ReadBefore("tag_key")
      BY <1>2 DEF EncodedInv, Places
    <2> QED
      BY <2>1 DEF ReadBefore
  <1> HIDE DEF r
  <1>9. tagKey'[i] = r.element /\ \A t \in Tags : t # i => tagKey'[t] = tagKey[t]
    BY <1>1, <1>2, <1>5 DEF TypeOK
  <1>10. EncodeWithLen(Bytes(tagKey[i]))' = EncodeWithLen(Bytes(r.element))
    <2>1. Bytes(tagKey[i])' = Bytes(r.element)
      BY <1>2, <1>9 DEF Bytes, ByteAt
    <2> QED
      BY <2>1 DEF EncodeWithLen, EncodeU16
  <1>11. TagsWritten(i)' = TagsWritten(i)
    <2>1. PICK k : k = i
      OBVIOUS
    <2>2. ASSUME NEW n \in 1..k
          PROVE  tagKey'[n - 1] = tagKey[n - 1] /\ tagValue'[n - 1] = tagValue[n - 1]
      <3>1. n - 1 \in Tags /\ n - 1 # i
        BY <1>5, <2>1, SizesAssumption DEF Tags
      <3> QED
        BY <1>2, <1>9, <3>1
    <2>3. TagsWritten(k)' = TagsWritten(k)
      BY <1>2, <1>5, <2>1, <2>2, TagsBeforeStay
    <2>4. i' = k
      BY <1>2, <2>1
    <2> QED
      BY <2>1, <2>3, <2>4 DEF TagsWritten
  <1>12. ToTags' = ToTags
    <2>1. ToReward' = ToReward /\ Written("last_tx")' = Written("last_tx")
      BY <1>2 DEF ToReward, ToOwner, Written, EncodeWithLen, EncodeU16, Bytes, ByteAt
    <2> QED
      BY <1>2, <1>11, <2>1 DEF ToTags, EncodeU16
  <1>13. ReadBefore(p)' = ToTags' \o EncodeWithLen(Bytes(tagKey[i]))'
    BY <1>4 DEF ReadBefore
  <1>14. BufferTo(offset)' = BufferTo(r.offset)
    BY <1>2 DEF BufferTo
  <1> QED
    BY <1>7, <1>8, <1>10, <1>12, <1>13, <1>14

\* Reading the value of a tag adds it, which completes the tag.
LEMMA ReadTagValueEncoded ==
  ASSUME ByteSize = 256, ParserInv, EncodedInv, ReadTagValue
  PROVE  EncodedInv'
  <1> DEFINE r == ReadElement(tagValue[i])
             key == EncodeWithLen(Bytes(tagKey[i]))
             value == EncodeWithLen(Bytes(r.element))
             before == ToReward \o Written("last_tx") \o EncodeU16(tags_count)
  <1>1. TypeOK /\ TypeOK' /\ TagsRead
    BY ReadTagValueInv DEF ParserInv
  <1>2. /\ pc = "tag_value" /\ tagValue' = [tagValue EXCEPT ![i] = r.element]
        /\ offset' = r.offset
        /\ \/ r.ok /\ i' = i + 1 /\ pc' = TagsOrSize(i + 1, tags_count)
           \/ ~r.ok /\ pc' = "failed"
        /\ UNCHANGED <<buffer, element, tags_count, tagKey, parses>>
    BY DEF ReadTagValue
  <1>3. SUFFICES ASSUME NEW p \in Places \ {"idle", "failed"}, pc' = p
                 PROVE  BufferTo(offset)' = ReadBefore(p)'
    BY DEF EncodedInv
  <1>4. r.ok /\ i' = i + 1 /\ p \in {"tag_key", "data_size"}
    BY <1>2, <1>3 DEF TagsOrSize
  <1>5. i \in Nat /\ i \in Tags /\ i \in 0..MaxTags /\ i + 1 <= MaxTags
    <2>1. i \in Nat /\ tags_count \in Nat /\ MaxTags \in Nat
      BY <1>1, SizesAssumption, Words DEF TypeOK
    <2>2. i < tags_count /\ tags_count <= MaxTags
      BY <1>1, <1>2, Ranks DEF TagsRead
    <2> QED
      BY <2>1, <2>2 DEF Tags
  <1>6. /\ tagKey[i] \in Element /\ tagValue[i] \in Element /\ buffer \in Seq(Byte)
        /\ offset \in Word /\ offset <= bufferLen
    BY <1>1, <1>5 DEF TypeOK, ParserInv
  <1>7. BufferTo(r.offset) = BufferTo(offset) \o value
    BY <1>4, <1>6, ElementAdds
  <1>8. BufferTo(offset) = (before \o TagsWritten(i)) \o key
    <2>1. BufferTo(offset) = ReadBefore("tag_value")
      BY <1>2 DEF EncodedInv, Places
    <2> QED
      BY <2>1 DEF ReadBefore, ToTags
  <1>9. value \in Octets /\ key \in Octets /\ before \in Octets /\ TagsWritten(i) \in Octets
    <2>1. r.element \in Element
      BY <1>6, ReadElementBounds
    <2>2. Bytes(r.element) \in Octets /\ Bytes(tagKey[i]) \in Octets
      BY <1>6, <2>1, BytesInSeq, BytesAreOctets
    <2> QED
      BY <1>1, <1>5, <2>2, EncodedWithLen, ToTagsOctets, TagsWrittenOctets
  <1> HIDE DEF r
  <1>10. tagValue'[i] = r.element /\ \A t \in Tags : t # i => tagValue'[t] = tagValue[t]
    BY <1>1, <1>2, <1>5 DEF TypeOK
  <1>11. TagsWritten(i)' = TagsWritten(i) \o (key \o value)
    <2>1. PICK k : k = i
      OBVIOUS
    <2>2. ASSUME NEW n \in 1..k
          PROVE  tagKey'[n - 1] = tagKey[n - 1] /\ tagValue'[n - 1] = tagValue[n - 1]
      <3>1. n - 1 \in Tags /\ n - 1 # i
        BY <1>5, <2>1, SizesAssumption DEF Tags
      <3> QED
        BY <1>2, <1>10, <3>1
    <2>3. TagsWritten(k)' = TagsWritten(k)
      BY <1>2, <1>5, <2>1, <2>2, TagsBeforeStay
    <2>4. TagsWritten(k + 1)' = TagsWritten(k)' \o EncodeTag(TagRead(k + 1))'
      BY <1>1, <1>5, <2>1, TagAddsNext
    <2>5. EncodeTag(TagRead(k + 1))' = key \o value
      <3>1. (k + 1) - 1 = k
        BY <1>5, <2>1
      <3>2. tagKey'[(k + 1) - 1] = tagKey[i] /\ tagValue'[(k + 1) - 1] = r.element
        BY <1>2, <1>10, <2>1, <3>1
      <3>3. /\ Bytes(tagKey[(k + 1) - 1])' = Bytes(tagKey[i])
            /\ Bytes(tagValue[(k + 1) - 1])' = Bytes(r.element)
        BY <1>2, <3>2 DEF Bytes, ByteAt
      <3> QED
        BY <3>3 DEF TagRead, EncodeTag, EncodeWithLen, EncodeU16
    <2>6. TagsWritten(i)' = TagsWritten(k + 1)'
      BY <1>4, <2>1 DEF TagsWritten
    <2> QED
      BY <2>1, <2>3, <2>4, <2>5, <2>6
  <1>12. before' = before
    <2>1. ToReward' = ToReward /\ Written("last_tx")' = Written("last_tx")
      BY <1>2 DEF ToReward, ToOwner, Written, EncodeWithLen, EncodeU16, Bytes, ByteAt
    <2> QED
      BY <1>2, <2>1 DEF EncodeU16
  <1>13. ReadBefore(p)' = ToTags'
    <2>1. CASE p = "tag_key"
      BY <2>1 DEF ReadBefore
    <2>2. CASE p = "data_size"
      BY <2>2 DEF ReadBefore
    <2> QED
      BY <1>4, <2>1, <2>2
  <1>14. ToTags' = before' \o TagsWritten(i)'
    BY DEF ToTags
  <1>15. BufferTo(offset)' = BufferTo(r.offset)
    BY <1>2 DEF BufferTo
  <1> DEFINE tags == TagsWritten(i)
  <1> HIDE DEF before, key, value, tags
  <1>16. ((before \o tags) \o key) \o value = before \o (tags \o (key \o value))
    <2>1. tags \in Octets /\ before \in Octets /\ key \in Octets /\ value \in Octets
      BY <1>9 DEF tags
    <2>2. before \o tags \in Octets /\ key \o value \in Octets
      BY <2>1, JoinOctets
    <2>3. Associate(before \o tags, key, value) /\ Associate(before, tags, key \o value)
      BY <2>1, <2>2, OctetsAssociate
    <2> QED
      BY <2>3 DEF Associate
  <1> QED
    BY <1>7, <1>8, <1>11, <1>12, <1>13, <1>14, <1>15, <1>16 DEF tags

\* A parse begins with nothing read.
LEMMA ParseEncoded ==
  ASSUME TypeOK, NEW b \in Seq(Byte), Parse(b)
  PROVE  EncodedInv'
  <1>1. buffer' = b /\ offset' = 0 /\ pc' \in {"failed", "format"}
    BY DEF Parse
  <1>2. SUFFICES ASSUME NEW p \in Places \ {"idle", "failed"}, pc' = p
                 PROVE  BufferTo(offset)' = ReadBefore(p)'
    BY DEF EncodedInv
  <1>3. p = "format"
    BY <1>1, <1>2
  <1>4. BufferTo(offset)' = <<>>
    BY <1>1 DEF BufferTo
  <1> QED
    BY <1>3, <1>4 DEF ReadBefore

\* Where nothing that was read changes, what was read is the same.
LEMMA EncodedStays ==
  ASSUME EncodedInv, UNCHANGED parserVars
  PROVE  EncodedInv'
  <1>1. UNCHANGED <<buffer, offset, element, tags_count, tagKey, tagValue, pc, i>>
    BY DEF parserVars, tx
  <1>2. SUFFICES ASSUME NEW p \in Places \ {"idle", "failed"}, pc' = p
                 PROVE  BufferTo(offset)' = ReadBefore(p)'
    BY DEF EncodedInv
  <1>3. BufferTo(offset) = ReadBefore(p)
    BY <1>1, <1>2 DEF EncodedInv
  <1>4. BufferTo(offset)' = BufferTo(offset)
    BY <1>1 DEF BufferTo
  <1>5. TagsWritten(i)' = TagsWritten(i)
    BY <1>1 DEF TagsWritten, TagRead, EncodeTag, EncodeWithLen, EncodeU16, Bytes, ByteAt
  <1>6. \A f \in Fields : Written(f)' = Written(f)
    BY <1>1 DEF Written, EncodeWithLen, EncodeU16, Bytes, ByteAt
  <1>7. EncodeWithLen(Bytes(tagKey[i]))' = EncodeWithLen(Bytes(tagKey[i]))
    BY <1>1 DEF EncodeWithLen, EncodeU16, Bytes, ByteAt
  <1>8. EncodeU16(tags_count)' = EncodeU16(tags_count)
    BY <1>1 DEF EncodeU16
  <1>9. ReadBefore(p)' = ReadBefore(p)
    BY <1>5, <1>6, <1>7, <1>8 DEF ReadBefore, ToTags, ToReward, ToOwner, Fields
  <1> QED
    BY <1>3, <1>4, <1>9

\* At the end, the encoding of the whole transaction has been read.
LEMMA EncodedIsParsed ==
  ASSUME ParserInv, EncodedInv, pc = "ok"
  PROVE  EncodeTx(Decoded) = BufferTo(offset)
  <1>1. TypeOK /\ i = tags_count /\ tags_count \in Nat
    <2>1. TypeOK /\ TagsRead
      BY DEF ParserInv
    <2>2. i = tags_count
      BY <2>1, Ranks DEF TagsRead
    <2> QED
      BY <2>1, <2>2, Words DEF TypeOK
  <1>2. BufferTo(offset) = ToTags \o Written("data_size") \o Written("data_root")
    <2>1. BufferTo(offset) = ReadBefore("ok")
      BY DEF EncodedInv, Places
    <2> QED
      BY <2>1 DEF ReadBefore
  <1> DEFINE t == Decoded
  <1>3. /\ t.format = Bytes(element["format"]) /\ t.owner = Bytes(element["owner"])
        /\ t.target = Bytes(element["target"]) /\ t.quantity = Bytes(element["quantity"])
        /\ t.reward = Bytes(element["reward"]) /\ t.last_tx = Bytes(element["last_tx"])
        /\ t.data_size = Bytes(element["data_size"])
        /\ t.data_root = Bytes(element["data_root"])
        /\ t.tags = [n \in 1..tags_count |-> TagRead(n)]
    BY DEF Decoded, TagRead
  <1>4. DOMAIN t.tags = 1..tags_count /\ Len(t.tags) = tags_count
    BY <1>1, <1>3
  <1>5. TagsWritten(i) = FlattenSeq([n \in DOMAIN t.tags |-> EncodeTag(t.tags[n])])
    <2>1. [n \in 1..i |-> EncodeTag(TagRead(n))] = [n \in DOMAIN t.tags |-> EncodeTag(t.tags[n])]
      BY <1>1, <1>3, <1>4
    <2> QED
      BY <2>1 DEF TagsWritten
  <1> HIDE DEF t
  <1>6. EncodeTx(t) = ToTags \o Written("data_size") \o Written("data_root")
    BY <1>3, <1>4, <1>5 DEF EncodeTx, ToTags, ToReward, ToOwner, Written
  <1> QED
    BY <1>2, <1>6 DEF t

-----------------------------------------------------------------------------
(* No two lists of tags are written alike.                                 *)

Tagged == [name : Octets, value : Octets]

EncodedTags(tags) == FlattenSeq([n \in DOMAIN tags |-> EncodeTag(tags[n])])

\* Encoded tags are a string of octets, at least as long as the tags are many.
LEMMA EncodedTagsOctets ==
  ASSUME NEW tags \in Seq(Tagged)
  PROVE  LET s == [n \in DOMAIN tags |-> EncodeTag(tags[n])]
         IN /\ s \in Seq(Octets) /\ Len(s) = Len(tags)
            /\ EncodedTags(tags) \in Octets
            /\ Len(EncodedTags(tags)) >= Len(tags)
  <1> DEFINE s == [n \in DOMAIN tags |-> EncodeTag(tags[n])]
  <1>1. Len(tags) \in Nat /\ DOMAIN tags = 1..Len(tags)
    OBVIOUS
  <1>2. ASSUME NEW n \in 1..Len(tags)
        PROVE  /\ EncodeTag(tags[n]) \in Octets
               /\ Len(EncodeTag(tags[n])) \in Nat /\ Len(EncodeTag(tags[n])) >= 1
    <2> DEFINE name == tags[n].name
               value == tags[n].value
    <2>1. tags[n] \in Tagged
      OBVIOUS
    <2>2. tags[n] = [name |-> name, value |-> value] /\ name \in Octets /\ value \in Octets
      BY <2>1 DEF Tagged
    <2> HIDE DEF name, value
    <2>3. EncodeTag(tags[n]) \in Octets /\ Len(EncodeTag(tags[n])) >= 4
      BY <2>2, EncodedTag
    <2>4. Len(EncodeTag(tags[n])) \in Nat
      BY <2>3, JoinOctets
    <2> QED
      BY <2>3, <2>4
  <1>3. s \in Seq(Octets) /\ Len(s) = Len(tags)
    BY <1>1, <1>2
  <1>4. \A n \in 1..Len(s) : Len(s[n]) >= 1
    BY <1>1, <1>2, <1>3
  <1>5. EncodedTags(tags) = FlattenSeq(s)
    BY DEF EncodedTags
  <1> HIDE DEF s
  <1>6. FlattenSeq(s) \in Octets /\ Len(FlattenSeq(s)) >= Len(s)
    BY <1>3, <1>4, FlattenInSeq, FlattenLength DEF Octets
  <1> QED
    BY <1>3, <1>5, <1>6 DEF s

\* The first of them comes first.
LEMMA EncodedFirstTag ==
  ASSUME NEW tags \in Seq(Tagged), tags # <<>>
  PROVE  /\ EncodedTags(tags) = EncodeTag(tags[1]) \o EncodedTags(Tail(tags))
         /\ Tail(tags) \in Seq(Tagged) /\ Len(Tail(tags)) = Len(tags) - 1
         /\ \A n \in 1..Len(Tail(tags)) : Tail(tags)[n] = tags[n + 1]
  <1> DEFINE rest == Tail(tags)
             s == [n \in DOMAIN rest |-> EncodeTag(rest[n])]
             t == [n \in DOMAIN tags |-> EncodeTag(tags[n])]
  <1>1. /\ rest \in Seq(Tagged) /\ Len(rest) = Len(tags) - 1
        /\ \A n \in 1..Len(rest) : rest[n] = tags[n + 1]
        /\ Len(tags) \in Nat /\ DOMAIN tags = 1..Len(tags) /\ Len(tags) # 0
    BY HeadTailProperties
  <1> HIDE DEF rest
  <1>2. DOMAIN rest = 1..Len(rest)
    BY <1>1
  <1>3. /\ s \in Seq(Octets) /\ Len(s) = Len(rest) /\ EncodedTags(rest) = FlattenSeq(s)
        /\ t \in Seq(Octets) /\ Len(t) = Len(tags) /\ EncodedTags(tags) = FlattenSeq(t)
    BY <1>1, EncodedTagsOctets DEF EncodedTags
  <1>4. ASSUME NEW n \in 1..Len(rest) PROVE t[n + 1] = s[n]
    <2>1. n + 1 \in 1..Len(tags)
      BY <1>1
    <2> QED
      BY <1>1, <1>2, <2>1
  <1>5. t[1] = EncodeTag(tags[1]) /\ Len(t) = Len(s) + 1
    <2>1. 1 \in 1..Len(tags)
      BY <1>1
    <2> QED
      BY <1>1, <1>3, <2>1
  <1>6. \A n \in 1..Len(s) : t[n + 1] = s[n]
    BY <1>3, <1>4
  <1> HIDE DEF s, t
  <1>7. FlattenSeq(t) = t[1] \o FlattenSeq(s)
    BY <1>3, <1>5, <1>6, FlattenFirst DEF Octets
  <1>8. EncodedTags(tags) = EncodeTag(tags[1]) \o EncodedTags(rest)
    BY <1>3, <1>5, <1>7
  <1> QED
    BY <1>1, <1>8 DEF rest

Short(tags) == \A n \in 1..Len(tags) : Len(tags[n].name) < U16 /\ Len(tags[n].value) < U16

\* Of n tags and what comes behind them, no two are written alike.
TagsCancel(n) ==
    \A t, u \in Seq(Tagged) : \A x, y \in Octets : \A s :
        /\ Len(t) = n /\ Len(u) = n /\ Short(t) /\ Len(s) < U16
        /\ Leads(EncodedTags(t), x, s) /\ Leads(EncodedTags(u), y, s)
        => t = u /\ x = y /\ Len(y) < U16

\* A tag leads with its name.
LEMMA ThreeLead ==
  ASSUME NEW a \in Octets, NEW b \in Octets, NEW c \in Octets, NEW x \in Octets,
         NEW r, NEW q, NEW s, Leads((a \o b) \o c, x, s), Leads(c, x, r), Leads(b, r, q)
  PROVE  Leads(a, q, s)
  <1>1. a \o b \in Octets /\ r \in Octets
    BY JoinOctets DEF Leads
  <1>2. Associate(a \o b, c, x) /\ Associate(a, b, r)
    BY <1>1, OctetsAssociate
  <1>3. ((a \o b) \o c) \o x = (a \o b) \o r
    BY <1>2 DEF Associate, Leads
  <1>4. (a \o b) \o r = a \o (b \o r)
    BY <1>2 DEF Associate
  <1> QED
    BY <1>3, <1>4 DEF Leads

\* One tag and then n.
LEMMA OneMoreTag ==
  ASSUME NEW n \in Nat, TagsCancel(n)
  PROVE  TagsCancel(n + 1)
  <1> SUFFICES ASSUME NEW t \in Seq(Tagged), NEW u \in Seq(Tagged),
                      NEW x \in Octets, NEW y \in Octets, NEW s,
                      Len(t) = n + 1, Len(u) = n + 1, Short(t), Len(s) < U16,
                      Leads(EncodedTags(t), x, s), Leads(EncodedTags(u), y, s)
               PROVE  t = u /\ x = y /\ Len(y) < U16
    BY DEF TagsCancel
  <1> DEFINE t1 == Tail(t)
             u1 == Tail(u)
             a == t[1].name
             b == u[1].name
             c == t[1].value
             d == u[1].value
             A == EncodeWithLen(a)
             B == EncodeWithLen(b)
             C == EncodeWithLen(c)
             E == EncodeWithLen(d)
             F == EncodedTags(t1)
             G == EncodedTags(u1)
             p == F \o x
             q == G \o y
             p1 == C \o p
             q1 == E \o q
  <1>1. /\ EncodedTags(t) = EncodeTag(t[1]) \o F
        /\ t1 \in Seq(Tagged) /\ Len(t1) = n /\ \A k \in 1..n : t1[k] = t[k + 1]
    <2>1. t # <<>> /\ Len(t) - 1 = n
      OBVIOUS
    <2> QED
      BY <2>1, EncodedFirstTag
  <1>2. /\ EncodedTags(u) = EncodeTag(u[1]) \o G
        /\ u1 \in Seq(Tagged) /\ Len(u1) = n /\ \A k \in 1..n : u1[k] = u[k + 1]
    <2>1. u # <<>> /\ Len(u) - 1 = n
      OBVIOUS
    <2> QED
      BY <2>1, EncodedFirstTag
  <1>3. EncodeTag(t[1]) = A \o C /\ EncodeTag(u[1]) = B \o E
    BY DEF EncodeTag
  <1>4. /\ a \in Octets /\ b \in Octets /\ c \in Octets /\ d \in Octets
        /\ t[1] = [name |-> a, value |-> c] /\ u[1] = [name |-> b, value |-> d]
    <2>1. t[1] \in Tagged /\ u[1] \in Tagged
      <3>1. 1 \in 1..Len(t) /\ 1 \in 1..Len(u)
        OBVIOUS
      <3> QED
        BY <3>1, ElementOfSeq
    <2> QED
      BY <2>1 DEF Tagged
  <1>5. Len(a) < U16 /\ Len(c) < U16
    <2>1. 1 \in 1..Len(t)
      OBVIOUS
    <2> QED
      BY <2>1 DEF Short
  <1>6. Short(t1)
    <2> SUFFICES ASSUME NEW k \in 1..n
                 PROVE  Len(t1[k].name) < U16 /\ Len(t1[k].value) < U16
      BY <1>1 DEF Short
    <2>1. k + 1 \in 1..Len(t)
      OBVIOUS
    <2> HIDE DEF t1
    <2> QED
      BY <1>1, <2>1 DEF Short
  <1> HIDE DEF t1, u1, a, b, c, d
  <1>7. F \in Octets /\ G \in Octets
    BY <1>1, <1>2, EncodedTagsOctets
  <1>8. A \in Octets /\ B \in Octets /\ C \in Octets /\ E \in Octets
    BY <1>4, EncodedWithLen
  <1> HIDE DEF A, B, C, E, F, G
  <1>9. p \in Octets /\ q \in Octets
    BY <1>7, JoinOctets
  <1>10. p1 \in Octets /\ q1 \in Octets
    <2> HIDE DEF p, q
    <2> QED
      BY <1>8, <1>9, JoinOctets
  <1>11. Leads(F, x, p) /\ Leads(G, y, q) /\ Leads(C, p, p1) /\ Leads(E, q, q1)
    BY DEF Leads
  <1> HIDE DEF p, q, p1, q1
  <1>12. Leads(A, p1, s) /\ Leads(B, q1, s)
    BY <1>1, <1>2, <1>3, <1>7, <1>8, <1>9, <1>11, ThreeLead
  <1>13. a = b /\ p1 = q1 /\ Len(q1) < U16
    BY <1>4, <1>5, <1>10, <1>12, CancelElement DEF A, B
  <1>14. c = d /\ p = q /\ Len(q) < U16
    BY <1>4, <1>5, <1>9, <1>11, <1>13, CancelElement DEF C, E
  <1>15. t1 = u1 /\ x = y /\ Len(y) < U16
    BY <1>1, <1>2, <1>6, <1>11, <1>14 DEF TagsCancel, F, G
  <1>16. ASSUME NEW k \in 1..(n + 1) PROVE t[k] = u[k]
    <2>1. CASE k = 1
      BY <1>4, <1>13, <1>14, <2>1
    <2>2. CASE k # 1
      <3>1. k - 1 \in 1..n /\ (k - 1) + 1 = k
        BY <2>2
      <3>2. t1[k - 1] = t[(k - 1) + 1] /\ u1[k - 1] = u[(k - 1) + 1]
        BY <1>1, <1>2, <3>1
      <3> QED
        BY <1>15, <3>1, <3>2
    <2> QED
      BY <2>1, <2>2
  <1>17. t = u
    BY <1>16, SeqEqual
  <1> QED
    BY <1>15, <1>17

\* So for every number of tags.
LEMMA CancelTags ==
  \A n \in Nat : TagsCancel(n)
  <1> DEFINE S == {n \in Nat : TagsCancel(n)}
  <1>1. TagsCancel(0)
    <2> SUFFICES ASSUME NEW t \in Seq(Tagged), NEW u \in Seq(Tagged),
                        NEW x \in Octets, NEW y \in Octets, NEW s,
                        Len(t) = 0, Len(u) = 0, Len(s) < U16,
                        Leads(EncodedTags(t), x, s), Leads(EncodedTags(u), y, s)
                 PROVE  t = u /\ x = y /\ Len(y) < U16
      BY DEF TagsCancel
    <2>1. t = <<>> /\ u = <<>>
      OBVIOUS
    <2>2. EncodedTags(<<>>) = <<>>
      <3>1. [n \in DOMAIN <<>> |-> EncodeTag(<<>>[n])] = <<>>
        OBVIOUS
      <3>2. <<>> \in Seq(Seq(Octet))
        OBVIOUS
      <3> QED
        BY <3>1, <3>2, FlattenInSeq DEF EncodedTags
    <2>3. <<>> \o x = x /\ <<>> \o y = y
      BY JoinOctets
    <2> QED
      BY <2>1, <2>2, <2>3 DEF Leads
  <1>2. 0 \in S /\ \A n \in Nat : n \in S => n + 1 \in S
    BY <1>1, OneMoreTag
  <1> HIDE DEF S
  <1>3. Nat \subseteq S
    BY <1>2, Induction
  <1> QED
    BY <1>3 DEF S
-----------------------------------------------------------------------------
(* No two transactions are written alike.                                  *)

\* A transaction as it is written.
Texts == {"format", "owner", "target", "quantity", "reward", "last_tx", "data_size",
          "data_root"}

WrittenTx ==
    [format : Octets, owner : Octets, target : Octets, quantity : Octets, reward : Octets,
     last_tx : Octets, tags : Seq(Tagged), data_size : Octets, data_root : Octets]

\* Its lengths are written as they are.
ShortTx(t) ==
    /\ Len(t.tags) < U16 /\ Short(t.tags)
    /\ \A f \in Texts : Len(t[f]) < U16

\* What is written from a field on, and the z behind it.
FromRoot(t, z) == EncodeWithLen(t.data_root) \o z
FromSize(t, z) == EncodeWithLen(t.data_size) \o FromRoot(t, z)
FromTags(t, z) == EncodedTags(t.tags) \o FromSize(t, z)
FromCount(t, z) == EncodeU16(Len(t.tags)) \o FromTags(t, z)
FromLastTx(t, z) == EncodeWithLen(t.last_tx) \o FromCount(t, z)
FromReward(t, z) == EncodeWithLen(t.reward) \o FromLastTx(t, z)
FromQuantity(t, z) == EncodeWithLen(t.quantity) \o FromReward(t, z)
FromTarget(t, z) == EncodeWithLen(t.target) \o FromQuantity(t, z)
FromOwner(t, z) == EncodeWithLen(t.owner) \o FromTarget(t, z)
FromFormat(t, z) == EncodeWithLen(t.format) \o FromOwner(t, z)

\* Moving the end of the first part to the second.
LEMMA LeadsBefore ==
  ASSUME NEW a \in Octets, NEW e \in Octets, NEW r \in Octets, NEW p, NEW q, NEW s,
         Leads(a, e, p), Leads(p, r, s), Leads(e, r, q)
  PROVE  Leads(a, q, s)
  <1>1. p = a \o e /\ s = p \o r /\ q = e \o r
    BY DEF Leads
  <1>2. (a \o e) \o r = a \o (e \o r)
    BY JoinOctets
  <1>3. s = a \o q
    BY <1>1, <1>2
  <1> QED
    BY <1>3 DEF Leads

LEMMA LeadsInOctets ==
  ASSUME NEW e \in Octets, NEW r \in Octets, NEW q, Leads(e, r, q)
  PROVE  q \in Octets /\ Len(q) = Len(e) + Len(r)
  BY JoinOctets DEF Leads

\* The fields and the parts of a transaction.
LEMMA TxFields ==
  ASSUME NEW t \in WrittenTx
  PROVE  /\ t.format \in Octets /\ t.owner \in Octets /\ t.target \in Octets
         /\ t.quantity \in Octets /\ t.reward \in Octets /\ t.last_tx \in Octets
         /\ t.tags \in Seq(Tagged) /\ t.data_size \in Octets /\ t.data_root \in Octets
         /\ Len(t.tags) \in Nat
  <1>1. /\ t.format \in Octets /\ t.owner \in Octets /\ t.target \in Octets
        /\ t.quantity \in Octets /\ t.reward \in Octets /\ t.last_tx \in Octets
        /\ t.tags \in Seq(Tagged) /\ t.data_size \in Octets /\ t.data_root \in Octets
    BY DEF WrittenTx
  <1>2. Len(t.tags) \in Nat
    BY <1>1
  <1> QED
    BY <1>1, <1>2

\* What is written from each field on, and its own part of it.
LEMMA TxParts ==
  ASSUME NEW t \in WrittenTx, NEW z \in Octets
  PROVE  /\ FromFormat(t, z) \in Octets
         /\ FromOwner(t, z) \in Octets
         /\ FromTarget(t, z) \in Octets
         /\ FromQuantity(t, z) \in Octets
         /\ FromReward(t, z) \in Octets
         /\ FromLastTx(t, z) \in Octets
         /\ FromCount(t, z) \in Octets
         /\ FromTags(t, z) \in Octets
         /\ FromSize(t, z) \in Octets
         /\ FromRoot(t, z) \in Octets
         /\ Leads(EncodeWithLen(t.format), FromOwner(t, z), FromFormat(t, z))
         /\ Leads(EncodeWithLen(t.owner), FromTarget(t, z), FromOwner(t, z))
         /\ Leads(EncodeWithLen(t.target), FromQuantity(t, z), FromTarget(t, z))
         /\ Leads(EncodeWithLen(t.quantity), FromReward(t, z), FromQuantity(t, z))
         /\ Leads(EncodeWithLen(t.reward), FromLastTx(t, z), FromReward(t, z))
         /\ Leads(EncodeWithLen(t.last_tx), FromCount(t, z), FromLastTx(t, z))
         /\ Leads(EncodeU16(Len(t.tags)), FromTags(t, z), FromCount(t, z))
         /\ Leads(EncodedTags(t.tags), FromSize(t, z), FromTags(t, z))
         /\ Leads(EncodeWithLen(t.data_size), FromRoot(t, z), FromSize(t, z))
         /\ Leads(EncodeWithLen(t.data_root), z, FromRoot(t, z))
  <1>1. /\ EncodeU16(Len(t.tags)) \in Octets /\ EncodedTags(t.tags) \in Octets
        /\ EncodeWithLen(t.format) \in Octets
        /\ EncodeWithLen(t.owner) \in Octets
        /\ EncodeWithLen(t.target) \in Octets
        /\ EncodeWithLen(t.quantity) \in Octets
        /\ EncodeWithLen(t.reward) \in Octets
        /\ EncodeWithLen(t.last_tx) \in Octets
        /\ EncodeWithLen(t.data_size) \in Octets
        /\ EncodeWithLen(t.data_root) \in Octets
    BY TxFields, EncodedWithLen, EncodedU16, EncodedTagsOctets
  <1>2. /\ Leads(EncodeWithLen(t.format), FromOwner(t, z), FromFormat(t, z))
        /\ Leads(EncodeWithLen(t.owner), FromTarget(t, z), FromOwner(t, z))
        /\ Leads(EncodeWithLen(t.target), FromQuantity(t, z), FromTarget(t, z))
        /\ Leads(EncodeWithLen(t.quantity), FromReward(t, z), FromQuantity(t, z))
        /\ Leads(EncodeWithLen(t.reward), FromLastTx(t, z), FromReward(t, z))
        /\ Leads(EncodeWithLen(t.last_tx), FromCount(t, z), FromLastTx(t, z))
        /\ Leads(EncodeU16(Len(t.tags)), FromTags(t, z), FromCount(t, z))
        /\ Leads(EncodedTags(t.tags), FromSize(t, z), FromTags(t, z))
        /\ Leads(EncodeWithLen(t.data_size), FromRoot(t, z), FromSize(t, z))
        /\ Leads(EncodeWithLen(t.data_root), z, FromRoot(t, z))
    BY DEF Leads, FromFormat, FromOwner, FromTarget, FromQuantity, FromReward, FromLastTx,
           FromCount, FromTags, FromSize, FromRoot
  <1>3. FromRoot(t, z) \in Octets
    BY <1>1, <1>2, LeadsInOctets
  <1>4. FromSize(t, z) \in Octets
    BY <1>1, <1>2, <1>3, LeadsInOctets
  <1>5. FromTags(t, z) \in Octets
    BY <1>1, <1>2, <1>4, LeadsInOctets
  <1>6. FromCount(t, z) \in Octets
    BY <1>1, <1>2, <1>5, LeadsInOctets
  <1>7. FromLastTx(t, z) \in Octets
    BY <1>1, <1>2, <1>6, LeadsInOctets
  <1>8. FromReward(t, z) \in Octets
    BY <1>1, <1>2, <1>7, LeadsInOctets
  <1>9. FromQuantity(t, z) \in Octets
    BY <1>1, <1>2, <1>8, LeadsInOctets
  <1>10. FromTarget(t, z) \in Octets
    BY <1>1, <1>2, <1>9, LeadsInOctets
  <1>11. FromOwner(t, z) \in Octets
    BY <1>1, <1>2, <1>10, LeadsInOctets
  <1>12. FromFormat(t, z) \in Octets
    BY <1>1, <1>2, <1>11, LeadsInOctets
  <1> QED
    BY <1>2, <1>3, <1>4, <1>5, <1>6, <1>7, <1>8, <1>9, <1>10, <1>11, <1>12

\* An encoding, and what is behind it, is what is written from the first field on.
LEMMA FromFirst ==
  ASSUME NEW t \in WrittenTx, NEW z \in Octets, NEW s, Leads(EncodeTx(t), z, s)
  PROVE  s = FromFormat(t, z)
  <1> DEFINE e1 == EncodeWithLen(t.format)
             e2 == EncodeWithLen(t.owner)
             e3 == EncodeWithLen(t.target)
             e4 == EncodeWithLen(t.quantity)
             e5 == EncodeWithLen(t.reward)
             e6 == EncodeWithLen(t.last_tx)
             e7 == EncodeU16(Len(t.tags))
             e8 == EncodedTags(t.tags)
             e9 == EncodeWithLen(t.data_size)
             e10 == EncodeWithLen(t.data_root)
             p2 == e1 \o e2
             p3 == p2 \o e3
             p4 == p3 \o e4
             p5 == p4 \o e5
             p6 == p5 \o e6
             p7 == p6 \o e7
             p8 == p7 \o e8
             p9 == p8 \o e9
             p10 == p9 \o e10
  <1>1. /\ e1 \in Octets /\ e2 \in Octets /\ e3 \in Octets /\ e4 \in Octets /\ e5 \in Octets
        /\ e6 \in Octets /\ e7 \in Octets /\ e8 \in Octets /\ e9 \in Octets /\ e10 \in Octets
    BY TxFields, EncodedWithLen, EncodedU16, EncodedTagsOctets
  <1>2. Leads(p10, z, s)
    BY DEF EncodeTx, EncodedTags
  <1>3. /\ Leads(e1, e2, p2) /\ Leads(p2, e3, p3) /\ Leads(p3, e4, p4)
        /\ Leads(p4, e5, p5) /\ Leads(p5, e6, p6) /\ Leads(p6, e7, p7)
        /\ Leads(p7, e8, p8) /\ Leads(p8, e9, p9) /\ Leads(p9, e10, p10)
    BY DEF Leads
  <1> DEFINE r11 == z
             r10 == FromRoot(t, z)
             r9 == FromSize(t, z)
             r8 == FromTags(t, z)
             r7 == FromCount(t, z)
             r6 == FromLastTx(t, z)
             r5 == FromReward(t, z)
             r4 == FromQuantity(t, z)
             r3 == FromTarget(t, z)
             r2 == FromOwner(t, z)
             r1 == FromFormat(t, z)
  <1>4. /\ r1 \in Octets /\ Leads(e1, r2, r1) /\ r2 \in Octets /\ Leads(e2, r3, r2)
        /\ r3 \in Octets /\ Leads(e3, r4, r3) /\ r4 \in Octets /\ Leads(e4, r5, r4)
        /\ r5 \in Octets /\ Leads(e5, r6, r5) /\ r6 \in Octets /\ Leads(e6, r7, r6)
        /\ r7 \in Octets /\ Leads(e7, r8, r7) /\ r8 \in Octets /\ Leads(e8, r9, r8)
        /\ r9 \in Octets /\ Leads(e9, r10, r9) /\ r10 \in Octets
        /\ Leads(e10, r11, r10) /\ r11 \in Octets
    BY TxParts
  <1> HIDE DEF e1, e2, e3, e4, e5, e6, e7, e8, e9, e10, p2, p3, p4, p5, p6, p7, p8, p9, p10,
               r1, r2, r3, r4, r5, r6, r7, r8, r9, r10, r11
  <1>5. /\ p2 \in Octets /\ p3 \in Octets /\ p4 \in Octets /\ p5 \in Octets
        /\ p6 \in Octets /\ p7 \in Octets /\ p8 \in Octets /\ p9 \in Octets
    <2>2. p2 \in Octets
      BY <1>1, <1>3, LeadsInOctets
    <2>3. p3 \in Octets
      BY <1>1, <1>3, <2>2, LeadsInOctets
    <2>4. p4 \in Octets
      BY <1>1, <1>3, <2>3, LeadsInOctets
    <2>5. p5 \in Octets
      BY <1>1, <1>3, <2>4, LeadsInOctets
    <2>6. p6 \in Octets
      BY <1>1, <1>3, <2>5, LeadsInOctets
    <2>7. p7 \in Octets
      BY <1>1, <1>3, <2>6, LeadsInOctets
    <2>8. p8 \in Octets
      BY <1>1, <1>3, <2>7, LeadsInOctets
    <2>9. p9 \in Octets
      BY <1>1, <1>3, <2>8, LeadsInOctets
    <2> QED
      BY <2>2, <2>3, <2>4, <2>5, <2>6, <2>7, <2>8, <2>9
  <1>a. Leads(p10, r11, s)
    BY <1>2 DEF r11
  <1>b. Leads(p9, r10, s)
    BY <1>1, <1>3, <1>4, <1>5, <1>a, LeadsBefore
  <1>c. Leads(p8, r9, s)
    BY <1>1, <1>3, <1>4, <1>5, <1>b, LeadsBefore
  <1>d. Leads(p7, r8, s)
    BY <1>1, <1>3, <1>4, <1>5, <1>c, LeadsBefore
  <1>e. Leads(p6, r7, s)
    BY <1>1, <1>3, <1>4, <1>5, <1>d, LeadsBefore
  <1>f. Leads(p5, r6, s)
    BY <1>1, <1>3, <1>4, <1>5, <1>e, LeadsBefore
  <1>g. Leads(p4, r5, s)
    BY <1>1, <1>3, <1>4, <1>5, <1>f, LeadsBefore
  <1>h. Leads(p3, r4, s)
    BY <1>1, <1>3, <1>4, <1>5, <1>g, LeadsBefore
  <1>i. Leads(p2, r3, s)
    BY <1>1, <1>3, <1>4, <1>5, <1>h, LeadsBefore
  <1>j. Leads(e1, r2, s)
    BY <1>1, <1>3, <1>4, <1>5, <1>i, LeadsBefore
  <1> QED
    BY <1>4, <1>j DEF Leads, r1

\* Where the lengths are short enough, what was written is one transaction.
LEMMA SameTransaction ==
  ASSUME NEW t \in WrittenTx, NEW u \in WrittenTx, NEW z \in Octets, NEW y \in Octets, NEW s,
         Leads(EncodeTx(t), z, s), Leads(EncodeTx(u), y, s), Len(s) < U16, ShortTx(t)
  PROVE  t = u
  <1> DEFINE r11 == z
             r10 == FromRoot(t, z)
             r9 == FromSize(t, z)
             r8 == FromTags(t, z)
             r7 == FromCount(t, z)
             r6 == FromLastTx(t, z)
             r5 == FromReward(t, z)
             r4 == FromQuantity(t, z)
             r3 == FromTarget(t, z)
             r2 == FromOwner(t, z)
             r1 == FromFormat(t, z)
             q11 == y
             q10 == FromRoot(u, y)
             q9 == FromSize(u, y)
             q8 == FromTags(u, y)
             q7 == FromCount(u, y)
             q6 == FromLastTx(u, y)
             q5 == FromReward(u, y)
             q4 == FromQuantity(u, y)
             q3 == FromTarget(u, y)
             q2 == FromOwner(u, y)
             q1 == FromFormat(u, y)
  <1>1. /\ r1 \in Octets /\ r2 \in Octets /\ r3 \in Octets /\ r4 \in Octets /\ r5 \in Octets
        /\ r6 \in Octets /\ r7 \in Octets /\ r8 \in Octets /\ r9 \in Octets
        /\ r10 \in Octets /\ r11 \in Octets
        /\ Leads(EncodeWithLen(t.format), r2, r1)
        /\ Leads(EncodeWithLen(t.owner), r3, r2)
        /\ Leads(EncodeWithLen(t.target), r4, r3)
        /\ Leads(EncodeWithLen(t.quantity), r5, r4)
        /\ Leads(EncodeWithLen(t.reward), r6, r5)
        /\ Leads(EncodeWithLen(t.last_tx), r7, r6)
        /\ Leads(EncodeU16(Len(t.tags)), r8, r7)
        /\ Leads(EncodedTags(t.tags), r9, r8)
        /\ Leads(EncodeWithLen(t.data_size), r10, r9)
        /\ Leads(EncodeWithLen(t.data_root), r11, r10)
    BY TxParts
  <1>2. /\ q1 \in Octets /\ q2 \in Octets /\ q3 \in Octets /\ q4 \in Octets /\ q5 \in Octets
        /\ q6 \in Octets /\ q7 \in Octets /\ q8 \in Octets /\ q9 \in Octets
        /\ q10 \in Octets /\ q11 \in Octets
        /\ Leads(EncodeWithLen(u.format), q2, q1)
        /\ Leads(EncodeWithLen(u.owner), q3, q2)
        /\ Leads(EncodeWithLen(u.target), q4, q3)
        /\ Leads(EncodeWithLen(u.quantity), q5, q4)
        /\ Leads(EncodeWithLen(u.reward), q6, q5)
        /\ Leads(EncodeWithLen(u.last_tx), q7, q6)
        /\ Leads(EncodeU16(Len(u.tags)), q8, q7)
        /\ Leads(EncodedTags(u.tags), q9, q8)
        /\ Leads(EncodeWithLen(u.data_size), q10, q9)
        /\ Leads(EncodeWithLen(u.data_root), q11, q10)
    BY TxParts
  <1>3. r1 = q1 /\ Len(q1) < U16
    BY FromFirst
  <1> HIDE DEF r1, r2, r3, r4, r5, r6, r7, r8, r9, r10, r11,
               q1, q2, q3, q4, q5, q6, q7, q8, q9, q10, q11
  <1>4. /\ Len(t.format) < U16 /\ Len(t.owner) < U16 /\ Len(t.target) < U16
        /\ Len(t.quantity) < U16 /\ Len(t.reward) < U16 /\ Len(t.last_tx) < U16
        /\ Len(t.data_size) < U16 /\ Len(t.data_root) < U16
        /\ Len(t.tags) < U16 /\ Short(t.tags)
    BY DEF ShortTx, Texts
  <1>5. t.format = u.format /\ r2 = q2 /\ Len(q2) < U16
    <2>1. t.format \in Octets /\ u.format \in Octets /\ r2 \in Octets /\ q2 \in Octets
      BY <1>1, <1>2, TxFields
    <2>2. Leads(EncodeWithLen(t.format), r2, q1) /\ Leads(EncodeWithLen(u.format), q2, q1)
      BY <1>1, <1>2, <1>3
    <2> QED
      BY <1>4, <1>3, <2>1, <2>2, CancelElement
  <1>6. t.owner = u.owner /\ r3 = q3 /\ Len(q3) < U16
    <2>1. t.owner \in Octets /\ u.owner \in Octets /\ r3 \in Octets /\ q3 \in Octets
      BY <1>1, <1>2, TxFields
    <2>2. Leads(EncodeWithLen(t.owner), r3, q2) /\ Leads(EncodeWithLen(u.owner), q3, q2)
      BY <1>1, <1>2, <1>5
    <2> QED
      BY <1>4, <1>5, <2>1, <2>2, CancelElement
  <1>7. t.target = u.target /\ r4 = q4 /\ Len(q4) < U16
    <2>1. t.target \in Octets /\ u.target \in Octets /\ r4 \in Octets /\ q4 \in Octets
      BY <1>1, <1>2, TxFields
    <2>2. Leads(EncodeWithLen(t.target), r4, q3) /\ Leads(EncodeWithLen(u.target), q4, q3)
      BY <1>1, <1>2, <1>6
    <2> QED
      BY <1>4, <1>6, <2>1, <2>2, CancelElement
  <1>8. t.quantity = u.quantity /\ r5 = q5 /\ Len(q5) < U16
    <2>1. t.quantity \in Octets /\ u.quantity \in Octets /\ r5 \in Octets /\ q5 \in Octets
      BY <1>1, <1>2, TxFields
    <2>2. Leads(EncodeWithLen(t.quantity), r5, q4) /\ Leads(EncodeWithLen(u.quantity), q5, q4)
      BY <1>1, <1>2, <1>7
    <2> QED
      BY <1>4, <1>7, <2>1, <2>2, CancelElement
  <1>9. t.reward = u.reward /\ r6 = q6 /\ Len(q6) < U16
    <2>1. t.reward \in Octets /\ u.reward \in Octets /\ r6 \in Octets /\ q6 \in Octets
      BY <1>1, <1>2, TxFields
    <2>2. Leads(EncodeWithLen(t.reward), r6, q5) /\ Leads(EncodeWithLen(u.reward), q6, q5)
      BY <1>1, <1>2, <1>8
    <2> QED
      BY <1>4, <1>8, <2>1, <2>2, CancelElement
  <1>10. t.last_tx = u.last_tx /\ r7 = q7 /\ Len(q7) < U16
    <2>1. t.last_tx \in Octets /\ u.last_tx \in Octets /\ r7 \in Octets /\ q7 \in Octets
      BY <1>1, <1>2, TxFields
    <2>2. Leads(EncodeWithLen(t.last_tx), r7, q6) /\ Leads(EncodeWithLen(u.last_tx), q7, q6)
      BY <1>1, <1>2, <1>9
    <2> QED
      BY <1>4, <1>9, <2>1, <2>2, CancelElement
  <1>11. Len(t.tags) = Len(u.tags) /\ r8 = q8 /\ Len(q8) < U16
    <2> DEFINE m == Len(u.tags)
               e == EncodeU16(m)
               tags == EncodedTags(u.tags)
    <2>1. m \in Nat /\ U16 \in Nat
      BY TxFields, Words
    <2>2. e \in Octets /\ Len(e) = 2
      BY <2>1, EncodedU16
    <2>3. tags \in Octets /\ Len(tags) >= m
      BY TxFields, EncodedTagsOctets
    <2>4. Leads(e, q8, q7) /\ Leads(tags, q9, q8)
      BY <1>2
    <2> HIDE DEF e, tags, m
    <2>5. Len(q7) = 2 + Len(q8) /\ Len(q8) = Len(tags) + Len(q9)
      <3>1. q8 \in Octets /\ q9 \in Octets
        BY <1>2
      <3>2. Len(q7) = Len(e) + Len(q8)
        BY <2>2, <2>4, <3>1, LeadsInOctets
      <3>3. Len(q8) = Len(tags) + Len(q9)
        BY <2>3, <2>4, <3>1, LeadsInOctets
      <3> QED
        BY <2>2, <3>2, <3>3
    <2>6. Len(q9) \in Nat /\ Len(q8) \in Nat /\ Len(tags) \in Nat
      BY <1>2, <2>3, JoinOctets
    <2>7. m < U16 /\ Len(q8) < U16
      BY <1>10, <2>1, <2>3, <2>5, <2>6
    <2>8. Len(t.tags) = m /\ r8 = q8
      <3>1. Len(t.tags) \in Nat /\ m \in Nat /\ Len(t.tags) < U16 /\ m < U16
        BY <1>4, <2>1, <2>7, TxFields
      <3>2. Leads(EncodeU16(Len(t.tags)), r8, q7) /\ Leads(EncodeU16(m), q8, q7)
        BY <1>1, <1>2, <1>10 DEF m
      <3> QED
        BY <1>1, <1>2, <3>1, <3>2, CancelU16
    <2> QED
      BY <2>7, <2>8 DEF m
  <1>12. t.tags = u.tags /\ r9 = q9 /\ Len(q9) < U16
    <2>1. Len(t.tags) \in Nat /\ t.tags \in Seq(Tagged) /\ u.tags \in Seq(Tagged)
      BY TxFields
    <2>2. TagsCancel(Len(t.tags))
      BY <2>1, CancelTags
    <2>3. Leads(EncodedTags(t.tags), r9, q8) /\ Leads(EncodedTags(u.tags), q9, q8)
      BY <1>1, <1>2, <1>11
    <2>4. r9 \in Octets /\ q9 \in Octets /\ Short(t.tags)
      BY <1>1, <1>2, <1>4
    <2> QED
      BY <1>11, <2>1, <2>2, <2>3, <2>4 DEF TagsCancel
  <1>13. t.data_size = u.data_size /\ r10 = q10 /\ Len(q10) < U16
    <2>1. t.data_size \in Octets /\ u.data_size \in Octets /\ r10 \in Octets /\ q10 \in Octets
      BY <1>1, <1>2, TxFields
    <2>2. Leads(EncodeWithLen(t.data_size), r10, q9) /\ Leads(EncodeWithLen(u.data_size), q10, q9)
      BY <1>1, <1>2, <1>12
    <2> QED
      BY <1>4, <1>12, <2>1, <2>2, CancelElement
  <1>14. t.data_root = u.data_root /\ r11 = q11 /\ Len(q11) < U16
    <2>1. t.data_root \in Octets /\ u.data_root \in Octets /\ r11 \in Octets /\ q11 \in Octets
      BY <1>1, <1>2, TxFields
    <2>2. Leads(EncodeWithLen(t.data_root), r11, q10) /\ Leads(EncodeWithLen(u.data_root), q11, q10)
      BY <1>1, <1>2, <1>13
    <2> QED
      BY <1>4, <1>13, <2>1, <2>2, CancelElement
  <1> QED
    BY <1>5, <1>6, <1>7, <1>8, <1>9, <1>10, <1>11, <1>12, <1>13, <1>14 DEF WrittenTx

\* An encoding is a string of octets, and not empty.
LEMMA EncodingOctets ==
  ASSUME NEW t \in WrittenTx
  PROVE  EncodeTx(t) \in Octets /\ Len(EncodeTx(t)) \in Nat \ {0}
  <1> DEFINE e1 == EncodeWithLen(t.format)
             e2 == EncodeWithLen(t.owner)
             e3 == EncodeWithLen(t.target)
             e4 == EncodeWithLen(t.quantity)
             e5 == EncodeWithLen(t.reward)
             e6 == EncodeWithLen(t.last_tx)
             e7 == EncodeU16(Len(t.tags))
             e8 == EncodedTags(t.tags)
             e9 == EncodeWithLen(t.data_size)
             e10 == EncodeWithLen(t.data_root)
             bytes == EncodeTx(t)
  <1>1. /\ e1 \in Octets /\ e2 \in Octets /\ e3 \in Octets /\ e4 \in Octets /\ e5 \in Octets
        /\ e6 \in Octets /\ e7 \in Octets /\ e8 \in Octets /\ e9 \in Octets /\ e10 \in Octets
    BY TxFields, EncodedWithLen, EncodedU16, EncodedTagsOctets
  <1>2. bytes = e1 \o e2 \o e3 \o e4 \o e5 \o e6 \o e7 \o e8 \o e9 \o e10
    BY DEF EncodeTx, EncodedTags
  <1>3. Len(e1) >= 2
    <2>1. t.format \in Octets
      BY TxFields
    <2>2. Len(t.format) \in Nat /\ Len(e1) = Len(t.format) + 2
      BY <2>1, JoinOctets, EncodedWithLen
    <2> QED
      BY <2>2
  <1> HIDE DEF e1, e2, e3, e4, e5, e6, e7, e8, e9, e10, bytes
  <1>4. ASSUME NEW p \in Octets, NEW e \in Octets, Len(p) >= 2
        PROVE  p \o e \in Octets /\ Len(p \o e) >= 2
    <2>1. p \o e \in Octets /\ Len(p \o e) = Len(p) + Len(e) /\ Len(p) \in Nat /\ Len(e) \in Nat
      BY JoinOctets
    <2> QED
      BY <1>4, <2>1
  <1> DEFINE Begun(p) == p \in Octets /\ Len(p) >= 2
  <1>5. Begun(e1) /\ \A p, e : Begun(p) /\ e \in Octets => Begun(p \o e)
    BY <1>1, <1>3, <1>4
  <1>6. Begun(bytes)
    <2> HIDE DEF Begun
    <2>1. Begun(e1 \o e2)
      BY <1>1, <1>5
    <2>2. Begun(e1 \o e2 \o e3)
      BY <1>1, <1>5, <2>1
    <2>3. Begun(e1 \o e2 \o e3 \o e4)
      BY <1>1, <1>5, <2>2
    <2>4. Begun(e1 \o e2 \o e3 \o e4 \o e5)
      BY <1>1, <1>5, <2>3
    <2>5. Begun(e1 \o e2 \o e3 \o e4 \o e5 \o e6)
      BY <1>1, <1>5, <2>4
    <2>6. Begun(e1 \o e2 \o e3 \o e4 \o e5 \o e6 \o e7)
      BY <1>1, <1>5, <2>5
    <2>7. Begun(e1 \o e2 \o e3 \o e4 \o e5 \o e6 \o e7 \o e8)
      BY <1>1, <1>5, <2>6
    <2>8. Begun(e1 \o e2 \o e3 \o e4 \o e5 \o e6 \o e7 \o e8 \o e9)
      BY <1>1, <1>5, <2>7
    <2> QED
      BY <1>1, <1>2, <1>5, <2>8
  <1>7. Len(bytes) \in Nat
    BY <1>6, JoinOctets
  <1> QED
    BY <1>6, <1>7 DEF bytes
=============================================================================
