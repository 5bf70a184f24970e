----------------------------- MODULE AddressProofs ----------------------------
(***************************************************************************)
(* b64url_encode is right for byte strings of every length: the characters *)
(* it writes are the reference's, one for each group of six bits.  Hence   *)
(* what the user reads as the device's address is the Base64url text of    *)
(* the hash of the public key in use: for every number of keys, every size *)
(* of hash, buffer and page, and whatever else was in the buffer before.   *)
(***************************************************************************)
EXTENDS AddressApp, TLAPS

-----------------------------------------------------------------------------
(* The encoder.                                                            *)

\* The first n characters of the reference.
Prefix(bytes, n) == [k \in 1..n |-> Charset(Sextet(bytes, k - 1))]

LEMMA Powers == Pow2(0) = 1 /\ Pow2(2) = 4 /\ Pow2(4) = 16 /\ Pow2(6) = 64
  BY DEF Pow2

\* Where byte n falls among the groups of six bits.
LEMMA Groups ==
  ASSUME NEW n \in Nat
  PROVE  LET k == n + n \div 3 IN
         /\ n \div 3 \in Nat /\ n % 3 \in 0..2 /\ k \in Nat
         /\ n % 3 = 0 => k % 4 = 0 /\ 3 * (k \div 4) = n
         /\ n % 3 = 1 => k % 4 = 1 /\ 3 * (k \div 4) + 1 = n
         /\ n % 3 = 2 => /\ k % 4 = 2 /\ 3 * (k \div 4) + 2 = n
                         /\ (k + 1) % 4 = 3 /\ (k + 1) \div 4 = k \div 4
  BY SMT

LEMMA NextByte ==
  ASSUME NEW n \in Nat
  PROVE  /\ n % 3 # 2 => (n + 1) % 3 = (n % 3) + 1 /\ (n + 1) \div 3 = n \div 3
         /\ n % 3 = 2 => (n + 1) % 3 = 0 /\ (n + 1) \div 3 = n \div 3 + 1
  BY SMT

LEMMA PrefixGrows ==
  ASSUME NEW bytes, NEW n \in Nat
  PROVE  Append(Prefix(bytes, n), Charset(Sextet(bytes, n))) = Prefix(bytes, n + 1)
  <1> DEFINE S == {Charset(Sextet(bytes, k - 1)) : k \in 1..(n + 1)}
             a == Prefix(bytes, n)
             b == Prefix(bytes, n + 1)
             e == Charset(Sextet(bytes, n))
  <1>1. \A k \in 1..(n + 1) : Charset(Sextet(bytes, k - 1)) \in S
    OBVIOUS
  <1>2. e \in S
    <2>1. n + 1 \in 1..(n + 1) /\ (n + 1) - 1 = n
      OBVIOUS
    <2> QED
      BY <1>1, <2>1
  <1> HIDE DEF S
  <1>3. a \in [1..n -> S] /\ b \in [1..(n + 1) -> S]
    BY <1>1 DEF Prefix
  <1>4. a \in Seq(S) /\ Len(a) = n
    <2> HIDE DEF a
    <2> QED
      BY <1>3
  <1>5. \A k \in 1..n : b[k] = a[k]
    BY DEF Prefix
  <1>6. b[n + 1] = e
    BY DEF Prefix
  <1> HIDE DEF a, b, e
  <1>7. Append(a, e) \in [1..(n + 1) -> S]
    <2>1. Append(a, e) \in Seq(S) /\ Len(Append(a, e)) = n + 1
      BY <1>2, <1>4
    <2> DEFINE c == Append(a, e)
    <2>2. c \in Seq(S) /\ Len(c) = n + 1
      BY <2>1
    <2> HIDE DEF c
    <2>3. c \in [1..(n + 1) -> S]
      BY <2>2
    <2> QED
      BY <2>3 DEF c
  <1>8. \A k \in 1..(n + 1) : Append(a, e)[k] = b[k]
    BY <1>2, <1>4, <1>5, <1>6
  <1>9. Append(a, e) = b
    BY <1>3, <1>7, <1>8
  <1> QED
    BY <1>9 DEF a, b, e

LEMMA PrefixGrowsTwice ==
  ASSUME NEW bytes, NEW n \in Nat
  PROVE  Prefix(bytes, n) \o <<Charset(Sextet(bytes, n)), Charset(Sextet(bytes, n + 1))>>
           = Prefix(bytes, n + 2)
  <1> DEFINE S == {Charset(Sextet(bytes, k - 1)) : k \in 1..(n + 2)}
             a == Prefix(bytes, n)
             e == Charset(Sextet(bytes, n))
             f == Charset(Sextet(bytes, n + 1))
  <1>1. e \in S /\ f \in S /\ a \in Seq(S)
    <2>1. \A k \in 1..(n + 2) : Charset(Sextet(bytes, k - 1)) \in S
      OBVIOUS
    <2>2. n + 1 \in 1..(n + 2) /\ n + 2 \in 1..(n + 2) /\ (n + 2) - 1 = n + 1
      OBVIOUS
    <2> HIDE DEF S
    <2>3. a \in [1..n -> S]
      BY <2>1 DEF Prefix
    <2> HIDE DEF a
    <2>4. a \in Seq(S)
      BY <2>3
    <2> QED
      BY <2>1, <2>2, <2>4
  <1> HIDE DEF S, a, e, f
  <1>2. a \o <<e, f>> = Append(Append(a, e), f)
    BY <1>1
  <1>3. Append(Append(a, e), f) = Prefix(bytes, n + 2)
    BY PrefixGrows, n + 1 \in Nat, (n + 1) + 1 = n + 2 DEF a, e, f
  <1> QED
    BY <1>2, <1>3 DEF a, e, f

-----------------------------------------------------------------------------
LEMMA ByteIsNat == \A b \in Byte : b \in Nat
  BY DEF Byte

\* The groups that byte n completes, of itself and the byte before.
LEMMA Sextets ==
  ASSUME NEW bytes, NEW n \in Nat
  PROVE  LET k == n + n \div 3 IN
         /\ n % 3 = 0 => Sextet(bytes, k) = Octet(bytes, n) \div 4
         /\ n % 3 = 1 => Sextet(bytes, k) = (Octet(bytes, n - 1) % 4) * 16 + Octet(bytes, n) \div 16
         /\ n % 3 = 2 => /\ Sextet(bytes, k) = (Octet(bytes, n - 1) % 16) * 4 + Octet(bytes, n) \div 64
                         /\ Sextet(bytes, k + 1) = Octet(bytes, n) % 64
  <1> DEFINE k == n + n \div 3
             g == 3 * (k \div 4)
  <1>1. n % 3 = 0 => Sextet(bytes, k) = Octet(bytes, n) \div 4
    <2> SUFFICES ASSUME n % 3 = 0 PROVE Sextet(bytes, k) = Octet(bytes, n) \div 4
      OBVIOUS
    <2>1. k % 4 = 0 /\ g = n
      BY Groups
    <2> HIDE DEF k
    <2> QED
      BY <2>1 DEF Sextet
  <1>2. n % 3 = 1 => Sextet(bytes, k) = (Octet(bytes, n - 1) % 4) * 16 + Octet(bytes, n) \div 16
    <2> SUFFICES ASSUME n % 3 = 1
                 PROVE  Sextet(bytes, k) = (Octet(bytes, n - 1) % 4) * 16 + Octet(bytes, n) \div 16
      OBVIOUS
    <2>1. k % 4 = 1 /\ k % 4 # 0 /\ g + 1 = n
      BY Groups
    <2>2. k \in Nat /\ g = n - 1
      BY <2>1, Groups
    <2>3. Sextet(bytes, k) = (Octet(bytes, g) % 4) * 16 + Octet(bytes, g + 1) \div 16
      <3> HIDE DEF k
      <3> QED
        BY <2>1 DEF Sextet
    <2> HIDE DEF g, k
    <2> QED
      BY <2>1, <2>2, <2>3
  <1>3. n % 3 = 2 => /\ Sextet(bytes, k) = (Octet(bytes, n - 1) % 16) * 4 + Octet(bytes, n) \div 64
                     /\ Sextet(bytes, k + 1) = Octet(bytes, n) % 64
    <2> SUFFICES ASSUME n % 3 = 2
                 PROVE  /\ Sextet(bytes, k) = (Octet(bytes, n - 1) % 16) * 4 + Octet(bytes, n) \div 64
                        /\ Sextet(bytes, k + 1) = Octet(bytes, n) % 64
      OBVIOUS
    <2>1. k % 4 = 2 /\ g + 2 = n /\ (k + 1) % 4 = 3 /\ (k + 1) \div 4 = k \div 4
      BY Groups
    <2>2. k \in Nat /\ g + 1 = n - 1
      BY <2>1, Groups
    <2> HIDE DEF k
    <2>3. Sextet(bytes, k) = (Octet(bytes, n - 1) % 16) * 4 + Octet(bytes, n) \div 64
      BY <2>1, <2>2 DEF Sextet
    <2>4. Sextet(bytes, k + 1) = Octet(bytes, n) % 64
      BY <2>1, <2>2 DEF Sextet
    <2> QED
      BY <2>3, <2>4
  <1> QED
    BY <1>1, <1>2, <1>3

\* The invariant of the next state, part by part.
LEMMA InvAfterStep ==
  ASSUME in' \in Seq(Byte), i' \in 0..Len(in'),
         carry_count' = 2 * (i' % 3),
         carry_value' = IF i' % 3 = 0 THEN 0 ELSE in'[i'] % Pow2(carry_count'),
         out' = Prefix(in', i' + i' \div 3)
  PROVE  B64Inv'
  BY DEF B64Inv, Prefix

\* One step of the loop on a state of the invariant.  The three cases are the
\* three places a byte can have in its group.
LEMMA EncodeByteKeepsInv ==
  ASSUME B64Inv, EncodeByte
  PROVE  B64Inv'
  <1> DEFINE c == in[i + 1]
             k == i + i \div 3
  <1>1. /\ in \in Seq(Byte) /\ i \in 0..Len(in) /\ i \in Nat /\ i < Len(in)
        /\ out = Prefix(in, k)
        /\ in' = in /\ i' = i + 1
    BY DEF B64Inv, EncodeByte, Prefix
  <1>2. c \in Nat /\ Octet(in, i) = c
    BY <1>1, ByteIsNat DEF Octet
  <1>3. i % 3 # 0 => in[i] \in Nat /\ Octet(in, i - 1) = in[i]
    BY <1>1, ByteIsNat DEF Octet
  <1>4. in' \in Seq(Byte) /\ i' \in 0..Len(in') /\ in'[i'] = c
    BY <1>1
  <1>5. CASE i % 3 = 0
    <2>1. carry_count = 0 /\ carry_value = 0
      BY <1>5 DEF B64Inv
    <2>2. Index(c) = c \div 4 /\ Rest(c) = c % 4
      BY <2>1, <1>2, Powers DEF Index, Rest
    <2>3. Sextet(in, k) = c \div 4
      BY <1>1, <1>2, <1>5, Sextets
    <2>4. out' = Append(out, Charset(Sextet(in, k))) /\ carry_value' = c % 4 /\ carry_count' = 2
      BY <2>1, <2>2, <2>3 DEF EncodeByte
    <2>5. out' = Prefix(in, k + 1)
      BY <1>1, <2>4, PrefixGrows, Groups
    <2>6. i' % 3 = 1 /\ i' + i' \div 3 = k + 1
      BY <1>1, <1>5, NextByte, Groups
    <2>7. carry_count' = 2 * (i' % 3)
      BY <2>4, <2>6
    <2>8. carry_value' = IF i' % 3 = 0 THEN 0 ELSE in'[i'] % Pow2(carry_count')
      <3>1. Pow2(carry_count') = 4
        BY <2>4, Powers
      <3>2. i' % 3 # 0
        BY <2>6
      <3> HIDE DEF c
      <3> QED
        BY <1>4, <2>4, <3>1, <3>2
    <2>9. out' = Prefix(in', i' + i' \div 3)
      BY <1>1, <2>5, <2>6
    <2> QED
      BY <1>4, <2>7, <2>8, <2>9, InvAfterStep
  <1>6. CASE i % 3 = 1
    <2>1. carry_count = 2 /\ carry_value = in[i] % 4
      BY <1>6, Powers DEF B64Inv
    <2>2. Index(c) = (in[i] % 4) * 16 + c \div 16 /\ Rest(c) = c % 16
      BY <2>1, <1>2, Powers DEF Index, Rest
    <2>3. Sextet(in, k) = (in[i] % 4) * 16 + c \div 16
      <3>1. Sextet(in, k) = (Octet(in, i - 1) % 4) * 16 + Octet(in, i) \div 16
        BY <1>1, <1>6, Sextets
      <3>2. Octet(in, i - 1) = in[i] /\ Octet(in, i) = c
        BY <1>2, <1>3, <1>6
      <3> QED
        BY <3>1, <3>2
    <2>4. out' = Append(out, Charset(Sextet(in, k))) /\ carry_value' = c % 16 /\ carry_count' = 4
      BY <2>1, <2>2, <2>3 DEF EncodeByte
    <2>5. out' = Prefix(in, k + 1)
      BY <1>1, <2>4, PrefixGrows, Groups
    <2>6. i' % 3 = 2 /\ i' + i' \div 3 = k + 1
      BY <1>1, <1>6, NextByte, Groups
    <2>7. carry_count' = 2 * (i' % 3)
      BY <2>4, <2>6
    <2>8. carry_value' = IF i' % 3 = 0 THEN 0 ELSE in'[i'] % Pow2(carry_count')
      <3>1. Pow2(carry_count') = 16
        BY <2>4, Powers
      <3>2. i' % 3 # 0
        BY <2>6
      <3> HIDE DEF c
      <3> QED
        BY <1>4, <2>4, <3>1, <3>2
    <2>9. out' = Prefix(in', i' + i' \div 3)
      BY <1>1, <2>5, <2>6
    <2> QED
      BY <1>4, <2>7, <2>8, <2>9, InvAfterStep
  <1>7. CASE i % 3 = 2
    <2>1. carry_count = 4 /\ carry_value = in[i] % 16
      BY <1>7, Powers DEF B64Inv
    <2>2. Index(c) = (in[i] % 16) * 4 + c \div 64 /\ Rest(c) = c % 64
      BY <2>1, <1>2, Powers DEF Index, Rest
    <2>3. Sextet(in, k) = (in[i] % 16) * 4 + c \div 64 /\ Sextet(in, k + 1) = c % 64
      <3>1. /\ Sextet(in, k) = (Octet(in, i - 1) % 16) * 4 + Octet(in, i) \div 64
            /\ Sextet(in, k + 1) = Octet(in, i) % 64
        BY <1>1, <1>7, Sextets
      <3>2. Octet(in, i - 1) = in[i] /\ Octet(in, i) = c
        BY <1>2, <1>3, <1>7
      <3> QED
        BY <3>1, <3>2
    <2>4. /\ out' = out \o <<Charset(Sextet(in, k)), Charset(Sextet(in, k + 1))>>
          /\ carry_value' = 0 /\ carry_count' = 0
      <3>1. carry_count + 2 = 6
        BY <2>1
      <3>2. /\ out' = out \o <<Charset(Index(c)), Charset(Rest(c))>>
            /\ carry_value' = 0 /\ carry_count' = 0
        BY <3>1 DEF EncodeByte
      <3> QED
        BY <2>2, <2>3, <3>2
    <2>5. out' = Prefix(in, k + 2)
      BY <1>1, <2>4, PrefixGrowsTwice, Groups
    <2>6. i' % 3 = 0 /\ i' + i' \div 3 = k + 2
      BY <1>1, <1>7, NextByte, Groups
    <2>7. carry_count' = 2 * (i' % 3)
      BY <2>4, <2>6
    <2>8. carry_value' = IF i' % 3 = 0 THEN 0 ELSE in'[i'] % Pow2(carry_count')
      BY <2>4, <2>6
    <2>9. out' = Prefix(in', i' + i' \div 3)
      BY <1>1, <2>5, <2>6
    <2> QED
      BY <1>4, <2>7, <2>8, <2>9, InvAfterStep
  <1> QED
    BY <1>1, <1>5, <1>6, <1>7, Groups

LEMMA NothingWritten ==
  ASSUME NEW bytes, NEW n, n = 0
  PROVE  [k \in 1..(n + n \div 3) |-> Charset(Sextet(bytes, k - 1))] = <<>>
  <1>1. n + n \div 3 = 0
    OBVIOUS
  <1> QED
    BY <1>1

LEMMA BeginGivesInv ==
  ASSUME NEW bytes \in Inputs, Begin(bytes)
  PROVE  B64Inv'
  <1>1. in' \in Seq(Byte) /\ i' = 0 /\ carry_count' = 0 /\ carry_value' = 0 /\ out' = <<>>
    BY InputsAssumption DEF Begin
  <1>2. i' \in 0..Len(in') /\ i' % 3 = 0 /\ i' \div 3 = 0 /\ i' + i' \div 3 = 0
    BY <1>1
  <1>3. [k \in 1..(i' + i' \div 3) |-> Charset(Sextet(in', k - 1))] = <<>>
    BY <1>1, NothingWritten
  <1> QED
    BY <1>1, <1>2, <1>3 DEF B64Inv

LEMMA InitGivesInv == EncodeInit => B64Inv
  <1> SUFFICES ASSUME EncodeInit PROVE B64Inv
    OBVIOUS
  <1>1. in \in Seq(Byte) /\ i = 0 /\ carry_count = 0 /\ carry_value = 0 /\ out = <<>>
    BY InputsAssumption DEF EncodeInit
  <1>2. i \in 0..Len(in) /\ i % 3 = 0 /\ i \div 3 = 0 /\ i + i \div 3 = 0
    BY <1>1
  <1>3. [k \in 1..(i + i \div 3) |-> Charset(Sextet(in, k - 1))] = <<>>
    BY <1>1, NothingWritten
  <1> QED
    BY <1>1, <1>2, <1>3 DEF B64Inv

LEMMA B64InvInductive == B64Inv /\ [EncodeNext]_b64 => B64Inv'
  <1> SUFFICES ASSUME B64Inv, [EncodeNext]_b64 PROVE B64Inv'
    OBVIOUS
  <1>1. CASE EncodeByte
    BY <1>1, EncodeByteKeepsInv
  <1>2. ASSUME NEW bytes \in Inputs, Begin(bytes) PROVE B64Inv'
    BY <1>2, BeginGivesInv
  <1>3. CASE UNCHANGED b64
    BY <1>3 DEF B64Inv, b64
  <1> QED
    BY <1>1, <1>2, <1>3 DEF EncodeNext

\* What the loop has written after each byte is the front of the reference, and
\* the carry is the bits of that byte still to be written.
THEOREM CarryIsRest == EncodeSpec => []B64Inv
  BY InitGivesInv, B64InvInductive, PTL DEF EncodeSpec

\* How many groups of six bits n bytes have, and what the last of them is when
\* it is cut by the end.
LEMMA Lengths ==
  ASSUME NEW n \in Nat
  PROVE  LET k == n + n \div 3 IN
         /\ n % 3 = 0 => EncodedLength(n) = k /\ minimumBufferSize(n) = k
         /\ n % 3 # 0 => EncodedLength(n) = k + 1 /\ minimumBufferSize(n) = k + 1
  BY SMT DEF EncodedLength, minimumBufferSize

LEMMA LastSextet ==
  ASSUME NEW bytes \in Seq(Byte), LET n == Len(bytes) IN n % 3 # 0
  PROVE  LET n == Len(bytes) IN
         Sextet(bytes, n + n \div 3) =
             (bytes[n] % Pow2(2 * (n % 3))) * Pow2(6 - 2 * (n % 3))
  <1> DEFINE n == Len(bytes)
             k == n + n \div 3
  <1>1. n \in Nat /\ n - 1 \in Nat /\ n % 3 \in {1, 2}
    BY Groups
  <1>2. Octet(bytes, n) = 0 /\ Octet(bytes, n - 1) = bytes[n] /\ bytes[n] \in Nat
    BY <1>1, ByteIsNat DEF Octet
  <1>3. CASE n % 3 = 1
    <2>1. Sextet(bytes, k) = (Octet(bytes, n - 1) % 4) * 16 + Octet(bytes, n) \div 16
      BY <1>1, <1>3, Sextets
    <2>2. Pow2(2 * (n % 3)) = 4 /\ Pow2(6 - 2 * (n % 3)) = 16
      BY <1>3, Powers
    <2> QED
      BY <1>2, <2>1, <2>2
  <1>4. CASE n % 3 = 2
    <2>1. Sextet(bytes, k) = (Octet(bytes, n - 1) % 16) * 4 + Octet(bytes, n) \div 64
      BY <1>1, <1>4, Sextets
    <2>2. Pow2(2 * (n % 3)) = 16 /\ Pow2(6 - 2 * (n % 3)) = 4
      BY <1>4, Powers
    <2> QED
      BY <1>2, <2>1, <2>2
  <1> QED
    BY <1>1, <1>3, <1>4

LEMMA PrefixLength ==
  ASSUME NEW bytes, NEW n \in Nat
  PROVE  Len(Prefix(bytes, n)) = n
  BY DEF Prefix

LEMMA AppendLength ==
  ASSUME NEW bytes, NEW n \in Nat, NEW e
  PROVE  Len(Append(Prefix(bytes, n), e)) = n + 1
  <1> DEFINE S == {Charset(Sextet(bytes, k - 1)) : k \in 1..n} \cup {e}
             a == Prefix(bytes, n)
  <1>1. \A k \in 1..n : Charset(Sextet(bytes, k - 1)) \in S
    OBVIOUS
  <1>2. e \in S
    OBVIOUS
  <1> HIDE DEF S
  <1>3. a \in [1..n -> S]
    BY <1>1 DEF Prefix
  <1> HIDE DEF a
  <1>4. a \in Seq(S) /\ Len(a) = n
    BY <1>3
  <1>5. Len(Append(a, e)) = n + 1
    BY <1>2, <1>4
  <1> QED
    BY <1>5 DEF a

LEMMA InvGivesEncoding == B64Inv => EncodingIsBase64
  <1> SUFFICES ASSUME B64Inv PROVE EncodingIsBase64
    OBVIOUS
  <1> DEFINE k == i + i \div 3
             last == Charset(carry_value * Pow2(6 - carry_count))
  <1>1. /\ in \in Seq(Byte) /\ i \in 0..Len(in) /\ i \in Nat /\ Len(in) \in Nat
        /\ out = Prefix(in, k)
    BY DEF B64Inv, Prefix
  <1>2. i % 3 \in 0..2 /\ k \in Nat
    BY <1>1, Groups
  <1>3. CASE i % 3 = 0
    <2>1. Encoded = Prefix(in, k)
      BY <1>1, <1>3 DEF B64Inv, Encoded
    <2>2. Len(Encoded) <= minimumBufferSize(Len(in))
      <3>1. Len(Encoded) = k
        BY <1>2, <2>1, PrefixLength
      <3>2. k <= minimumBufferSize(Len(in))
        BY <1>1, <1>3 DEF minimumBufferSize
      <3> QED
        BY <3>1, <3>2
    <2>3. i = Len(in) => Encoded = Base64(in)
      BY <1>1, <1>3, <2>1, Lengths DEF Base64, Prefix
    <2> QED
      BY <2>2, <2>3 DEF EncodingIsBase64
  <1>4. CASE i % 3 # 0
    <2>1. carry_count > 0
      BY <1>2, <1>4 DEF B64Inv
    <2>2. Encoded = Append(Prefix(in, k), last)
      BY <1>1, <2>1 DEF Encoded
    <2>3. Len(Encoded) <= minimumBufferSize(Len(in))
      <3>1. Len(Encoded) = k + 1
        BY <1>2, <2>2, AppendLength
      <3>2. k + 1 <= minimumBufferSize(Len(in))
        BY <1>1, <1>4 DEF minimumBufferSize
      <3> QED
        BY <3>1, <3>2
    <2>4. ASSUME i = Len(in) PROVE Encoded = Base64(in)
      <3>1. Sextet(in, k) = (in[i] % Pow2(2 * (i % 3))) * Pow2(6 - 2 * (i % 3))
        BY <1>1, <1>4, <2>4, LastSextet
      <3>2. last = Charset(Sextet(in, k))
        BY <1>4, <3>1 DEF B64Inv
      <3>3. Encoded = Prefix(in, k + 1)
        BY <1>2, <2>2, <3>2, PrefixGrows
      <3> QED
        BY <1>1, <1>4, <2>4, <3>3, Lengths DEF Base64, Prefix
    <2> QED
      BY <2>3, <2>4 DEF EncodingIsBase64
  <1> QED
    BY <1>3, <1>4

\* b64url_encode returns the Base64url text of every byte string, and at no time
\* writes more than the room it has checked.
THEOREM Encodes == EncodeSpec => []EncodingIsBase64
  BY CarryIsRest, InvGivesEncoding, PTL

-----------------------------------------------------------------------------
(* No character of an address is zero, so that the text ends where the     *)
(* address ends.                                                           *)

LEMMA OctetRange ==
  ASSUME NEW bytes \in Seq(Byte), NEW n \in Nat
  PROVE  Octet(bytes, n) \in Byte
  <1>1. CASE n < Len(bytes)
    BY <1>1 DEF Octet
  <1>2. CASE ~(n < Len(bytes))
    <2>1. 0 \in Byte
      BY DEF Byte
    <2> QED
      BY <1>2, <2>1 DEF Octet
  <1> QED
    BY <1>1, <1>2

LEMMA Bits ==
  ASSUME NEW a \in Byte, NEW b \in Byte
  PROVE  /\ a \div 4 \in 0..63 /\ a % 64 \in 0..63
         /\ (a % 4) * 16 + b \div 16 \in 0..63
         /\ (a % 16) * 4 + b \div 64 \in 0..63
  BY SMT DEF Byte

LEMMA SextetRange ==
  ASSUME NEW bytes \in Seq(Byte), NEW n \in Nat
  PROVE  Sextet(bytes, n) \in 0..63
  <1> DEFINE g == 3 * (n \div 4)
             a == Octet(bytes, g)
             b == Octet(bytes, g + 1)
             c == Octet(bytes, g + 2)
  <1>1. g \in Nat /\ n % 4 \in {0, 1, 2, 3}
    BY SMT
  <1>2. a \in Byte /\ b \in Byte /\ c \in Byte
    BY <1>1, OctetRange
  <1>3. \/ n % 4 = 0 /\ Sextet(bytes, n) = a \div 4
        \/ n % 4 = 1 /\ Sextet(bytes, n) = (a % 4) * 16 + b \div 16
        \/ n % 4 = 2 /\ Sextet(bytes, n) = (b % 16) * 4 + c \div 64
        \/ n % 4 = 3 /\ Sextet(bytes, n) = c % 64
    BY <1>1 DEF Sextet
  <1> HIDE DEF a, b, c
  <1>4. /\ a \div 4 \in 0..63 /\ (a % 4) * 16 + b \div 16 \in 0..63
        /\ (b % 16) * 4 + c \div 64 \in 0..63 /\ c % 64 \in 0..63
    BY <1>2, Bits, Zenon
  <1> QED
    BY <1>3, <1>4, Zenon

LEMMA CharsetIsNotZero ==
  ASSUME NEW n \in 0..63
  PROVE  Charset(n) # 0
  <1>1. CASE n < 26
    BY <1>1 DEF Charset
  <1>2. CASE n \in 26..51
    BY <1>2 DEF Charset
  <1>3. CASE n \in 52..61
    BY <1>3 DEF Charset
  <1>4. CASE n = 62
    BY <1>4 DEF Charset
  <1>5. CASE n = 63
    BY <1>5 DEF Charset
  <1> QED
    BY <1>1, <1>2, <1>3, <1>4, <1>5

\* A string without zeroes, copied to the front of a clear buffer.
LEMMA TextOfPut ==
  ASSUME NEW len \in Nat, len < BufferSize,
         NEW bytes, bytes = [k \in 1..len |-> bytes[k]], Len(bytes) = len,
         \A k \in 1..len : bytes[k] # 0
  PROVE  Text(Put(Zeroes, bytes)) = bytes
  <1> DEFINE buffer == Put(Zeroes, bytes)
             isText(n) == \A cell \in 0..(n - 1) : buffer[cell] # 0
             ends(n) == isText(n) /\ (n = BufferSize \/ buffer[n] = 0)
             end == CHOOSE n \in 0..BufferSize : ends(n)
  <1>1. BufferSize \in Nat
    BY SizesAssumption
  <1>2. \A cell \in 0..(BufferSize - 1) :
            buffer[cell] = IF cell < len THEN bytes[cell + 1] ELSE 0
    BY DEF Put, Zeroes, Cells
  <1>3. \A cell \in 0..(len - 1) : buffer[cell] # 0 /\ buffer[cell] = bytes[cell + 1]
    BY <1>1, <1>2
  <1>4. buffer[len] = 0
    BY <1>1, <1>2
  <1>5. len \in 0..BufferSize
    BY <1>1
  <1> HIDE DEF buffer
  <1>6. ends(len)
    BY <1>3, <1>4
  <1>7. ASSUME NEW n \in 0..BufferSize, ends(n) PROVE n = len
    <2>1. CASE n < len
      <3>1. n \in 0..(len - 1) /\ n # BufferSize
        BY <1>1, <2>1
      <3>2. buffer[n] # 0
        BY <1>3, <3>1
      <3> QED
        BY <1>7, <3>1, <3>2
    <2>2. CASE n > len
      <3>1. len \in 0..(n - 1)
        BY <1>1, <2>2
      <3>2. buffer[len] # 0
        BY <1>7, <3>1
      <3> QED
        BY <1>4, <3>2
    <2> QED
      BY <1>1, <2>1, <2>2
  <1>8. end = len
    <2>1. end \in 0..BufferSize /\ ends(end)
      BY <1>5, <1>6
    <2> HIDE DEF end, ends
    <2> QED
      BY <1>7, <2>1
  <1>9. Text(buffer) = [k \in 1..end |-> buffer[k - 1]]
    BY DEF Text
  <1>10. [k \in 1..len |-> buffer[k - 1]] = [k \in 1..len |-> bytes[k]]
    <2>1. \A k \in 1..len : k - 1 \in 0..(len - 1) /\ (k - 1) + 1 = k
      OBVIOUS
    <2>2. \A k \in 1..len : buffer[k - 1] = bytes[k]
      BY <1>3, <2>1
    <2> QED
      BY <2>2
  <1> QED
    BY <1>8, <1>9, <1>10 DEF buffer

LEMMA HashOfPubIsInput ==
  ASSUME NEW pub \in Keys \cup {NoKey}
  PROVE  HashOfPub(pub) \in Inputs /\ Len(HashOfPub(pub)) = CX_SHA256_SIZE
  <1> DEFINE n == IF pub = NoKey THEN <<>> ELSE Modulus[pub]
  <1>1. n \in {Modulus[key] : key \in Keys} \cup {<<>>}
    OBVIOUS
  <1> HIDE DEF n
  <1>2. Sha256[n] \in {hash \in Inputs : Len(hash) = CX_SHA256_SIZE}
    BY <1>1, HashAssumption
  <1> QED
    BY <1>2 DEF HashOfPub, n

LEMMA AddressText ==
  ASSUME NEW pub \in Keys \cup {NoKey}
  PROVE  Text(Put(Zeroes, Base64(HashOfPub(pub)))) = Base64(HashOfPub(pub))
  <1> DEFINE hash == HashOfPub(pub)
             bytes == Base64(hash)
             len == EncodedLength(CX_SHA256_SIZE)
  <1>1. hash \in Seq(Byte) /\ Len(hash) = CX_SHA256_SIZE /\ CX_SHA256_SIZE \in Nat
    BY HashOfPubIsInput, InputsAssumption, SizesAssumption
  <1> HIDE DEF hash
  <1>2. len \in Nat /\ len = AddressSize /\ len < BufferSize
    <2>1. len = minimumBufferSize(CX_SHA256_SIZE) /\ len \in Nat
      BY <1>1, Lengths, Groups
    <2> HIDE DEF len
    <2> QED
      BY <2>1, SizesAssumption
  <1>3. bytes = [k \in 1..len |-> Charset(Sextet(hash, k - 1))]
    BY <1>1 DEF Base64
  <1> HIDE DEF len, bytes
  <1>4. Len(bytes) = len /\ bytes = [k \in 1..len |-> bytes[k]]
    BY <1>2, <1>3
  <1>5. \A k \in 1..len : bytes[k] # 0
    <2>1. ASSUME NEW k \in 1..len PROVE bytes[k] # 0
      <3>1. k - 1 \in Nat
        BY <1>2
      <3>2. Charset(Sextet(hash, k - 1)) # 0
        BY <1>1, <3>1, SextetRange, CharsetIsNotZero
      <3> QED
        BY <1>3, <3>2
    <2> QED
      BY <2>1
  <1>6. Text(Put(Zeroes, bytes)) = bytes
    BY <1>2, <1>4, <1>5, TextOfPut
  <1> QED
    BY <1>6 DEF bytes, hash

-----------------------------------------------------------------------------
(* The app runs the encoder as Base64Url has it.                           *)

\* A step of the app with any host: AddressNext has the hosts that send Commands.
AddressStep ==
    \/ \E command : HandleApdu(command)
    \/ AppStep \/ UserChoice \/ Environment

LEMMA StepsOfEncoder ==
  ASSUME rsa_pub \in Keys \cup {NoKey}, [AddressStep]_addressVars
  PROVE  [EncodeNext]_b64
  <1>1. CASE EncodeByte
    BY <1>1 DEF EncodeNext
  <1>2. CASE Begin(<<>>)
    BY <1>2, HashAssumption DEF EncodeNext
  <1>3. CASE Begin(HashOfPub(rsa_pub))
    BY <1>3, HashOfPubIsInput DEF EncodeNext
  <1>4. CASE UNCHANGED b64
    BY <1>4
  <1>5. EncodeByte \/ Begin(<<>>) \/ Begin(HashOfPub(rsa_pub)) \/ UNCHANGED b64
    <2>1. ASSUME NEW command, HandleApdu(command)
          PROVE  Begin(HashOfPub(rsa_pub)) \/ UNCHANGED b64
      BY <2>1 DEF HandleApdu, Refuse, handle_getversion, handleGetPubKeyPart, handleGetAddress, Say
    <2>2. CASE AppStep
      BY <2>2 DEF AppStep, EncodeStep, FillAddress
    <2>3. CASE UserChoice
      BY <2>3 DEF UserChoice, ShowPage, ApproveAddress, Reject
    <2>4. CASE Environment
      BY <2>4 DEF Environment, Start, Initialize, Stop, ChangeMnemonic, ToggleLock
    <2>5. CASE UNCHANGED addressVars
      BY <2>5 DEF addressVars
    <2> QED
      BY <2>1, <2>2, <2>3, <2>4, <2>5 DEF AddressStep
  <1> QED
    BY <1>1, <1>2, <1>3, <1>4, <1>5

-----------------------------------------------------------------------------
(* The invariant.                                                          *)

LEMMA InitGivesAddressInv == AddressInit => AddressInv
  <1> SUFFICES ASSUME AddressInit PROVE AddressInv
    OBVIOUS
  <1>1. B64Inv
    BY InitGivesInv DEF AddressInit
  <1>2. rsa_pub = NoKey /\ stage = "none" /\ pages = <<>>
    BY DEF AddressInit, KeyInit
  <1> QED
    BY <1>1, <1>2 DEF AddressInv, ReviewShowsAddress

\* Once a GET_ADDR is done, or there was none, the rest of the invariant is that
\* the public key has a value and no page is left.
LEMMA NoReviewGivesInv ==
  ASSUME B64Inv', rsa_pub' \in Keys \cup {NoKey}, stage' = "none", pages' = <<>>
  PROVE  AddressInv'
  BY DEF AddressInv, ReviewShowsAddress

LEMMA HandleApduKeepsInv ==
  ASSUME AddressInv, B64Inv', NEW command, HandleApdu(command)
  PROVE  AddressInv'
  <1> DEFINE buffer == Put(apdu, command)
  <1>1. /\ rsa_pub' = rsa_pub /\ rsa_pub \in Keys \cup {NoKey}
        /\ device_initialized' = device_initialized
        /\ stage = "none" /\ pages = <<>>
    BY DEF HandleApdu, keyVars, store, AddressInv
  <1>2. CASE stage' = stage /\ pages' = pages
    BY <1>1, <1>2, NoReviewGivesInv
  <1>3. CASE /\ device_initialized
             /\ apdu' = Zeroes /\ Begin(HashOfPub(rsa_pub))
             /\ stage' = "encoding" /\ pages' = pages
    <2>1. in' = HashOfPub(rsa_pub)
      BY <1>3 DEF Begin
    <2>2. HashOfPub(rsa_pub)' = HashOfPub(rsa_pub)
      BY <1>1 DEF HashOfPub
    <2> QED
      BY <1>1, <1>3, <2>1, <2>2 DEF AddressInv, ReviewShowsAddress
  <1>4. \/ Refuse(buffer) \/ handle_getversion(buffer)
        \/ handleGetPubKeyPart(buffer) \/ handleGetAddress(buffer)
    BY DEF HandleApdu
  <1> HIDE DEF buffer
  <1>5. CASE Refuse(buffer)
    BY <1>2, <1>5 DEF Refuse, Say
  <1>6. CASE handle_getversion(buffer)
    BY <1>2, <1>6 DEF handle_getversion, Say
  <1>7. CASE handleGetPubKeyPart(buffer)
    BY <1>2, <1>7 DEF handleGetPubKeyPart, Say
  <1>8. CASE handleGetAddress(buffer)
    <2>1. device_initialized
      BY <1>8 DEF handleGetAddress, Admitted, INS_GET_ADDR, INS_GET_VERSION
    <2> QED
      BY <1>2, <1>3, <1>8, <2>1 DEF handleGetAddress, Say, Cleared
  <1> QED
    BY <1>4, <1>5, <1>6, <1>7, <1>8

LEMMA FillAddressKeepsInv ==
  ASSUME AddressInv, B64Inv', FillAddress
  PROVE  AddressInv'
  <1>1. /\ rsa_pub' = rsa_pub /\ rsa_pub \in Keys \cup {NoKey}
        /\ device_initialized' = device_initialized /\ device_initialized
        /\ in = HashOfPub(rsa_pub) /\ apdu = Zeroes /\ i = Len(in)
        /\ pages = <<>> /\ pages' = <<>>
    BY DEF FillAddress, keyVars, store, AddressInv
  <1>2. CASE stage' = "none"
    BY <1>1, <1>2, NoReviewGivesInv
  <1>3. CASE stage' = "review" /\ apdu' = Put(apdu, Encoded)
    <2>1. Encoded = Base64(HashOfPub(rsa_pub))
      BY <1>1, InvGivesEncoding DEF AddressInv, EncodingIsBase64
    <2>2. Text(apdu') = Base64(HashOfPub(rsa_pub))
      BY <1>1, <1>3, <2>1, AddressText
    <2>3. HashOfPub(rsa_pub)' = HashOfPub(rsa_pub)
      BY <1>1 DEF HashOfPub
    <2>4. Base64(HashOfPub(rsa_pub))' = Base64(HashOfPub(rsa_pub)) /\ Text(apdu)' = Text(apdu')
      BY <2>3
    <2>5. pages' = [page \in 1..Len(pages') |-> pageString(Base64(HashOfPub(rsa_pub)), page)]
      BY <1>1
    <2>6. ReviewShowsAddress'
      BY <1>1, <2>2, <2>3, <2>5 DEF ReviewShowsAddress
    <2> QED
      BY <1>1, <1>3, <2>6 DEF AddressInv
  <1> QED
    BY <1>2, <1>3 DEF FillAddress

LEMMA ShowPageKeepsInv ==
  ASSUME AddressInv, B64Inv', ShowPage
  PROVE  AddressInv'
  <1> DEFINE address == Base64(HashOfPub(rsa_pub))
             n == Len(pages)
             f(page) == pageString(address, page)
  <1>1. /\ rsa_pub' = rsa_pub /\ apdu' = apdu /\ stage' = stage /\ in' = in
        /\ device_initialized' = device_initialized
        /\ stage = "review"
    BY DEF ShowPage, keyVars, store, b64
  <1>2. Text(apdu) = address /\ pages = [page \in 1..n |-> f(page)]
    BY <1>1 DEF AddressInv, ReviewShowsAddress
  <1>3. PICK page \in 1..(n + 1) :
            pages' = [k \in 1..(IF page > n THEN page ELSE n) |->
                          IF k = page THEN f(page) ELSE pages[k]]
    BY <1>2 DEF ShowPage
  <1>4. n \in Nat
    BY DEF AddressInv
  <1> DEFINE m == IF page > n THEN page ELSE n
  <1>5. m \in Nat /\ \A k \in 1..m : k # page => k \in 1..n
    BY <1>3, <1>4
  <1> HIDE DEF f, n, m
  <1>6. pages' = [k \in 1..m |-> f(k)]
    BY <1>2, <1>3, <1>5 DEF m
  <1>7. Len(pages') = m
    BY <1>5, <1>6
  <1>8. HashOfPub(rsa_pub)' = HashOfPub(rsa_pub)
    BY <1>1 DEF HashOfPub
  <1>9. Text(apdu') = Text(apdu)
    BY <1>1
  <1>10. pages' = [k \in 1..Len(pages') |-> pageString(address, k)]
    BY <1>6, <1>7 DEF f
  <1>11. ReviewShowsAddress'
    BY <1>2, <1>8, <1>9, <1>10 DEF ReviewShowsAddress
  <1> QED
    BY <1>1, <1>5, <1>7, <1>11 DEF AddressInv

LEMMA AddressInvInductive == AddressInv /\ [AddressStep]_addressVars => AddressInv'
  <1> SUFFICES ASSUME AddressInv, [AddressStep]_addressVars PROVE AddressInv'
    OBVIOUS
  <1>1. B64Inv'
    <2>1. rsa_pub \in Keys \cup {NoKey} /\ B64Inv
      BY DEF AddressInv
    <2> QED
      BY <2>1, StepsOfEncoder, B64InvInductive
  <1>2. ASSUME NEW command, HandleApdu(command) PROVE AddressInv'
    BY <1>1, <1>2, HandleApduKeepsInv
  <1>3. CASE EncodeStep
    <2>1. /\ rsa_pub' = rsa_pub /\ apdu' = apdu /\ stage' = stage /\ pages' = pages /\ in' = in
          /\ device_initialized' = device_initialized
          /\ stage = "encoding"
      BY <1>3 DEF EncodeStep, keyVars, store, answer, EncodeByte
    <2>2. HashOfPub(rsa_pub)' = HashOfPub(rsa_pub)
      BY <2>1 DEF HashOfPub
    <2> QED
      BY <1>1, <2>1, <2>2 DEF AddressInv, ReviewShowsAddress
  <1>4. CASE FillAddress
    BY <1>1, <1>4, FillAddressKeepsInv
  <1>5. CASE ShowPage
    BY <1>1, <1>5, ShowPageKeepsInv
  <1>6. CASE ApproveAddress \/ Reject
    <2>1. rsa_pub' \in Keys \cup {NoKey} /\ stage' = "none" /\ pages' = <<>>
      BY <1>6 DEF ApproveAddress, Reject, keyVars, store, AddressInv
    <2> QED
      BY <1>1, <2>1, NoReviewGivesInv
  <1>7. CASE Start \/ ChangeMnemonic \/ ToggleLock \/ UNCHANGED addressVars
    <2>1. /\ rsa_pub' = rsa_pub /\ apdu' = apdu /\ stage' = stage /\ pages' = pages /\ in' = in
          /\ device_initialized' = device_initialized
      BY <1>7 DEF Start, ChangeMnemonic, ToggleLock, KeyStart, KeyChange, addressVars, keyVars,
                  store, answer, b64
    <2>2. HashOfPub(rsa_pub)' = HashOfPub(rsa_pub)
      BY <2>1 DEF HashOfPub
    <2> QED
      BY <1>1, <2>1, <2>2 DEF AddressInv, ReviewShowsAddress
  <1>8. CASE Initialize
    <2>1. stage' = "none" /\ pages' = <<>> /\ rsa_pub' \in Keys \cup {NoKey}
      BY <1>8 DEF Initialize, BecomeReady, answer, AddressInv
    <2> QED
      BY <1>1, <2>1, NoReviewGivesInv
  <1>9. CASE Stop
    <2>1. stage' = "none" /\ pages' = <<>> /\ rsa_pub' \in Keys \cup {NoKey}
      BY <1>9 DEF Stop, KeyStop
    <2> QED
      BY <1>1, <2>1, NoReviewGivesInv
  <1> QED
    BY <1>2, <1>3, <1>4, <1>5, <1>6, <1>7, <1>8, <1>9
       DEF AddressStep, AppStep, UserChoice, Environment

\* The invariant of the app, and with it that of the encoder it runs.
THEOREM AddressInvariance == AddressSpec => []AddressInv
  <1>1. AddressInv /\ [AddressNext]_addressVars => AddressInv'
    BY AddressInvInductive DEF AddressNext, AddressStep
  <1> QED
    BY <1>1, InitGivesAddressInv, PTL DEF AddressSpec

\* Every page of every review is a part of the address of the public key in use,
\* whatever was in the buffer before the command.
THEOREM ShowsAddress == AddressSpec => []ReviewShowsAddress
  <1>1. AddressInv => ReviewShowsAddress
    BY DEF AddressInv
  <1> QED
    BY <1>1, AddressInvariance, PTL
=============================================================================
