------------------------------ MODULE Base64Url ------------------------------
(***************************************************************************)
(* b64url_encode (b64url.c), one byte of input a step: two bits of every   *)
(* byte, then four, then six are carried to the next character.            *)
(* Characters and bytes are numbers.  The length of the output is checked  *)
(* before the loop, against minimumBufferSize.                             *)
(***************************************************************************)
EXTENDS Naturals, Sequences

CONSTANT Inputs     \* the byte strings that are encoded

Byte == 0..255

ASSUME InputsAssumption == Inputs \subseteq Seq(Byte)

VARIABLES in, i, carry_count, carry_value, out

b64 == <<in, i, carry_count, carry_value, out>>

\* The shifts by 0, 2, 4, 6 and 8 bits.
Pow2(bits) ==
    CASE bits = 0 -> 1 [] bits = 2 -> 4 [] bits = 4 -> 16 [] bits = 6 -> 64 [] bits = 8 -> 256

\* b64url_charset: A..Z, a..z, 0..9, - and _.
Charset(n) ==
    CASE n < 26 -> 65 + n
      [] n \in 26..51 -> 71 + n
      [] n \in 52..61 -> n - 4
      [] n = 62 -> 45
      [] n = 63 -> 95

\* The room that must be there before the loop is entered.
minimumBufferSize(inlen) == inlen + inlen \div 3 + (IF inlen % 3 = 0 THEN 0 ELSE 1)

EncodeInit ==
    /\ in \in Inputs
    /\ i = 0 /\ carry_count = 0 /\ carry_value = 0 /\ out = <<>>

\* The call: its locals are set.
Begin(bytes) ==
    /\ in' = bytes
    /\ i' = 0 /\ carry_count' = 0 /\ carry_value' = 0 /\ out' = <<>>

\* The bits of the byte c that complete a character, and the bits it leaves.
\* The carry is below 2^carry_count, so that | is + and no bit is lost.
Index(c) == carry_value * Pow2(6 - carry_count) + c \div Pow2(carry_count + 2)
Rest(c) == c % Pow2(carry_count + 2)

\* Variant of EncodeByte that keeps the carry of a group for the next one.
EncodeByteKeepsCarry ==
    /\ i < Len(in)
    /\ LET c == in[i + 1] IN
       /\ out' = Append(out, Charset(Index(c))) \o
                     (IF carry_count = 4 THEN <<Charset(Rest(c))>> ELSE <<>>)
       /\ carry_value' = Rest(c) /\ carry_count' = (carry_count + 2) % 6
    /\ i' = i + 1
    /\ UNCHANGED in

EncodeByte ==
    /\ i < Len(in)
    /\ LET c == in[i + 1] IN
       \/ /\ carry_count + 2 # 6
          /\ out' = Append(out, Charset(Index(c)))
          /\ carry_value' = Rest(c) /\ carry_count' = carry_count + 2
       \/ /\ carry_count + 2 = 6
          /\ out' = out \o <<Charset(Index(c)), Charset(Rest(c))>>
          /\ carry_value' = 0 /\ carry_count' = 0
    /\ i' = i + 1
    /\ UNCHANGED in

\* Variant of Encoded without the last shift.
EncodedUnshifted ==
    IF carry_count > 0 THEN Append(out, Charset(carry_value)) ELSE out

\* What is returned after the last byte: a character for the bits left over.
Encoded ==
    IF carry_count > 0 THEN Append(out, Charset(carry_value * Pow2(6 - carry_count))) ELSE out

EncodeNext == EncodeByte \/ \E bytes \in Inputs : Begin(bytes)
EncodeSpec == EncodeInit /\ [][EncodeNext]_b64

-----------------------------------------------------------------------------
(* The reference: RFC 4648's groups of three bytes and four characters,    *)
(* zero bits after the end, no padding characters.                         *)

Octet(bytes, n) == IF n < Len(bytes) THEN bytes[n + 1] ELSE 0

\* The kth group of six bits of a byte string.
Sextet(bytes, k) ==
    LET g == 3 * (k \div 4) IN
    CASE k % 4 = 0 -> Octet(bytes, g) \div 4
      [] k % 4 = 1 -> (Octet(bytes, g) % 4) * 16 + Octet(bytes, g + 1) \div 16
      [] k % 4 = 2 -> (Octet(bytes, g + 1) % 16) * 4 + Octet(bytes, g + 2) \div 64
      [] k % 4 = 3 -> Octet(bytes, g + 2) % 64

EncodedLength(len) == len + (len + 2) \div 3

Base64(bytes) ==
    [k \in 1..EncodedLength(Len(bytes)) |-> Charset(Sextet(bytes, k - 1))]

\* The carry is what has not been written of the last byte, and the characters
\* written are the reference's.
B64Inv ==
    /\ in \in Seq(Byte) /\ i \in 0..Len(in)
    /\ carry_count = 2 * (i % 3)
    /\ carry_value = IF i % 3 = 0 THEN 0 ELSE in[i] % Pow2(carry_count)
    /\ out = [k \in 1..(i + i \div 3) |-> Charset(Sextet(in, k - 1))]

\* The characters never outgrow the room that was checked before the loop, and
\* at the end the string is encoded as RFC 4648 has it, whatever its length,
\* with the bits left over and no bit of its own lost.
EncodingIsBase64 ==
    /\ Len(Encoded) <= minimumBufferSize(Len(in))
    /\ i = Len(in) => Encoded = Base64(in)
=============================================================================
