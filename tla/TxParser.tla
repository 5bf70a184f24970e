------------------------------ MODULE TxParser ------------------------------
(***************************************************************************)
(* The transaction parser of the app: parser_parse, _read and the readers  *)
(* of elements (app/src/parser.c, app/src/parser_impl.c), byte by byte.    *)
(*                                                                         *)
(* An element is a length of 16 bits, the high byte first, and that many   *)
(* bytes.  The parser copies nothing: an element of parser_tx_obj points   *)
(* into the buffer.  parser_tx_obj is never cleared, so that a parse finds *)
(* in it what earlier parses, of other buffers, left there.                *)
(*                                                                         *)
(* Every element read is a step.  Error codes are left out: all that is    *)
(* kept of a parse is whether it failed.                                   *)
(***************************************************************************)
EXTENDS Widths, Sequences

CONSTANTS
    Inputs,     \* what a host may have left in the transaction buffer
    OwnerLen,   \* RSA_MODULUS_LEN, 512
    MaxTags,    \* MAX_NUMBER_TAGS, 16
    MaxParses   \* bound: parses in a behaviour

Byte == 0..255

ASSUME InputsAssumption == \A b \in Inputs : b \in Seq(Byte)
ASSUME SizesAssumption == OwnerLen \in Nat /\ MaxTags \in Nat /\ MaxParses \in Nat

\* The elements of a transaction other than its tags.
Fields == {"format", "owner", "target", "quantity", "reward", "last_tx", "data_size", "data_root"}
Version == 50   \* the character '2'

Tags == 0..(MaxTags - 1)
Element == [ptr : Nat, len : Word]
NoElement == [ptr |-> 0, len |-> 0]

VARIABLES
    buffer, offset,                             \* parser_context_t
    element, tags_count, tagKey, tagValue,      \* parser_tx_obj
    pc,         \* what _read reads next
    i,          \* the tag being read
    parses      \* how many parses were begun

tx == <<element, tags_count, tagKey, tagValue>>
parserVars == <<buffer, offset, tx, pc, i, parses>>

Places == Fields \cup {"idle", "tags_count", "tag_key", "tag_value", "ok", "failed"}

\* Every variable holds a value of its kind, every integer in its width.
TypeOK ==
    /\ buffer \in Seq(Byte)
    /\ offset \in Word
    /\ element \in [Fields -> Element]
    /\ tags_count \in Word
    /\ tagKey \in [Tags -> Element] /\ tagValue \in [Tags -> Element]
    /\ pc \in Places
    /\ i \in 0..MaxTags
    /\ parses \in 0..MaxParses

Init ==
    /\ buffer = <<>> /\ offset = 0
    /\ element = [f \in Fields |-> NoElement]
    /\ tags_count = 0
    /\ tagKey = [t \in Tags |-> NoElement] /\ tagValue = [t \in Tags |-> NoElement]
    /\ pc = "idle" /\ i = 0 /\ parses = 0

-----------------------------------------------------------------------------
\* bufferLen is the length of the buffer, in 16 bits.
bufferLen == Len(buffer) % U16

\* CTX_CHECK_AVAIL, whose sum is an int and does not wrap.
Available(o, n) == o + n <= bufferLen

\* A byte of the buffer.  Beyond it lies memory that the parser has no business
\* to look at, zeroes here.
ByteAt(o) == IF o < Len(buffer) THEN buffer[o + 1] ELSE 0

U16At(o) == (ByteAt(o) * ByteSize + ByteAt(o + 1)) % U16

\* Variant of ReadElement without the check of the length.
ReadElementUnchecked(e) ==
    IF ~Available(offset, 2)
    THEN [ok |-> FALSE, offset |-> offset, element |-> e]
    ELSE LET len == U16At(offset) IN
         [ok |-> TRUE, offset |-> offset + 2 + len,
          element |-> [ptr |-> offset + 2, len |-> len]]

\* Variant of ReadElement that leaves an element alone when the new one is empty.
ReadElementUnlessEmpty(e) ==
    IF ~Available(offset, 2)
    THEN [ok |-> FALSE, offset |-> offset, element |-> e]
    ELSE LET len == U16At(offset) IN
         IF ~Available(offset + 2, len)
         THEN [ok |-> FALSE, offset |-> offset + 2, element |-> [e EXCEPT !.len = len]]
         ELSE [ok |-> TRUE, offset |-> offset + 2 + len,
               element |-> IF len = 0 THEN e ELSE [ptr |-> offset + 2, len |-> len]]

\* parser_readElement: an element that reaches beyond the buffer is left with
\* its new length and its old pointer.
ReadElement(e) ==
    IF ~Available(offset, 2)
    THEN [ok |-> FALSE, offset |-> offset, element |-> e]
    ELSE LET len == U16At(offset) IN
         IF ~Available(offset + 2, len)
         THEN [ok |-> FALSE, offset |-> offset + 2, element |-> [e EXCEPT !.len = len]]
         ELSE [ok |-> TRUE, offset |-> offset + 2 + len,
               element |-> [ptr |-> offset + 2, len |-> len]]

\* The bytes an element points to.
Bytes(e) == [n \in 1..e.len |-> ByteAt(e.ptr + n - 1)]

\* The two elements whose content _read looks at.
Accepted(f, e) ==
    /\ f = "format" => e.len = 1 /\ ByteAt(e.ptr) = Version
    /\ f = "owner" => e.len = OwnerLen

After ==
    [f \in Fields |->
        CASE f = "format" -> "owner"
          [] f = "owner" -> "target"
          [] f = "target" -> "quantity"
          [] f = "quantity" -> "reward"
          [] f = "reward" -> "last_tx"
          [] f = "last_tx" -> "tags_count"
          [] f = "data_size" -> "data_root"
          [] f = "data_root" -> "ok"]

-----------------------------------------------------------------------------
\* parser_parse on what the buffer now holds.
Parse(b) ==
    /\ pc \in {"idle", "ok", "failed"}
    /\ parses < MaxParses
    /\ parses' = parses + 1
    /\ buffer' = b
    /\ offset' = 0
    /\ i' = 0
    /\ pc' = IF Len(b) % U16 = 0 THEN "failed" ELSE "format"
    /\ UNCHANGED tx

ReadField(f) ==
    /\ pc = f
    /\ LET r == ReadElement(element[f]) IN
       /\ element' = [element EXCEPT ![f] = r.element]
       /\ offset' = r.offset
       /\ pc' = IF r.ok /\ Accepted(f, r.element) THEN After[f] ELSE "failed"
    /\ UNCHANGED <<buffer, tags_count, tagKey, tagValue, i, parses>>

\* The for loop of _read: another tag, or what follows the tags.
TagsOrSize(n, count) == IF n < count THEN "tag_key" ELSE "data_size"

\* Variant of ReadTagsCount that admits one tag more than parser_tx_t holds.
ReadTagsCountOneMore ==
    /\ pc = "tags_count"
    /\ \/ /\ ~Available(offset, 2)
          /\ pc' = "failed"
          /\ UNCHANGED <<offset, tags_count>>
       \/ /\ Available(offset, 2)
          /\ tags_count' = U16At(offset)
          /\ offset' = offset + 2
          /\ pc' = IF tags_count' > MaxTags + 1 THEN "failed" ELSE TagsOrSize(0, tags_count')
    /\ i' = 0
    /\ UNCHANGED <<buffer, element, tagKey, tagValue, parses>>

ReadTagsCount ==
    /\ pc = "tags_count"
    /\ \/ /\ ~Available(offset, 2)
          /\ pc' = "failed"
          /\ UNCHANGED <<offset, tags_count>>
       \/ /\ Available(offset, 2)
          /\ tags_count' = U16At(offset)
          /\ offset' = offset + 2
          /\ pc' = IF tags_count' > MaxTags THEN "failed" ELSE TagsOrSize(0, tags_count')
    /\ i' = 0
    /\ UNCHANGED <<buffer, element, tagKey, tagValue, parses>>

\* parser_readTag, its first element and its second.
ReadTagKey ==
    /\ pc = "tag_key"
    /\ LET r == ReadElement(tagKey[i]) IN
       /\ tagKey' = [tagKey EXCEPT ![i] = r.element]
       /\ offset' = r.offset
       /\ pc' = IF r.ok THEN "tag_value" ELSE "failed"
    /\ UNCHANGED <<buffer, element, tags_count, tagValue, i, parses>>

ReadTagValue ==
    /\ pc = "tag_value"
    /\ LET r == ReadElement(tagValue[i]) IN
       /\ tagValue' = [tagValue EXCEPT ![i] = r.element]
       /\ offset' = r.offset
       /\ \/ /\ r.ok
             /\ i' = i + 1
             /\ pc' = TagsOrSize(i + 1, tags_count)
          \/ /\ ~r.ok
             /\ pc' = "failed"
             /\ UNCHANGED i
    /\ UNCHANGED <<buffer, element, tags_count, tagKey, parses>>

Read == \/ \E f \in Fields : ReadField(f)
        \/ ReadTagsCount \/ ReadTagKey \/ ReadTagValue

Next == Read \/ \E b \in Inputs : Parse(b)

ParserSpec == Init /\ [][Next]_parserVars

-----------------------------------------------------------------------------
(* Properties.                                                             *)

\* An element is inside what was read of the buffer.
InBuffer(e) == e.ptr + e.len <= offset

\* A parse that succeeds leaves no element, tags included, that reaches beyond
\* the buffer, whatever earlier parses left in parser_tx_obj.
ElementsInBuffer ==
    pc = "ok" =>
        /\ offset <= Len(buffer)
        /\ \A f \in Fields : InBuffer(element[f])
        /\ tags_count <= MaxTags
        /\ \A t \in Tags : t < tags_count => InBuffer(tagKey[t]) /\ InBuffer(tagValue[t])

\* The inductive invariant behind it: the place of every element in the order
\* of reading, and the bounds of those before the place _read has reached.
Rank ==
    [p \in Places |->
        CASE p \in {"idle", "failed"} -> 0
          [] p = "format" -> 0 [] p = "owner" -> 1 [] p = "target" -> 2
          [] p = "quantity" -> 3 [] p = "reward" -> 4 [] p = "last_tx" -> 5
          [] p = "tags_count" -> 6 [] p \in {"tag_key", "tag_value"} -> 7
          [] p = "data_size" -> 8 [] p = "data_root" -> 9
          [] p = "ok" -> 10]

FieldsRead == \A f \in Fields : Rank[f] < Rank[pc] => InBuffer(element[f])

TagsRead ==
    /\ Rank[pc] >= 7 => tags_count <= MaxTags
    /\ Rank[pc] = 7 => i < tags_count
    /\ Rank[pc] >= 8 => i = tags_count
    /\ \A t \in Tags : Rank[pc] >= 7 /\ t < i => InBuffer(tagKey[t]) /\ InBuffer(tagValue[t])
    /\ pc = "tag_value" => InBuffer(tagKey[i])

ParserInv ==
    /\ TypeOK
    /\ offset <= bufferLen
    /\ FieldsRead
    /\ TagsRead
=============================================================================
