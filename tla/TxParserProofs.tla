--------------------------- MODULE TxParserProofs ---------------------------
(***************************************************************************)
(* What holds of the parser for every content of the buffer, every length  *)
(* of an owner and every number of tags: no element it accepts points      *)
(* outside the buffer.                                                     *)
(***************************************************************************)
EXTENDS TxParser, TLAPS

-----------------------------------------------------------------------------
(* Helpers.                                                                *)

\* What is no more than a number of 16 bits has 16 bits.
LEMMA Below ==
    ASSUME NEW w \in Nat \ {0}, NEW b \in 0..(w - 1), NEW n \in Nat, n <= b
    PROVE n \in 0..(w - 1)
  OBVIOUS

\* A remainder is in its range, and no more than what is divided.
LEMMA Remainder ==
    ASSUME NEW w \in Nat \ {0}, NEW n \in Nat
    PROVE n % w \in 0..(w - 1) /\ n % w <= n
  OBVIOUS

\* 16 bits.
LEMMA Words ==
    /\ U16 \in Nat \ {0}
    /\ Word \subseteq Nat
    /\ 0 \in Word
    /\ \A n \in Nat : n % U16 \in Word /\ n % U16 <= n
    /\ \A b \in Word : \A n \in Nat : n <= b => n \in Word
  <1>1. U16 \in Nat \ {0}
    BY ByteSizeAssumption DEF U16
  <1>2. \A n \in Nat : n % U16 \in Word /\ n % U16 <= n
    BY <1>1, Remainder DEF Word
  <1>3. \A b \in Word : \A n \in Nat : n <= b => n \in Word
    BY <1>1, Below DEF Word
  <1>4. Word \subseteq Nat /\ 0 \in Word
    BY <1>1 DEF Word
  <1> QED
    BY <1>1, <1>2, <1>3, <1>4

\* bufferLen has 16 bits and is no more than what the buffer holds.
LEMMA BufferLen ==
    ASSUME buffer \in Seq(Byte)
    PROVE bufferLen \in Word /\ bufferLen <= Len(buffer)
  <1>1. Len(buffer) \in Nat
    OBVIOUS
  <1> QED
    BY <1>1, Words DEF bufferLen

\* U16At has 16 bits.
LEMMA U16AtWord ==
    ASSUME buffer \in Seq(Byte), NEW o \in Nat
    PROVE U16At(o) \in Word
  <1>1. Byte \subseteq Nat
    BY DEF Byte
  <1>2. ASSUME NEW q \in Nat PROVE ByteAt(q) \in Nat
    <2>1. CASE q < Len(buffer)
      <3>1. q + 1 \in 1..Len(buffer)
        BY <2>1
      <3>2. buffer[q + 1] \in Byte
        BY <3>1
      <3> QED
        BY <1>1, <2>1, <3>2 DEF ByteAt
    <2>2. CASE ~(q < Len(buffer))
      BY <2>2 DEF ByteAt
    <2> QED
      BY <2>1, <2>2
  <1>3. ByteAt(o) \in Nat /\ ByteAt(o + 1) \in Nat
    <2>1. o + 1 \in Nat
      OBVIOUS
    <2> QED
      BY <1>2, <2>1, Zenon
  <1>4. ByteAt(o) * ByteSize + ByteAt(o + 1) \in Nat
    BY <1>3, ByteSizeAssumption
  <1> QED
    BY <1>4, Words DEF U16At

\* parser_readElement keeps the offset inside the buffer and never moves it
\* back; what it returns is an element and, if it succeeded, one that ends
\* where the offset is.
LEMMA ReadElementBounds ==
    ASSUME buffer \in Seq(Byte), offset \in Word, offset <= bufferLen,
           NEW e \in Element
    PROVE LET r == ReadElement(e) IN
          /\ r.ok \in BOOLEAN
          /\ r.offset \in Word /\ offset <= r.offset /\ r.offset <= bufferLen
          /\ r.element \in Element
          /\ r.ok => r.element.ptr + r.element.len <= r.offset
  <1> DEFINE r == ReadElement(e)
             len == U16At(offset)
  <1>1. bufferLen \in Word /\ bufferLen \in Nat /\ offset \in Nat
    BY BufferLen, Words
  <1>2. len \in Word /\ len \in Nat
    BY <1>1, Words, U16AtWord
  <1>3. CASE ~Available(offset, 2)
    <2>1. r = [ok |-> FALSE, offset |-> offset, element |-> e]
      BY <1>3 DEF ReadElement
    <2>2. offset <= offset
      BY <1>1
    <2> QED
      BY <2>1, <2>2
  <1>4. ASSUME Available(offset, 2) PROVE offset + 2 \in Word /\ offset + 2 <= bufferLen
    BY <1>1, <1>4, Words DEF Available
  <1>5. CASE Available(offset, 2) /\ ~Available(offset + 2, len)
    <2>1. r = [ok |-> FALSE, offset |-> offset + 2, element |-> [e EXCEPT !.len = len]]
      BY <1>5 DEF ReadElement
    <2>2. [e EXCEPT !.len = len] \in Element
      BY <1>2 DEF Element
    <2>3. offset <= offset + 2
      BY <1>1
    <2> QED
      BY <1>4, <1>5, <2>1, <2>2, <2>3
  <1>6. CASE Available(offset, 2) /\ Available(offset + 2, len)
    <2>1. r = [ok |-> TRUE, offset |-> offset + 2 + len,
               element |-> [ptr |-> offset + 2, len |-> len]]
      BY <1>6 DEF ReadElement
    <2>2. [ptr |-> offset + 2, len |-> len] \in Element
      BY <1>1, <1>2 DEF Element
    <2>3. /\ offset + 2 + len \in Nat /\ offset + 2 + len <= bufferLen
          /\ offset <= offset + 2 + len
      BY <1>1, <1>2, <1>6 DEF Available
    <2>4. offset + 2 + len \in Word
      BY <1>1, <2>3, Words
    <2>5. offset + 2 + len <= offset + 2 + len
      BY <2>3
    <2> QED
      BY <2>1, <2>2, <2>3, <2>4, <2>5
  <1> QED
    BY <1>3, <1>5, <1>6

\* The rank of each place.
LEMMA Ranks ==
    /\ Rank["idle"] = 0 /\ Rank["failed"] = 0
    /\ Rank["format"] = 0 /\ Rank["owner"] = 1 /\ Rank["target"] = 2
    /\ Rank["quantity"] = 3 /\ Rank["reward"] = 4 /\ Rank["last_tx"] = 5
    /\ Rank["tags_count"] = 6 /\ Rank["tag_key"] = 7 /\ Rank["tag_value"] = 7
    /\ Rank["data_size"] = 8 /\ Rank["data_root"] = 9 /\ Rank["ok"] = 10
  BY DEF Rank, Places, Fields

\* The fields are read in the order of their ranks, the tags between the sixth
\* field and the seventh.
LEMMA AfterRanks ==
    /\ \A f \in Fields : After[f] \in Places /\ Rank[After[f]] = Rank[f] + 1
    /\ \A f, g \in Fields : Rank[g] < Rank[f] + 1 => g = f \/ Rank[g] < Rank[f]
    /\ \A f \in Fields : Rank[f] \in 0..9 /\ Rank[f] \notin {6, 7}
  BY Ranks DEF After, Fields, Places

-----------------------------------------------------------------------------
(* The invariant.                                                          *)

\* The initial states satisfy the invariant.
LEMMA InitInv == Init => ParserInv
  <1> SUFFICES ASSUME Init PROVE ParserInv
    OBVIOUS
  <1>1. NoElement \in Element
    BY Words DEF NoElement, Element
  <1>2. TypeOK
    <2>1. buffer \in Seq(Byte) /\ offset \in Word /\ tags_count \in Word
      BY Words DEF Init
    <2>2. element \in [Fields -> Element] /\ tagKey \in [Tags -> Element] /\ tagValue \in [Tags -> Element]
      BY <1>1 DEF Init
    <2>3. pc \in Places /\ i \in 0..MaxTags /\ parses \in 0..MaxParses
      BY SizesAssumption DEF Init, Places
    <2> QED
      BY <2>1, <2>2, <2>3 DEF TypeOK
  <1>3. offset <= bufferLen
    <2>1. bufferLen \in Nat
      BY <1>2, BufferLen, Words DEF TypeOK
    <2> QED
      BY <2>1 DEF Init
  <1>4. Rank[pc] = 0 /\ pc # "tag_value"
    BY Ranks DEF Init
  <1>5. FieldsRead
    BY <1>4, AfterRanks DEF FieldsRead
  <1>6. TagsRead
    BY <1>4 DEF TagsRead
  <1> QED
    BY <1>2, <1>3, <1>5, <1>6 DEF ParserInv

\* What is inside what was read stays there when more is read.
LEMMA StillInBuffer ==
    ASSUME offset \in Word, offset' \in Word, offset <= offset'
    PROVE \A e \in Element : e.ptr + e.len <= offset => e.ptr + e.len <= offset'
  <1>1. offset \in Nat /\ offset' \in Nat
    BY Words
  <1>2. \A e \in Element : e.ptr \in Nat /\ e.len \in Nat
    BY Words DEF Element
  <1> QED
    BY <1>1, <1>2

\* Reading a field preserves the invariant.
LEMMA ReadFieldInv ==
    ASSUME ParserInv, NEW f \in Fields, ReadField(f)
    PROVE ParserInv'
  <1> DEFINE r == ReadElement(element[f])
  <1>1. TypeOK /\ offset <= bufferLen /\ FieldsRead /\ TagsRead
    BY DEF ParserInv
  <1>2. element[f] \in Element
    BY <1>1 DEF TypeOK
  <1>3. /\ r.ok \in BOOLEAN
        /\ r.offset \in Word /\ offset <= r.offset /\ r.offset <= bufferLen
        /\ r.element \in Element
        /\ r.ok => r.element.ptr + r.element.len <= r.offset
    BY <1>1, <1>2, ReadElementBounds DEF TypeOK
  <1>4. /\ pc = f
        /\ element' = [element EXCEPT ![f] = r.element]
        /\ offset' = r.offset
        /\ (pc' = After[f] /\ r.ok) \/ pc' = "failed"
        /\ UNCHANGED <<buffer, tags_count, tagKey, tagValue, i, parses>>
    BY DEF ReadField
  <1> HIDE DEF r
  <1>5. TypeOK'
    <2>1. element' \in [Fields -> Element]
      BY <1>1, <1>3, <1>4 DEF TypeOK
    <2>2. pc' \in Places
      BY <1>4, AfterRanks DEF Places
    <2> QED
      BY <1>1, <1>3, <1>4, <2>1, <2>2 DEF TypeOK
  <1>6. (offset <= bufferLen)'
    BY <1>3, <1>4 DEF bufferLen
  <1>7. \A e \in Element : InBuffer(e) => e.ptr + e.len <= offset'
    BY <1>1, <1>3, <1>4, StillInBuffer DEF TypeOK, InBuffer
  <1>8. CASE pc' = "failed"
    <2>1. FieldsRead'
      BY <1>8, Ranks, AfterRanks DEF FieldsRead
    <2>2. TagsRead'
      BY <1>8, Ranks DEF TagsRead
    <2> QED
      BY <1>5, <1>6, <2>1, <2>2 DEF ParserInv
  <1>9. CASE pc' = After[f] /\ r.ok
    <2>1. Rank[pc'] = Rank[pc] + 1 /\ Rank[pc] \in 0..9 /\ Rank[pc] \notin {6, 7}
      BY <1>4, <1>9, AfterRanks
    <2>2. FieldsRead'
      <3> SUFFICES ASSUME NEW g \in Fields, Rank[g] < Rank[pc']
                   PROVE element'[g].ptr + element'[g].len <= offset'
        BY DEF FieldsRead, InBuffer
      <3>1. CASE g = f
        BY <1>1, <1>3, <1>4, <1>9, <3>1 DEF TypeOK
      <3>2. CASE g # f
        <4>1. Rank[g] < Rank[pc]
          BY <1>4, <2>1, <3>2, AfterRanks
        <4>2. element'[g] = element[g] /\ element[g] \in Element
          BY <1>1, <1>4, <3>2 DEF TypeOK
        <4> QED
          BY <1>1, <1>7, <4>1, <4>2 DEF FieldsRead
      <3> QED
        BY <3>1, <3>2
    <2>3. TagsRead'
      <3>1. Rank[pc'] # 7 /\ pc' # "tag_value"
        BY <2>1, Ranks
      <3>2. Rank[pc'] >= 7 => Rank[pc] >= 8
        BY <2>1
      <3>3. (Rank[pc] >= 8 => Rank[pc] >= 7) /\ (Rank[pc'] >= 8 => Rank[pc'] >= 7)
        BY <2>1
      <3>4. \A t \in Tags : tagKey[t] \in Element /\ tagValue[t] \in Element
        BY <1>1 DEF TypeOK
      <3>5. \A t \in Tags : Rank[pc'] >= 7 /\ t < i =>
                /\ tagKey[t].ptr + tagKey[t].len <= offset'
                /\ tagValue[t].ptr + tagValue[t].len <= offset'
        BY <1>1, <1>7, <3>2, <3>3, <3>4 DEF TagsRead
      <3> QED
        BY <1>1, <1>4, <3>1, <3>2, <3>3, <3>5 DEF TagsRead, InBuffer
    <2> QED
      BY <1>5, <1>6, <2>2, <2>3 DEF ParserInv
  <1> QED
    BY <1>4, <1>8, <1>9

\* Reading the number of tags preserves the invariant.
LEMMA ReadTagsCountInv ==
    ASSUME ParserInv, ReadTagsCount
    PROVE ParserInv'
  <1>1. TypeOK /\ offset <= bufferLen /\ FieldsRead /\ TagsRead
    BY DEF ParserInv
  <1>2. /\ pc = "tags_count" /\ i' = 0
        /\ UNCHANGED <<buffer, element, tagKey, tagValue, parses>>
    BY DEF ReadTagsCount
  <1>3. bufferLen \in Word /\ bufferLen \in Nat /\ offset \in Nat
    BY <1>1, BufferLen, Words DEF TypeOK
  <1>4. /\ offset' \in Word /\ offset <= offset' /\ offset' <= bufferLen
        /\ tags_count' \in Word
        /\ \/ pc' = "failed"
           \/ tags_count' <= MaxTags /\ pc' = TagsOrSize(0, tags_count')
    <2>1. CASE ~Available(offset, 2) /\ pc' = "failed" /\ UNCHANGED <<offset, tags_count>>
      <3>1. offset' = offset /\ offset <= offset
        BY <1>3, <2>1
      <3> QED
        BY <1>1, <2>1, <3>1 DEF TypeOK
    <2>2. CASE /\ Available(offset, 2)
               /\ tags_count' = U16At(offset)
               /\ offset' = offset + 2
               /\ pc' = IF tags_count' > MaxTags THEN "failed" ELSE TagsOrSize(0, tags_count')
      <3>1. offset' \in Nat /\ offset <= offset' /\ offset' <= bufferLen
        BY <1>3, <2>2 DEF Available
      <3>2. offset' \in Word
        BY <1>3, <3>1, Words
      <3>3. tags_count' \in Word /\ tags_count' \in Nat
        BY <1>1, <1>3, <2>2, U16AtWord, Words DEF TypeOK
      <3>4. \/ pc' = "failed"
            \/ tags_count' <= MaxTags /\ pc' = TagsOrSize(0, tags_count')
        BY <2>2, <3>3, SizesAssumption
      <3> QED
        BY <3>1, <3>2, <3>3, <3>4
    <2> QED
      BY <2>1, <2>2 DEF ReadTagsCount
  <1>5. TypeOK'
    <2>1. pc' \in Places
      BY <1>4 DEF TagsOrSize, Places, Fields
    <2>2. i' \in 0..MaxTags
      BY <1>2, SizesAssumption
    <2> QED
      BY <1>1, <1>2, <1>4, <2>1, <2>2 DEF TypeOK
  <1>6. (offset <= bufferLen)'
    BY <1>2, <1>4 DEF bufferLen
  <1>7. CASE pc' = "failed"
    <2>1. FieldsRead'
      BY <1>7, Ranks, AfterRanks DEF FieldsRead
    <2>2. TagsRead'
      BY <1>7, Ranks DEF TagsRead
    <2> QED
      BY <1>5, <1>6, <2>1, <2>2 DEF ParserInv
  <1>8. CASE tags_count' <= MaxTags /\ pc' = TagsOrSize(0, tags_count')
    <2>1. tags_count' \in Nat
      BY <1>4, Words
    <2>2. \/ pc' = "tag_key" /\ 0 < tags_count' /\ Rank[pc'] = 7
          \/ pc' = "data_size" /\ tags_count' = 0 /\ Rank[pc'] = 8
      BY <1>8, <2>1, Ranks DEF TagsOrSize
    <2>3. FieldsRead'
      <3> SUFFICES ASSUME NEW g \in Fields, Rank[g] < Rank[pc']
                   PROVE element'[g].ptr + element'[g].len <= offset'
        BY DEF FieldsRead, InBuffer
      <3>1. Rank[g] < Rank[pc]
        <4>1. Rank[pc] = 6 /\ (Rank[pc'] = 7 \/ Rank[pc'] = 8)
          BY <1>2, <2>2, Ranks
        <4>2. Rank[g] \in 0..9 /\ Rank[g] # 6 /\ Rank[g] # 7
          BY AfterRanks
        <4> QED
          BY <4>1, <4>2
      <3>2. element'[g] = element[g] /\ element[g] \in Element
        BY <1>1, <1>2 DEF TypeOK
      <3> QED
        BY <1>1, <1>4, <3>1, <3>2, StillInBuffer DEF FieldsRead, InBuffer, TypeOK
    <2>4. TagsRead'
      <3>1. \A t \in Tags : ~(t < i')
        BY <1>2, SizesAssumption DEF Tags
      <3>2. pc' # "tag_value"
        BY <2>2
      <3> QED
        BY <1>2, <1>8, <2>2, <3>1, <3>2 DEF TagsRead
    <2> QED
      BY <1>5, <1>6, <2>3, <2>4 DEF ParserInv
  <1> QED
    BY <1>4, <1>7, <1>8

\* Reading the name of a tag preserves the invariant.
LEMMA ReadTagKeyInv ==
    ASSUME ParserInv, ReadTagKey
    PROVE ParserInv'
  <1> DEFINE r == ReadElement(tagKey[i])
  <1>1. TypeOK /\ offset <= bufferLen /\ FieldsRead /\ TagsRead
    BY DEF ParserInv
  <1>2. pc = "tag_key" /\ Rank[pc] = 7 /\ i < tags_count /\ tags_count <= MaxTags
    BY <1>1, Ranks DEF ReadTagKey, TagsRead
  <1>3. i \in Tags
    <2>1. i \in Nat /\ tags_count \in Nat /\ MaxTags \in Nat
      BY <1>1, SizesAssumption, Words DEF TypeOK
    <2> QED
      BY <1>2, <2>1 DEF Tags
  <1>4. /\ r.ok \in BOOLEAN
        /\ r.offset \in Word /\ offset <= r.offset /\ r.offset <= bufferLen
        /\ r.element \in Element
        /\ r.ok => r.element.ptr + r.element.len <= r.offset
    BY <1>1, <1>3, ReadElementBounds DEF TypeOK
  <1>5. /\ tagKey' = [tagKey EXCEPT ![i] = r.element]
        /\ offset' = r.offset
        /\ (pc' = "tag_value" /\ r.ok) \/ pc' = "failed"
        /\ UNCHANGED <<buffer, element, tags_count, tagValue, i, parses>>
    BY DEF ReadTagKey
  <1> HIDE DEF r
  <1>6. TypeOK'
    <2>1. tagKey' \in [Tags -> Element]
      BY <1>1, <1>4, <1>5 DEF TypeOK
    <2>2. pc' \in Places
      BY <1>5 DEF Places
    <2> QED
      BY <1>1, <1>4, <1>5, <2>1, <2>2 DEF TypeOK
  <1>7. (offset <= bufferLen)'
    BY <1>4, <1>5 DEF bufferLen
  <1>8. \A e \in Element : InBuffer(e) => e.ptr + e.len <= offset'
    BY <1>1, <1>4, <1>5, StillInBuffer DEF TypeOK, InBuffer
  <1>9. CASE pc' = "failed"
    <2>1. FieldsRead'
      BY <1>9, Ranks, AfterRanks DEF FieldsRead
    <2>2. TagsRead'
      BY <1>9, Ranks DEF TagsRead
    <2> QED
      BY <1>6, <1>7, <2>1, <2>2 DEF ParserInv
  <1>10. CASE pc' = "tag_value" /\ r.ok
    <2>1. Rank[pc'] = 7
      BY <1>10, Ranks
    <2>2. FieldsRead'
      <3> SUFFICES ASSUME NEW g \in Fields, Rank[g] < 7
                   PROVE element'[g].ptr + element'[g].len <= offset'
        BY <2>1 DEF FieldsRead, InBuffer
      <3>1. element'[g] = element[g] /\ element[g] \in Element
        BY <1>1, <1>5 DEF TypeOK
      <3> QED
        BY <1>1, <1>2, <1>8, <3>1 DEF FieldsRead
    <2>3. TagsRead'
      <3>1. tagKey'[i].ptr + tagKey'[i].len <= offset'
        BY <1>1, <1>3, <1>4, <1>5, <1>10 DEF TypeOK
      <3>2. ASSUME NEW t \in Tags, t < i
            PROVE /\ tagKey'[t].ptr + tagKey'[t].len <= offset'
                  /\ tagValue'[t].ptr + tagValue'[t].len <= offset'
        <4>1. i \in Nat
          BY <1>1, SizesAssumption DEF TypeOK
        <4>2. t # i
          BY <3>2, <4>1
        <4>3. tagKey'[t] = tagKey[t] /\ tagKey[t] \in Element /\ tagValue[t] \in Element
          BY <1>1, <1>5, <4>2 DEF TypeOK
        <4>4. InBuffer(tagKey[t]) /\ InBuffer(tagValue[t])
          BY <1>1, <1>2, <3>2 DEF TagsRead
        <4> QED
          BY <1>5, <1>8, <4>3, <4>4
      <3> QED
        BY <1>2, <1>5, <2>1, <3>1, <3>2 DEF TagsRead, InBuffer
    <2> QED
      BY <1>6, <1>7, <2>2, <2>3 DEF ParserInv
  <1> QED
    BY <1>5, <1>9, <1>10

\* Reading the value of a tag preserves the invariant.
LEMMA ReadTagValueInv ==
    ASSUME ParserInv, ReadTagValue
    PROVE ParserInv'
  <1> DEFINE r == ReadElement(tagValue[i])
  <1>1. TypeOK /\ offset <= bufferLen /\ FieldsRead /\ TagsRead
    BY DEF ParserInv
  <1>2. /\ pc = "tag_value" /\ Rank[pc] = 7 /\ i < tags_count /\ tags_count <= MaxTags
        /\ InBuffer(tagKey[i])
    BY <1>1, Ranks DEF ReadTagValue, TagsRead
  <1>3. i \in Nat /\ tags_count \in Nat /\ MaxTags \in Nat /\ i \in Tags
    <2>1. i \in Nat /\ tags_count \in Nat /\ MaxTags \in Nat
      BY <1>1, SizesAssumption, Words DEF TypeOK
    <2> QED
      BY <1>2, <2>1 DEF Tags
  <1>4. /\ r.ok \in BOOLEAN
        /\ r.offset \in Word /\ offset <= r.offset /\ r.offset <= bufferLen
        /\ r.element \in Element
        /\ r.ok => r.element.ptr + r.element.len <= r.offset
    BY <1>1, <1>3, ReadElementBounds DEF TypeOK
  <1>5. /\ tagValue' = [tagValue EXCEPT ![i] = r.element]
        /\ offset' = r.offset
        /\ \/ r.ok /\ i' = i + 1 /\ pc' = TagsOrSize(i + 1, tags_count)
           \/ pc' = "failed" /\ i' = i
        /\ UNCHANGED <<buffer, element, tags_count, tagKey, parses>>
    BY DEF ReadTagValue
  <1> HIDE DEF r
  <1>6. TypeOK'
    <2>1. tagValue' \in [Tags -> Element]
      BY <1>1, <1>4, <1>5 DEF TypeOK
    <2>2. pc' \in Places
      BY <1>5 DEF TagsOrSize, Places, Fields
    <2>3. i' \in 0..MaxTags
      BY <1>2, <1>3, <1>5
    <2> QED
      BY <1>1, <1>4, <1>5, <2>1, <2>2, <2>3 DEF TypeOK
  <1>7. (offset <= bufferLen)'
    BY <1>4, <1>5 DEF bufferLen
  <1>8. \A e \in Element : InBuffer(e) => e.ptr + e.len <= offset'
    BY <1>1, <1>4, <1>5, StillInBuffer DEF TypeOK, InBuffer
  <1>9. CASE pc' = "failed"
    <2>1. FieldsRead'
      BY <1>9, Ranks, AfterRanks DEF FieldsRead
    <2>2. TagsRead'
      BY <1>9, Ranks DEF TagsRead
    <2> QED
      BY <1>6, <1>7, <2>1, <2>2 DEF ParserInv
  <1>10. CASE r.ok /\ i' = i + 1 /\ pc' = TagsOrSize(i + 1, tags_count)
    <2>1. \/ pc' = "tag_key" /\ Rank[pc'] = 7 /\ i' < tags_count
          \/ pc' = "data_size" /\ Rank[pc'] = 8 /\ i' = tags_count
      BY <1>2, <1>3, <1>10, Ranks DEF TagsOrSize
    <2>2. FieldsRead'
      <3> SUFFICES ASSUME NEW g \in Fields, Rank[g] < Rank[pc']
                   PROVE element'[g].ptr + element'[g].len <= offset'
        BY DEF FieldsRead, InBuffer
      <3>1. Rank[g] < 7
        <4>1. Rank[g] \in 0..9 /\ Rank[g] # 7
          BY AfterRanks
        <4> QED
          BY <2>1, <4>1
      <3>2. element'[g] = element[g] /\ element[g] \in Element
        BY <1>1, <1>5 DEF TypeOK
      <3> QED
        BY <1>1, <1>2, <1>8, <3>1, <3>2 DEF FieldsRead
    <2>3. TagsRead'
      <3>1. ASSUME NEW t \in Tags, t < i'
            PROVE /\ tagKey'[t].ptr + tagKey'[t].len <= offset'
                  /\ tagValue'[t].ptr + tagValue'[t].len <= offset'
        <4>1. tagKey[t] \in Element /\ tagValue[t] \in Element
          BY <1>1 DEF TypeOK
        <4>2. CASE t = i
          <5>1. tagValue'[t] = r.element
            BY <1>1, <1>5, <4>2 DEF TypeOK
          <5> QED
            BY <1>2, <1>4, <1>5, <1>8, <1>10, <4>1, <4>2, <5>1
        <4>3. CASE t # i
          <5>1. t < i
            BY <1>3, <1>10, <3>1, <4>3 DEF Tags
          <5>2. tagValue'[t] = tagValue[t]
            BY <1>1, <1>5, <4>3 DEF TypeOK
          <5>3. InBuffer(tagKey[t]) /\ InBuffer(tagValue[t])
            BY <1>1, <1>2, <5>1 DEF TagsRead
          <5> QED
            BY <1>5, <1>8, <4>1, <5>2, <5>3
        <4> QED
          BY <4>2, <4>3
      <3>2. pc' # "tag_value"
        BY <2>1
      <3> QED
        BY <1>2, <1>5, <2>1, <3>1, <3>2 DEF TagsRead, InBuffer
    <2> QED
      BY <1>6, <1>7, <2>2, <2>3 DEF ParserInv
  <1> QED
    BY <1>5, <1>9, <1>10

\* So does the beginning of a parse, whatever the host left in the buffer.
LEMMA ParseInv ==
    ASSUME TypeOK, NEW b \in Seq(Byte), Parse(b)
    PROVE ParserInv'
  <1>1. TypeOK
    OBVIOUS
  <1>2. /\ buffer' = b /\ offset' = 0 /\ i' = 0
        /\ pc' \in {"failed", "format"}
        /\ parses < MaxParses /\ parses' = parses + 1
        /\ UNCHANGED <<element, tags_count, tagKey, tagValue>>
    BY DEF Parse, tx
  <1>3. Rank[pc'] = 0 /\ pc' # "tag_value"
    BY <1>2, Ranks
  <1>4. TypeOK'
    <2>1. buffer' \in Seq(Byte)
      BY <1>2
    <2>2. offset' \in Word
      BY <1>2, Words
    <2>3. i' \in 0..MaxTags /\ parses' \in 0..MaxParses
      BY <1>1, <1>2, SizesAssumption DEF TypeOK
    <2>4. pc' \in Places
      BY <1>2 DEF Places, Fields
    <2> QED
      BY <1>1, <1>2, <2>1, <2>2, <2>3, <2>4 DEF TypeOK
  <1>5. (offset <= bufferLen)'
    <2>1. Len(b) % U16 \in Nat
      <3>1. Len(b) \in Nat
        OBVIOUS
      <3> QED
        BY <3>1, Words
    <2> QED
      BY <1>2, <2>1 DEF bufferLen
  <1>6. FieldsRead'
    BY <1>3, AfterRanks DEF FieldsRead
  <1>7. TagsRead'
    BY <1>3 DEF TagsRead
  <1> QED
    BY <1>4, <1>5, <1>6, <1>7 DEF ParserInv

-----------------------------------------------------------------------------
(* The theorems.                                                           *)

\* The invariant holds in every state the parser can reach.
THEOREM Invariance == ParserSpec => []ParserInv
  <1>1. ParserInv /\ [Next]_parserVars => ParserInv'
    <2> SUFFICES ASSUME ParserInv, [Next]_parserVars PROVE ParserInv'
      OBVIOUS
    <2>1. CASE Read
      BY <2>1, ReadFieldInv, ReadTagsCountInv, ReadTagKeyInv, ReadTagValueInv DEF Read
    <2>2. CASE \E b \in Inputs : Parse(b)
      BY <2>2, InputsAssumption, ParseInv DEF ParserInv
    <2>3. CASE UNCHANGED parserVars
      BY <2>3 DEF parserVars, tx, ParserInv, TypeOK, bufferLen, FieldsRead, TagsRead, InBuffer
    <2> QED
      BY <2>1, <2>2, <2>3 DEF Next
  <1> QED
    BY InitInv, <1>1, PTL DEF ParserSpec

\* Every variable keeps its kind and every integer its width, so that no sum of
\* the parser leaves its 16 bits.
THEOREM TypeCorrect == ParserSpec => []TypeOK
  BY Invariance, PTL DEF ParserInv

\* Whatever the host left in the buffer, and whatever earlier parses left in
\* parser_tx_obj, no element of a transaction that was accepted points beyond
\* the buffer.
THEOREM NothingBeyondTheBuffer == ParserSpec => []ElementsInBuffer
  <1>1. ParserInv => ElementsInBuffer
    <2> SUFFICES ASSUME ParserInv, pc = "ok" PROVE ElementsInBuffer
      BY DEF ElementsInBuffer
    <2>1. TypeOK /\ offset <= bufferLen /\ FieldsRead /\ TagsRead /\ Rank[pc] = 10
      BY Ranks DEF ParserInv
    <2>2. offset <= Len(buffer)
      <3>1. buffer \in Seq(Byte) /\ offset \in Nat
        BY <2>1, Words DEF TypeOK
      <3>2. bufferLen <= Len(buffer) /\ bufferLen \in Nat
        BY <3>1, BufferLen, Words
      <3>3. Len(buffer) \in Nat
        BY <3>1
      <3> QED
        BY <2>1, <3>1, <3>2, <3>3
    <2>3. \A f \in Fields : InBuffer(element[f])
      <3>1. \A f \in Fields : Rank[f] < 10
        BY AfterRanks
      <3> QED
        BY <2>1, <3>1 DEF FieldsRead
    <2>4. /\ tags_count <= MaxTags
          /\ \A t \in Tags : t < tags_count => InBuffer(tagKey[t]) /\ InBuffer(tagValue[t])
      BY <2>1 DEF TagsRead
    <2> QED
      BY <2>2, <2>3, <2>4 DEF ElementsInBuffer
  <1> QED
    BY Invariance, <1>1, PTL
=============================================================================
