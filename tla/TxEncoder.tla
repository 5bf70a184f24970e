----------------------------- MODULE TxEncoder ------------------------------
(***************************************************************************)
(* How the JavaScript package writes a transaction and cuts it into APDUs: *)
(* encodeTx, prepareChunks and signSendChunk of js/src/index.js.           *)
(*                                                                         *)
(* A transaction is a record of its decoded fields, sequences of bytes,    *)
(* and of its tags, a sequence of pairs of them.                           *)
(***************************************************************************)
EXTENDS Widths, Sequences, SequencesExt

CONSTANT ChunkSize  \* CHUNK_SIZE, 250

ASSUME ChunkSizeAssumption == ChunkSize \in Nat \ {0}

P1_INIT == 0
P1_ADD == 1
P1_LAST == 2

\* A Uint8Array keeps the low byte of each of its values: of a length that does
\* not fit, what is written is the remainder.
EncodeU16(n) == <<(n \div ByteSize) % ByteSize, n % ByteSize>>

EncodeWithLen(bytes) == EncodeU16(Len(bytes)) \o bytes

\* Variant of EncodeTag with the value first.
EncodeTagValueFirst(tag) == EncodeWithLen(tag.value) \o EncodeWithLen(tag.name)

EncodeTag(tag) == EncodeWithLen(tag.name) \o EncodeWithLen(tag.value)

EncodeTx(t) ==
    EncodeWithLen(t.format) \o EncodeWithLen(t.owner) \o EncodeWithLen(t.target)
    \o EncodeWithLen(t.quantity) \o EncodeWithLen(t.reward) \o EncodeWithLen(t.last_tx)
    \o EncodeU16(Len(t.tags)) \o FlattenSeq([n \in DOMAIN t.tags |-> EncodeTag(t.tags[n])])
    \o EncodeWithLen(t.data_size) \o EncodeWithLen(t.data_root)

\* Variant of PrepareChunks without the chunk of the derivation path.
PrepareDataChunks(t) ==
    LET bytes == EncodeTx(t) IN
    [n \in 1..((Len(bytes) + ChunkSize - 1) \div ChunkSize) |->
        SubSeq(bytes, (n - 1) * ChunkSize + 1,
               IF n * ChunkSize > Len(bytes) THEN Len(bytes) ELSE n * ChunkSize)]

\* A first chunk of zeroes, which the app does not read (one stands for the
\* twenty of the code), and the transaction in chunks of ChunkSize bytes.
PrepareChunks(t) ==
    LET bytes == EncodeTx(t) IN
    <<<<0>>>> \o [n \in 1..((Len(bytes) + ChunkSize - 1) \div ChunkSize) |->
                    SubSeq(bytes, (n - 1) * ChunkSize + 1,
                           IF n * ChunkSize > Len(bytes) THEN Len(bytes) ELSE n * ChunkSize)]

\* P1 of chunk n of count.
PayloadType(n, count) ==
    IF n = count THEN P1_LAST ELSE IF n = 1 THEN P1_INIT ELSE P1_ADD
=============================================================================
