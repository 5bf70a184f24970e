----------------------------- MODULE TxTransfer -----------------------------
(***************************************************************************)
(* A transaction on its way from the JavaScript package to the review:     *)
(* encoded and cut into chunks (TxEncoder), collected by process_chunk,    *)
(* parsed and shown (TxReview).  The transport is reliable: SignClient is   *)
(* about where it is not.  A length that does not fit 16 bits is written    *)
(* as another; what keeps such a transaction from being read as a shorter   *)
(* one is that the buffer of the app has no room for it.                    *)
(***************************************************************************)
EXTENDS TxReview

CONSTANTS
    Messages,   \* the transactions sign() is called with
    Capacity    \* the bytes the transaction buffer can hold, 16384 at most

ASSUME CapacityAssumption == Capacity \in Nat /\ Capacity < U16

\* What sign() takes: every field a string of bytes, and a list of pairs of them.
Transaction ==
    [format : Seq(Byte), owner : Seq(Byte), target : Seq(Byte), quantity : Seq(Byte),
     reward : Seq(Byte), last_tx : Seq(Byte),
     tags : Seq([name : Seq(Byte), value : Seq(Byte)]),
     data_size : Seq(Byte), data_root : Seq(Byte)]

\* sign() is called with transactions.
ASSUME MessagesAssumption == Messages \subseteq Transaction

VARIABLES
    message,    \* the argument of sign()
    sent        \* how many of its chunks were sent, or one more: given up

transferVars == <<allVars, message, sent>>

Chunks == PrepareChunks(message)

TransferInit == ReviewInit /\ message \in Messages /\ sent = 0

-----------------------------------------------------------------------------
\* Variant of Fits with a buffer that has no end.
FitsAlways(chunk) == TRUE

\* tx_append has room for a chunk.
Fits(chunk) == Len(buffer) + Len(chunk) <= Capacity

\* INIT, whose chunk is not read, and ADD.
Collect(payloadType, chunk) ==
    /\ \/ payloadType = P1_INIT /\ buffer' = <<>>
       \/ payloadType = P1_ADD /\ Fits(chunk) /\ buffer' = buffer \o chunk
    /\ UNCHANGED <<offset, tx, pc, i, parses, reviewVars>>

SendChunk ==
    /\ ~Busy
    /\ sent < Len(Chunks)
    /\ LET payloadType == PayloadType(sent + 1, Len(Chunks))
           chunk == Chunks[sent + 1]
       IN \/ Collect(payloadType, chunk)
          \/ payloadType = P1_LAST /\ Fits(chunk) /\ Arrive(buffer \o chunk)
    /\ sent' = sent + 1
    /\ UNCHANGED message

\* A chunk for which there is no room is answered with an error, upon which
\* signGetDigest sends no more of them.
Overflow ==
    /\ ~Busy
    /\ sent \in 1..(Len(Chunks) - 1)
    /\ ~Fits(Chunks[sent + 1])
    /\ sent' = Len(Chunks) + 1
    /\ UNCHANGED <<allVars, message>>

\* sign() is called again once it has its answer.
SignAnother ==
    /\ ~Busy
    /\ sent >= Len(Chunks)
    /\ parses < MaxParses
    /\ message' \in Messages
    /\ sent' = 0
    /\ UNCHANGED allVars

TransferNext ==
    \/ SendChunk \/ Overflow \/ SignAnother
    \/ AppNext /\ UNCHANGED <<message, sent>>

TransferSpec == TransferInit /\ [][TransferNext]_transferVars

-----------------------------------------------------------------------------
(* Properties.                                                             *)

Arrived == sent = Len(Chunks)

\* The chunks of a transaction join into its encoding, whatever its length
\* is modulo the size of a chunk.
ChunksJoin == Arrived => buffer = EncodeTx(message)

\* What is reviewed and signed is the message, field by field, whatever the
\* lengths of its fields: one of 2^16 bytes or more, whose length is written
\* wrong, never gets as far as the review.
MessageIsReviewed == Arrived /\ review \in {"shown", "signed"} => Decoded = message

Drawable(bytes) == Len(bytes) + (Len(bytes) + 2) \div 3 <= UiBuffer

\* A message of this device, with no more tags than the app has room for and
\* fields no longer than it can draw, is shown to the user and not refused.
\* docs/APDUSPEC.md:121 lets the target be of any length, "? bytes", and
\* tests/b64url.cpp:26 encodes no bytes at all as "".
MessageIsShown ==
    /\ message.owner = DeviceOwner /\ message.format = <<Version>>
    /\ Len(message.tags) <= MaxTags
    /\ message.quantity \in Amounts /\ Len(message.data_size) <= UiBuffer
    /\ Drawable(message.target) /\ Drawable(message.last_tx) /\ Drawable(message.data_root)
    => ~(Arrived /\ (pc = "failed" \/ review = "refused"))
=============================================================================
