------------------------------- MODULE SignApp -------------------------------
(***************************************************************************)
(* The app as the host sees it: the APDU handlers (apdu_handler.c), the    *)
(* transaction buffer (tx.c), the review on the screen and its callbacks   *)
(* (actions.h) and the signature that waits in flash (crypto.c,            *)
(* crypto_store.c).                                                        *)
(*                                                                         *)
(* The app is one thread: a handler runs to its end, so it is one step.    *)
(* A SIGN or GET_ADDR that shows something replies later, from the user's  *)
(* choice (IO_ASYNCH_REPLY); io_exchange, outside this repository, brings  *)
(* no other command before that reply.                                     *)
(*                                                                         *)
(* Data.  A transaction travels as two chunks, a head, which holds the     *)
(* owner, and a tail; any head followed by any tail parses, so that chunks *)
(* of two transactions may join into a third.  Chunks have size 1.  The    *)
(* deep hash of a transaction is the transaction, a signature the pair of  *)
(* it and the private key; keys are named by the mnemonic they come from.  *)
(* How a slot gets its keys is KeyStore; what it promises is BootKeys.     *)
(***************************************************************************)
EXTENDS Naturals, Sequences, KeyEnvironment

CONSTANTS
    Heads,      \* first chunks of transactions
    Tails,      \* second chunks of transactions
    NoTx,       \* no transaction
    Owner,      \* the owner written in a head
    Capacity,   \* the size of the transaction buffer, in chunks
    Faulty      \* may cx_rsa_sign fail on a good key?

ASSUME ChunksAssumption == Heads \cap Tails = {} /\ Owner \in [Heads -> Keys]
ASSUME TxAssumption == NoTx \notin Heads \X Tails
ASSUME CapacityAssumption == Capacity \in Nat /\ Faulty \in BOOLEAN

Chunks == Heads \cup Tails
Tx == Heads \X Tails
Signatures == [tx : Tx \cup {NoTx}, key : Keys \cup {NoKey}]
NoSignature == [tx |-> NoTx, key |-> NoKey]

P1_INIT == 0
P1_ADD == 1
P1_LAST == 2

\* What the host may send, each field with its values that matter and one
\* that is refused.  frame: the class byte and the length handleApdu looks at.
Command(frame, ins, p1, p2, data) ==
    [frame |-> frame, ins |-> ins, p1 |-> p1, p2 |-> p2, data |-> data]

Payloads == {<<>>} \cup {<<c>> : c \in Chunks}

Commands ==
    {Command(frame, "SIGN", P1_INIT, 0, <<>>) : frame \in {"foreign", "short"}}
    \cup {Command("ok", ins, 0, 0, <<>>) : ins \in {"GET_VERSION", "OTHER"}}
    \cup {Command("ok", "SIGN", p1, 0, data) : p1 \in {P1_INIT, P1_ADD, P1_LAST}, data \in Payloads}
    \cup {Command("ok", "SIGN", 3, 0, <<>>), Command("ok", "SIGN", P1_LAST, 1, <<>>)}
    \cup {Command("ok", "GET_ADDR", p1, 0, <<>>) : p1 \in 0..1}
    \cup {Command("ok", ins, 0, p2, <<>>) : ins \in {"GET_SIG", "GET_PK"}, p2 \in 0..2}
    \cup {Command("ok", ins, 0, 0, <<t>>) : ins \in {"GET_ADDR", "GET_SIG", "GET_PK"}, t \in Tails}

VARIABLES
    \* The device is unlocked.
    pin,
    \* The transaction being received, and the one parsed last.
    tx_initialized, buffering, buffer, ctx_parsed_tx,
    \* The review on the screen.
    review,
    \* The signature kept for GET_SIG.
    signature_set, N_crypto_sig,
    \* The last answer, with no status word while the user has not chosen.
    reply,
    \* History: the transaction of the last SIGN answered with success since
    \* the app started, whether a payload was refused for lack of room since
    \* the last INIT, and how often part 1 of that signature was handed out.
    signed, gap, released

device == <<mnemonic, running, pin>>
txBuffer == <<tx_initialized, buffering, buffer, ctx_parsed_tx, gap>>
signature == <<signature_set, N_crypto_sig, signed, released>>
vars == <<device, store, txBuffer, review, signature, reply>>

StatusWords == {"none", "OK", "CLA_NOT_SUPPORTED", "WRONG_LENGTH", "TX_NOT_INITIALIZED",
                "INS_NOT_SUPPORTED", "COMMAND_NOT_ALLOWED", "INVALIDP1P2",
                "OUTPUT_BUFFER_TOO_SMALL", "DATA_INVALID", "EXECUTION_ERROR",
                "CONDITIONS_NOT_SATISFIED", "SIGN_VERIFY_ERROR"}

\* An answer: a status word and, with OK, the transaction or the key it is
\* about and which half of it.
Answer(sw, tx, key, part) == [sw |-> sw, tx |-> tx, key |-> key, part |-> part]
Status(sw) == Answer(sw, NoTx, NoKey, 0)

\* Every variable holds a value of its kind, and the buffer what it can hold.
TypeOK ==
    /\ mnemonic \in Keys
    /\ running \in BOOLEAN /\ pin \in BOOLEAN
    /\ device_initialized \in BOOLEAN
    /\ slot_in_use \in Slots
    /\ rsa_pub \in Keys \cup {NoKey} /\ rsa_priv \in Keys \cup {NoKey}
    /\ tx_initialized \in BOOLEAN /\ buffering \in BOOLEAN
    /\ buffer \in Seq(Chunks) /\ Len(buffer) <= Capacity
    /\ ctx_parsed_tx \in Tx \cup {NoTx}
    /\ review \in {"none", "address", "transaction"}
    /\ signature_set \in BOOLEAN
    /\ N_crypto_sig \in [Slots -> Signatures]
    /\ reply \in [sw : StatusWords, tx : Tx \cup {NoTx}, key : Keys \cup {NoKey}, part : 0..1]
    /\ signed \in Tx \cup {NoTx}
    /\ gap \in BOOLEAN
    /\ released \in 0..2

Init ==
    /\ KeyInit /\ pin = TRUE
    /\ tx_initialized = FALSE /\ buffering = FALSE /\ buffer = <<>>
    /\ ctx_parsed_tx = NoTx
    /\ review = "none"
    /\ signature_set = FALSE
    /\ N_crypto_sig = [s \in Slots |-> NoSignature]
    /\ reply = Status("none")
    /\ signed = NoTx /\ gap = FALSE /\ released = 0

-----------------------------------------------------------------------------
(* The device and its user.                                                *)

\* cx_rsa_sign with the key of the slot in use.
SignatureOf(tx) == [tx |-> tx, key |-> rsa_priv]

Start ==
    /\ KeyStart
    /\ UNCHANGED <<pin, txBuffer, review, signature, reply>>

\* The key is found at boot, or Initialize is chosen in the menu.
Initialize ==
    /\ BecomeReady
    /\ UNCHANGED <<pin, txBuffer, review, signature, reply>>

\* Variant of ForgetSignature in which signature_set would be kept in flash.
KeepSignature == signed' = NoTx /\ released' = 0 /\ UNCHANGED signature_set

\* signature_set is in RAM, the signature in flash.
ForgetSignature ==
    /\ signature_set' = FALSE
    /\ signed' = NoTx /\ released' = 0

\* The statics of the app are gone; the signatures in flash stay.
Restart ==
    /\ KeyStop
    /\ tx_initialized' = FALSE /\ buffering' = FALSE /\ buffer' = <<>>
    /\ ctx_parsed_tx' = NoTx /\ gap' = FALSE
    /\ review' = "none"
    /\ reply' = Status("none")
    /\ UNCHANGED pin

Stop == Restart /\ ForgetSignature /\ UNCHANGED N_crypto_sig

\* Power is lost while the signature is written (crypto_store_signature) or
\* cleared (crypto_signature_part), before signature_set is assigned: the slot
\* holds the new content, or what is no signature of anything.
CutShort ==
    /\ pin /\ rsa_priv # NoKey
    /\ \E sig \in {SignatureOf(NoTx),
                   IF review = "transaction" THEN SignatureOf(ctx_parsed_tx) ELSE NoSignature} :
          N_crypto_sig' = [N_crypto_sig EXCEPT ![slot_in_use] = sig]
    /\ review = "transaction" \/ (review = "none" /\ signature_set)
    /\ Restart
    /\ ForgetSignature

ChangeMnemonic ==
    /\ KeyChange
    /\ UNCHANGED <<pin, txBuffer, review, signature, reply>>

\* The device locks itself and is unlocked with its PIN.
ToggleLock ==
    /\ pin' = ~pin
    /\ UNCHANGED <<mnemonic, running, store, txBuffer, review, signature, reply>>

-----------------------------------------------------------------------------
(* handleApdu: the checks before any handler.                              *)

Refusal(c) ==
    CASE c.frame = "foreign" -> "CLA_NOT_SUPPORTED"
      [] c.frame = "short" -> "WRONG_LENGTH"
      [] c.frame = "ok" /\ ~device_initialized /\ c.ins # "GET_VERSION" -> "TX_NOT_INITIALIZED"
      [] c.frame = "ok" /\ device_initialized /\ c.ins = "OTHER" -> "INS_NOT_SUPPORTED"
      [] c.frame = "ok" /\ device_initialized /\ ~pin /\ c.ins \notin {"GET_VERSION", "OTHER"} ->
            "COMMAND_NOT_ALLOWED"
      [] OTHER -> "none"

\* Answers at once, with nothing else changed.
Say(answer) ==
    /\ reply' = answer
    /\ UNCHANGED <<device, store, txBuffer, review, signature>>

Refuse(c) == Refusal(c) # "none" /\ Say(Status(Refusal(c)))

GetVersion(c) == c.ins = "GET_VERSION" /\ Say(Status("OK"))

-----------------------------------------------------------------------------
(* SIGN: process_chunk collects the payloads, tx_parse reads them.         *)

\* Variant of HasRoom with one byte too many.
HasRoomForOneMore(data) == Len(buffer) + Len(data) <= IF buffering THEN Capacity + 1 ELSE 0

\* buffering_append takes all of the payload or none of it.
HasRoom(data) == Len(buffer) + Len(data) <= IF buffering THEN Capacity ELSE 0

\* The parser reads a transaction off the front and ignores what follows.
Parse(bytes) ==
    IF Len(bytes) >= 2 /\ bytes[1] \in Heads /\ bytes[2] \in Tails
    THEN <<bytes[1], bytes[2]>>
    ELSE NoTx

\* Variant of OwnerIsDevice without the comparison.
OwnerIsAnyone(tx) == tx # NoTx

\* _validateTx: the owner is the public key of the slot in use.
OwnerIsDevice(tx) == tx # NoTx /\ Owner[tx[1]] = rsa_pub

SignBadParameter(c) ==
    /\ c.ins = "SIGN"
    /\ \/ /\ c.p2 # 0
          /\ UNCHANGED tx_initialized
       \/ /\ c.p2 = 0
          /\ c.p1 \notin {P1_INIT, P1_ADD, P1_LAST}
          /\ tx_initialized' = FALSE
    /\ reply' = Status("INVALIDP1P2")
    /\ UNCHANGED <<device, store, buffering, buffer, ctx_parsed_tx, gap, review, signature>>

\* Variant of ResetBuffer that keeps what is buffered.
KeepBuffer == buffering' = TRUE /\ UNCHANGED buffer

\* tx_initialize and tx_reset.
ResetBuffer == buffering' = TRUE /\ buffer' = <<>>

\* The payload of INIT is not read.
SignInit(c) ==
    /\ c.ins = "SIGN" /\ c.p2 = 0 /\ c.p1 = P1_INIT
    /\ tx_initialized' = TRUE
    /\ ResetBuffer
    /\ gap' = FALSE
    /\ reply' = Status("OK")
    /\ UNCHANGED <<device, store, ctx_parsed_tx, review, signature>>

\* ADD does not look at tx_initialized.
SignAdd(c) ==
    /\ c.ins = "SIGN" /\ c.p2 = 0 /\ c.p1 = P1_ADD
    /\ HasRoom(c.data)
    /\ buffer' = buffer \o c.data
    /\ reply' = Status("OK")
    /\ UNCHANGED <<device, store, tx_initialized, buffering, ctx_parsed_tx, gap, review, signature>>

\* Variant of GiveUp that forgets to.
CarryOn == UNCHANGED tx_initialized

GiveUp == tx_initialized' = FALSE

SignOverflow(c) ==
    /\ c.ins = "SIGN" /\ c.p2 = 0
    /\ c.p1 = P1_ADD \/ (c.p1 = P1_LAST /\ tx_initialized)
    /\ ~HasRoom(c.data)
    /\ GiveUp
    /\ gap' = TRUE
    /\ reply' = Status("OUTPUT_BUFFER_TOO_SMALL")
    /\ UNCHANGED <<device, store, buffering, buffer, ctx_parsed_tx, review, signature>>

SignLastUnexpected(c) ==
    /\ c.ins = "SIGN" /\ c.p2 = 0 /\ c.p1 = P1_LAST
    /\ ~tx_initialized
    /\ Say(Status("TX_NOT_INITIALIZED"))

\* The last payload: parse, validate, and show the transaction or say why not.
\* tx_initialized stays set either way.
SignLast(c) ==
    /\ c.ins = "SIGN" /\ c.p2 = 0 /\ c.p1 = P1_LAST
    /\ tx_initialized
    /\ HasRoom(c.data)
    /\ buffer' = buffer \o c.data
    /\ ctx_parsed_tx' = Parse(buffer \o c.data)
    /\ \/ /\ OwnerIsDevice(Parse(buffer \o c.data))
          /\ review' = "transaction"
          /\ reply' = Status("none")
       \/ /\ ~OwnerIsDevice(Parse(buffer \o c.data))
          /\ reply' = Status("DATA_INVALID")
          /\ UNCHANGED review
    /\ UNCHANGED <<device, store, tx_initialized, buffering, gap, signature>>

-----------------------------------------------------------------------------
(* GET_SIG, GET_PK, GET_ADDR.                                              *)

\* Variant of ClearSignature that leaves signature_set as it is.
ClearFlashOnly ==
    N_crypto_sig' = [N_crypto_sig EXCEPT ![slot_in_use] = NoSignature] /\ UNCHANGED signature_set

ClearSignature ==
    /\ N_crypto_sig' = [N_crypto_sig EXCEPT ![slot_in_use] = NoSignature]
    /\ signature_set' = FALSE

\* crypto_signature_part(index) of a signature that is there.
GetSigPart(c) ==
    /\ c.ins = "GET_SIG" /\ c.data = <<>>
    /\ signature_set /\ c.p2 \in {0, 1}
    /\ LET sig == N_crypto_sig[slot_in_use] IN
       /\ reply' = Answer("OK", sig.tx, sig.key, c.p2)
       /\ \/ /\ c.p2 = 0
             /\ UNCHANGED <<signature_set, N_crypto_sig, released>>
          \/ /\ c.p2 = 1
             /\ ClearSignature
             /\ released' = released + 1
    /\ UNCHANGED <<device, store, txBuffer, review, signed>>

GetSigRefused(c) ==
    /\ c.ins = "GET_SIG"
    /\ \/ c.data # <<>> /\ Say(Status("COMMAND_NOT_ALLOWED"))
       \/ /\ c.data = <<>>
          /\ ~signature_set \/ c.p2 \notin {0, 1}
          /\ Say(Status("CONDITIONS_NOT_SATISFIED"))

GetPubKeyPart(c) ==
    /\ c.ins = "GET_PK"
    /\ \/ c.data # <<>> /\ Say(Status("COMMAND_NOT_ALLOWED"))
       \/ /\ c.data = <<>> /\ c.p2 \in {0, 1}
          /\ Say(Answer("OK", NoTx, rsa_pub, c.p2))
       \/ /\ c.data = <<>> /\ c.p2 \notin {0, 1}
          /\ Say(Status("CONDITIONS_NOT_SATISFIED"))

\* P1 asks for the user's confirmation.
GetAddress(c) ==
    /\ c.ins = "GET_ADDR"
    /\ \/ c.data # <<>> /\ Say(Status("COMMAND_NOT_ALLOWED"))
       \/ c.data = <<>> /\ c.p1 = 0 /\ Say(Answer("OK", NoTx, rsa_pub, 0))
       \/ /\ c.data = <<>> /\ c.p1 # 0
          /\ review' = "address"
          /\ reply' = Status("none")
          /\ UNCHANGED <<device, store, txBuffer, signature>>

-----------------------------------------------------------------------------
\* Variant of TakesCommands for an io_exchange that holds nothing back.
TakesAnyCommand == TRUE

\* No command comes in while a review waits for the user.
TakesCommands == review = "none"

HandleApdu(c) ==
    /\ running /\ TakesCommands
    /\ \/ Refuse(c)
       \/ /\ Refusal(c) = "none"
          /\ \/ GetVersion(c)
             \/ SignBadParameter(c) \/ SignInit(c) \/ SignAdd(c) \/ SignOverflow(c)
             \/ SignLastUnexpected(c) \/ SignLast(c)
             \/ GetSigPart(c) \/ GetSigRefused(c) \/ GetPubKeyPart(c) \/ GetAddress(c)

-----------------------------------------------------------------------------
(* The user's choice, on an unlocked device.                               *)

\* app_sign: crypto_sign stores the signature and answers with the digest.
ApproveTransaction ==
    /\ review = "transaction" /\ pin
    /\ rsa_priv # NoKey
    /\ N_crypto_sig' = [N_crypto_sig EXCEPT ![slot_in_use] = SignatureOf(ctx_parsed_tx)]
    /\ signature_set' = TRUE
    /\ signed' = ctx_parsed_tx
    /\ released' = 0
    /\ reply' = Answer("OK", ctx_parsed_tx, NoKey, 0)
    /\ review' = "none"
    /\ UNCHANGED <<device, store, txBuffer>>

\* crypto_sign fails, as it does on a key of zeroes: an earlier signature and
\* signature_set stay as they were.
ApproveFails ==
    /\ review = "transaction" /\ pin
    /\ Faulty \/ rsa_priv = NoKey
    /\ reply' = Status("SIGN_VERIFY_ERROR")
    /\ review' = "none"
    /\ UNCHANGED <<device, store, txBuffer, signature>>

\* app_reply_address.
ApproveAddress ==
    /\ review = "address" /\ pin
    /\ reply' = Answer("OK", NoTx, rsa_pub, 0)
    /\ review' = "none"
    /\ UNCHANGED <<device, store, txBuffer, signature>>

\* app_reject.
Reject ==
    /\ review # "none" /\ pin
    /\ reply' = Status("COMMAND_NOT_ALLOWED")
    /\ review' = "none"
    /\ UNCHANGED <<device, store, txBuffer, signature>>

UserChoice == ApproveTransaction \/ ApproveFails \/ ApproveAddress \/ Reject

Next ==
    \/ Start \/ Initialize \/ Stop \/ CutShort \/ ChangeMnemonic \/ ToggleLock
    \/ \E c \in Commands : HandleApdu(c)
    \/ UserChoice

Spec == Init /\ [][Next]_vars

-----------------------------------------------------------------------------
(* Properties.                                                             *)

\* The signature that GET_SIG hands out is the one of the last transaction
\* the user approved since the app started, made with the device's own key
\* for a transaction that names this key as its owner.
SignedIsApproved ==
    signature_set =>
        LET sig == N_crypto_sig[slot_in_use] IN
        /\ sig.tx = signed
        /\ sig.key = mnemonic

SignatureByOwner ==
    signature_set =>
        LET sig == N_crypto_sig[slot_in_use] IN
        sig.tx \in Tx /\ Owner[sig.tx[1]] = sig.key

\* The second half of a signature is handed out once per approval, and then
\* no half of it can be had any more, from RAM or from flash.
SecondHalfOnce ==
    /\ released <= 1
    /\ released = 1 => ~signature_set /\ N_crypto_sig[slot_in_use] = NoSignature

\* A transaction on the screen never misses a payload refused for lack of
\* room after its INIT.
NoGapInReview == review = "transaction" => ~gap

\* The transaction on the screen is the one a signature would cover: the
\* front of the buffer, with this device as its owner.
ReviewIsBuffered ==
    review = "transaction" =>
        /\ ctx_parsed_tx = Parse(buffer)
        /\ OwnerIsDevice(ctx_parsed_tx)

\* The inductive invariant behind these properties: a signature, a count or a
\* review exists only in an app that is ready, whose keys are those of the
\* mnemonic; and a refused payload has cleared tx_initialized.
ReadyStates ==
    /\ device_initialized => running
    /\ review # "none" \/ signature_set \/ released # 0 => device_initialized
    /\ BootKeys(rsa_pub, rsa_priv)
    /\ ~device_initialized => rsa_priv = NoKey
    /\ tx_initialized => ~gap
    /\ signature_set => released = 0

AppInv ==
    /\ TypeOK
    /\ ReadyStates
    /\ SignedIsApproved
    /\ SignatureByOwner
    /\ SecondHalfOnce
    /\ NoGapInReview
    /\ ReviewIsBuffered

-----------------------------------------------------------------------------
(* Refinement: the app as a signer.                                        *)

OwnerOf == [tx \in Tx |-> Owner[tx[1]]]

\* The review of a transaction is a proposal, what GET_SIG would answer is what
\* is offered, an answer with a transaction and a key is half a signature.
proposed == IF review = "transaction" THEN ctx_parsed_tx ELSE NoTx
offered == IF signature_set THEN N_crypto_sig[slot_in_use] ELSE NoSignature
handed ==
    LET isHalf == reply.tx # NoTx /\ reply.key # NoKey IN
    [tx |-> IF isHalf THEN reply.tx ELSE NoTx,
     key |-> IF isHalf THEN reply.key ELSE NoKey,
     part |-> IF isHalf THEN reply.part ELSE 0]

Signer == INSTANCE SignService

\* A signature comes from the approval of the transaction then on the screen
\* and from nothing else, whatever commands, locks, restarts and cuts of power
\* surround it, and its halves are all that GET_SIG answers.
SignerSpec == Signer!Spec
=============================================================================
