------------------------------ MODULE SignProofs ------------------------------
(***************************************************************************)
(* Theorems about SignApp for any keys, chunks, slots and buffer size:     *)
(* AppInv is inductive, so the signature the app hands out is the one of   *)
(* the transaction approved last, made by its owner's key, the screen      *)
(* shows what a signature would cover, and a second half is given once.    *)
(*                                                                         *)
(* And about SignClient, for any number of calls on any transport that     *)
(* loses what it likes.  To the app, the calls are some host: every step   *)
(* of the composition is a step of SignApp or leaves the app alone, so     *)
(* that what is proved of the app holds in the composition.  CallsInv is   *)
(* about calls that may mix; AloneInv adds what holds of a call that no    *)
(* other one interrupts.                                                   *)
(***************************************************************************)
EXTENDS SignClient, TLAPS

\* An empty buffer is within its capacity.
LEMMA EmptyFits == <<>> \in Seq(Chunks) /\ Len(<<>>) <= Capacity
  BY CapacityAssumption

\* What each command carries is a payload.
LEMMA CommandData ==
    ASSUME NEW c \in Commands
    PROVE  c.data \in Payloads
  BY DEF Commands, Command, Payloads, Chunks

\* A payload that finds room leaves the buffer within its capacity.
LEMMA Appended ==
    ASSUME TypeOK, NEW data \in Payloads, HasRoom(data)
    PROVE  /\ buffer \o data \in Seq(Chunks)
           /\ Len(buffer \o data) <= Capacity
  <1>1. data \in Seq(Chunks)
      <2>1. CASE data = <<>>
          BY <2>1
      <2>2. CASE \E x \in Chunks : data = <<x>>
          BY <2>2
      <2> QED
          BY <2>1, <2>2 DEF Payloads
  <1>2. Len(buffer \o data) = Len(buffer) + Len(data)
      BY <1>1 DEF TypeOK
  <1>3. Len(buffer) + Len(data) \in Nat
      BY <1>1 DEF TypeOK
  <1> QED
      BY <1>1, <1>2, <1>3, CapacityAssumption DEF TypeOK, HasRoom

\* The parser answers a transaction or none.
LEMMA ParseType ==
    ASSUME NEW bytes
    PROVE  Parse(bytes) \in Tx \cup {NoTx}
  BY DEF Parse, Tx

\* Only a transaction passes validation.
LEMMA ValidIsTx ==
    ASSUME NEW bytes, OwnerIsDevice(Parse(bytes))
    PROVE  Parse(bytes) \in Tx /\ Owner[Parse(bytes)[1]] = rsa_pub
  BY ParseType DEF OwnerIsDevice

\* Answers are well-typed.
LEMMA AnswerType ==
    ASSUME NEW sw \in StatusWords, NEW tx \in Tx \cup {NoTx}, NEW key \in Keys \cup {NoKey},
           NEW part \in 0..1
    PROVE  /\ Answer(sw, tx, key, part) \in
                  [sw : StatusWords, tx : Tx \cup {NoTx}, key : Keys \cup {NoKey}, part : 0..1]
           /\ Status(sw) \in
                  [sw : StatusWords, tx : Tx \cup {NoTx}, key : Keys \cup {NoKey}, part : 0..1]
  BY DEF Answer, Status

\* An app that has just been installed.
LEMMA InitInvariant == Init => AppInv
  <1> SUFFICES ASSUME Init PROVE AppInv
      OBVIOUS
  <1> USE SlotsAssumption DEF Init, KeyInit
  <1>1. TypeOK
      <2>1. N_crypto_sig \in [Slots -> Signatures]
          BY DEF NoSignature, Signatures
      <2>2. reply \in [sw : StatusWords, tx : Tx \cup {NoTx}, key : Keys \cup {NoKey}, part : 0..1]
          BY DEF Status, Answer, StatusWords
      <2>3. buffer \in Seq(Chunks) /\ Len(buffer) <= Capacity
          BY EmptyFits
      <2>4. ctx_parsed_tx = NoTx /\ signed = NoTx /\ rsa_pub = NoKey /\ rsa_priv = NoKey
          OBVIOUS
      <2>5. mnemonic \in Keys /\ slot_in_use \in Slots /\ review = "none" /\ released = 0
          OBVIOUS
      <2>6. /\ running \in BOOLEAN /\ pin \in BOOLEAN /\ device_initialized \in BOOLEAN
            /\ tx_initialized \in BOOLEAN /\ buffering \in BOOLEAN
            /\ signature_set \in BOOLEAN /\ gap \in BOOLEAN
          OBVIOUS
      <2> HIDE DEF Init, KeyInit
      <2> QED
          BY <2>1, <2>2, <2>3, <2>4, <2>5, <2>6 DEF TypeOK
  <1>2. ReadyStates
      BY DEF ReadyStates, BootKeys
  <1>3. SignedIsApproved /\ SignatureByOwner /\ SecondHalfOnce /\ NoGapInReview /\ ReviewIsBuffered
      BY DEF SignedIsApproved, SignatureByOwner, SecondHalfOnce, NoGapInReview, ReviewIsBuffered
  <1> QED
      BY <1>1, <1>2, <1>3 DEF AppInv

-----------------------------------------------------------------------------
(* A step that answers and leaves the rest alone, and one that only        *)
(* receives, keep everything a signature or a review depends on.           *)

LEMMA SayStep ==
    ASSUME AppInv,
           reply' \in [sw : StatusWords, tx : Tx \cup {NoTx}, key : Keys \cup {NoKey}, part : 0..1],
           UNCHANGED <<device, store, txBuffer, review, signature>>
    PROVE  AppInv'
  BY DEF AppInv, TypeOK, ReadyStates, BootKeys, SignedIsApproved, SignatureByOwner, SecondHalfOnce,
         NoGapInReview, ReviewIsBuffered, OwnerIsDevice, Parse, device, store, txBuffer, signature

LEMMA ReceiveStep ==
    ASSUME AppInv, review = "none", TypeOK',
           UNCHANGED <<device, store, review, signature>>,
           tx_initialized' => ~gap'
    PROVE  AppInv'
  BY DEF AppInv, ReadyStates, BootKeys, SignedIsApproved, SignatureByOwner, SecondHalfOnce,
         NoGapInReview, ReviewIsBuffered, device, store, signature

\* The handlers of SIGN.
LEMMA SignStep ==
    ASSUME AppInv, review = "none", device_initialized, NEW c \in Commands,
           SignBadParameter(c) \/ SignInit(c) \/ SignAdd(c) \/ SignOverflow(c) \/ SignLast(c)
    PROVE  AppInv'
  <1>0. TypeOK /\ c.data \in Payloads
      BY CommandData DEF AppInv
  <1>1. \A sw \in StatusWords :
            Status(sw) \in [sw : StatusWords, tx : Tx \cup {NoTx}, key : Keys \cup {NoKey}, part : 0..1]
      BY AnswerType DEF TypeOK, Status, Answer
  <1> USE DEF AppInv, TypeOK, device, store, signature
  <1>2. CASE SignBadParameter(c)
      <2>1. TypeOK' /\ (tx_initialized' => ~gap')
          <3>1. reply' \in [sw : StatusWords, tx : Tx \cup {NoTx}, key : Keys \cup {NoKey}, part : 0..1]
              BY <1>1, <1>2 DEF SignBadParameter, StatusWords
          <3>2. tx_initialized' = FALSE \/ tx_initialized' = tx_initialized
              BY <1>2 DEF SignBadParameter
          <3>3. UNCHANGED <<device, store, buffering, buffer, ctx_parsed_tx, gap, review, signature>>
              BY <1>2 DEF SignBadParameter
          <3>4. tx_initialized' \in BOOLEAN
              BY <3>2
          <3>5. TypeOK'
              BY <3>1, <3>3, <3>4
          <3>6. tx_initialized' => ~gap'
              BY <3>2, <3>3 DEF ReadyStates
          <3> QED
              BY <3>5, <3>6
      <2> QED
          BY <1>2, <2>1, ReceiveStep DEF SignBadParameter
  <1>3. CASE SignInit(c)
      <2>1. TypeOK' /\ (tx_initialized' => ~gap')
          <3>1. reply' \in [sw : StatusWords, tx : Tx \cup {NoTx}, key : Keys \cup {NoKey}, part : 0..1]
              BY <1>1, <1>3 DEF SignInit, ResetBuffer, StatusWords
          <3>2. buffer' \in Seq(Chunks) /\ Len(buffer') <= Capacity
              BY <1>3, EmptyFits DEF SignInit, ResetBuffer
          <3>3. /\ tx_initialized' = TRUE /\ buffering' = TRUE /\ gap' = FALSE
                /\ UNCHANGED <<device, store, ctx_parsed_tx, review, signature>>
              BY <1>3 DEF SignInit, ResetBuffer
          <3> QED
              BY <3>1, <3>2, <3>3
      <2> QED
          BY <1>3, <2>1, ReceiveStep DEF SignInit, ResetBuffer
  <1>4. CASE SignAdd(c)
      <2>1. buffer' \in Seq(Chunks) /\ Len(buffer') <= Capacity
          BY <1>0, <1>4, Appended DEF SignAdd
      <2>2. TypeOK' /\ (tx_initialized' => ~gap')
          BY <1>1, <1>4, <2>1 DEF SignAdd, StatusWords, ReadyStates
      <2> QED
          BY <1>4, <2>2, ReceiveStep DEF SignAdd
  <1>5. CASE SignOverflow(c)
      <2>1. TypeOK' /\ (tx_initialized' => ~gap')
          BY <1>1, <1>5 DEF SignOverflow, GiveUp, StatusWords
      <2> QED
          BY <1>5, <2>1, ReceiveStep DEF SignOverflow, GiveUp
  <1>6. CASE SignLast(c)
      <2> DEFINE bytes == buffer \o c.data
      <2>1. /\ tx_initialized /\ buffer' = bytes /\ ctx_parsed_tx' = Parse(bytes)
            /\ UNCHANGED <<device, store, tx_initialized, buffering, gap, signature>>
          BY <1>6 DEF SignLast
      <2>2. bytes \in Seq(Chunks) /\ Len(bytes) <= Capacity
          BY <1>0, <1>6, Appended DEF SignLast
      <2>3. ctx_parsed_tx' \in Tx \cup {NoTx}
          BY <2>1, ParseType
      <2>4. \/ OwnerIsDevice(Parse(bytes)) /\ review' = "transaction" /\ reply' = Status("none")
            \/ review' = "none" /\ reply' = Status("DATA_INVALID")
          BY <1>6 DEF SignLast
      <2>5. TypeOK'
          <3>1. reply' \in [sw : StatusWords, tx : Tx \cup {NoTx}, key : Keys \cup {NoKey}, part : 0..1]
              BY <1>1, <2>4 DEF StatusWords
          <3> QED
              BY <2>1, <2>2, <2>3, <2>4, <3>1
      <2>6. ReadyStates' /\ SignedIsApproved' /\ SignatureByOwner' /\ SecondHalfOnce'
          BY <2>1 DEF ReadyStates, BootKeys, SignedIsApproved, SignatureByOwner, SecondHalfOnce
      <2>7. NoGapInReview'
          BY <2>1 DEF ReadyStates, NoGapInReview
      <2>8. ReviewIsBuffered'
          <3>1. Parse(bytes) = Parse(buffer)'
              BY <2>1 DEF Parse
          <3>2. CASE OwnerIsDevice(Parse(bytes))
              <4>1. (Owner[ctx_parsed_tx[1]])' = Owner[Parse(bytes)[1]] /\ rsa_pub' = rsa_pub
                  BY <2>1
              <4> QED
                  BY <2>1, <3>1, <3>2, <4>1 DEF ReviewIsBuffered, OwnerIsDevice
          <3>3. CASE review' = "none"
              BY <3>3 DEF ReviewIsBuffered
          <3> QED
              BY <2>4, <3>2, <3>3
      <2> QED
          BY <2>5, <2>6, <2>7, <2>8
  <1> QED
      BY <1>2, <1>3, <1>4, <1>5, <1>6

\* GET_SIG hands out a half, and with the second one gives the signature up.
LEMMA GetSigStep ==
    ASSUME AppInv, NEW c, GetSigPart(c)
    PROVE  AppInv'
  <1> USE DEF AppInv, device, store, txBuffer
  <1> DEFINE sig == N_crypto_sig[slot_in_use]
  <1>1. /\ signature_set /\ released = 0 /\ c.p2 \in 0..1 /\ device_initialized
        /\ sig \in Signatures
        /\ reply' = Answer("OK", sig.tx, sig.key, c.p2)
        /\ UNCHANGED <<device, store, txBuffer, review, signed>>
      BY DEF GetSigPart, ClearSignature, ReadyStates, TypeOK
  <1>2. reply' \in [sw : StatusWords, tx : Tx \cup {NoTx}, key : Keys \cup {NoKey}, part : 0..1]
      BY <1>1, AnswerType DEF Signatures, StatusWords
  <1>3. CASE c.p2 = 0
      <2>1. UNCHANGED <<signature_set, N_crypto_sig, released>>
          BY <1>3 DEF GetSigPart, ClearSignature
      <2> QED
          BY <1>1, <1>2, <2>1, SayStep DEF signature
  <1>4. CASE c.p2 = 1
      <2>1. /\ N_crypto_sig' = [N_crypto_sig EXCEPT ![slot_in_use] = NoSignature]
            /\ signature_set' = FALSE /\ released' = 1
          BY <1>1, <1>4 DEF GetSigPart, ClearSignature
      <2>2. TypeOK'
          <3>1. N_crypto_sig' \in [Slots -> Signatures]
              BY <2>1 DEF TypeOK, NoSignature, Signatures
          <3>2. signature_set' \in BOOLEAN
              BY <2>1
          <3>3. released' \in 0..2
              BY <2>1
          <3> QED
              BY <1>1, <1>2, <3>1, <3>2, <3>3 DEF TypeOK
      <2>3. SecondHalfOnce'
          BY <1>1, <2>1 DEF SecondHalfOnce, TypeOK
      <2>4. ReadyStates' /\ SignedIsApproved' /\ SignatureByOwner'
          BY <1>1, <2>1 DEF ReadyStates, BootKeys, SignedIsApproved, SignatureByOwner
      <2>5. NoGapInReview' /\ ReviewIsBuffered'
          BY <1>1 DEF NoGapInReview, ReviewIsBuffered, OwnerIsDevice, Parse
      <2> QED
          BY <2>2, <2>3, <2>4, <2>5
  <1> QED
      BY <1>3, <1>4 DEF GetSigPart, ClearSignature

\* The handlers that only answer.
LEMMA AnswerStep ==
    ASSUME AppInv, NEW c,
           \/ Refuse(c) \/ GetVersion(c) \/ SignLastUnexpected(c) \/ GetSigRefused(c)
           \/ GetPubKeyPart(c) \/ (GetAddress(c) /\ review' = review)
    PROVE  AppInv'
  <1>1. rsa_pub \in Keys \cup {NoKey}
      BY DEF AppInv, TypeOK
  <1>2. \A sw \in StatusWords, part \in 0..1 :
            /\ Status(sw) \in
                  [sw : StatusWords, tx : Tx \cup {NoTx}, key : Keys \cup {NoKey}, part : 0..1]
            /\ Answer(sw, NoTx, rsa_pub, part) \in
                  [sw : StatusWords, tx : Tx \cup {NoTx}, key : Keys \cup {NoKey}, part : 0..1]
      BY <1>1 DEF Status, Answer
  <1>3. CASE Refuse(c)
      <2>1. Refusal(c) \in StatusWords
          BY <1>3 DEF Refuse, Refusal, StatusWords
      <2> QED
          BY <1>2, <1>3, <2>1, SayStep DEF Refuse, Say
  <1>4. CASE GetVersion(c) \/ SignLastUnexpected(c) \/ GetSigRefused(c)
      BY <1>2, <1>4, SayStep DEF GetVersion, SignLastUnexpected, GetSigRefused, Say, StatusWords
  <1>5. CASE GetPubKeyPart(c)
      BY <1>2, <1>5, SayStep DEF GetPubKeyPart, Say, StatusWords
  <1>6. CASE GetAddress(c) /\ review' = review
      BY <1>2, <1>6, SayStep DEF GetAddress, Say, StatusWords
  <1> QED
      BY <1>3, <1>4, <1>5, <1>6

\* The address is shown before it is given.
LEMMA AddressStep ==
    ASSUME AppInv, review = "none", device_initialized, NEW c, GetAddress(c), review' # review
    PROVE  AppInv'
  <1>1. /\ review' = "address" /\ reply' = Status("none")
        /\ UNCHANGED <<device, store, txBuffer, signature>>
      BY DEF GetAddress, Say
  <1>2. reply' \in [sw : StatusWords, tx : Tx \cup {NoTx}, key : Keys \cup {NoKey}, part : 0..1]
      BY <1>1 DEF Status, Answer, StatusWords
  <1>3. TypeOK'
      BY <1>1, <1>2 DEF AppInv, TypeOK, device, store, txBuffer, signature
  <1> QED
      BY <1>1, <1>3 DEF AppInv, ReadyStates, BootKeys, SignedIsApproved, SignatureByOwner,
          SecondHalfOnce, NoGapInReview, ReviewIsBuffered, device, store, txBuffer, signature

LEMMA HandlerStep ==
    ASSUME AppInv, NEW c \in Commands, HandleApdu(c)
    PROVE  AppInv'
  <1>1. review = "none" /\ running
      BY DEF HandleApdu, TakesCommands
  <1>2. CASE Refuse(c)
      BY <1>1, <1>2, AnswerStep
  <1>3. CASE Refusal(c) = "none"
      <2>1. c.ins # "GET_VERSION" => device_initialized
          <3>1. c.frame \in {"ok", "foreign", "short"}
              BY DEF Commands, Command
          <3> QED
              BY <1>3, <3>1 DEF Refusal
      <2>2. CASE GetVersion(c) \/ SignLastUnexpected(c) \/ GetSigRefused(c) \/ GetPubKeyPart(c)
          BY <1>1, <2>2, AnswerStep
      <2>3. CASE GetAddress(c)
          BY <1>1, <2>1, <2>3, AnswerStep, AddressStep DEF GetAddress
      <2>4. CASE SignBadParameter(c) \/ SignInit(c) \/ SignAdd(c) \/ SignOverflow(c) \/ SignLast(c)
          <3>1. c.ins = "SIGN"
              BY <2>4 DEF SignBadParameter, SignInit, ResetBuffer, SignAdd, SignOverflow, GiveUp, SignLast
          <3> QED
              BY <1>1, <2>1, <2>4, <3>1, SignStep
      <2>5. CASE GetSigPart(c)
          BY <2>5, GetSigStep
      <2> QED
          BY <1>2, <1>3, <2>2, <2>3, <2>4, <2>5 DEF HandleApdu, TakesCommands
  <1> QED
      BY <1>2, <1>3 DEF HandleApdu, TakesCommands

-----------------------------------------------------------------------------
(* The device and the user.                                                *)

\* Starting, becoming ready, locking and loading a mnemonic.
LEMMA DeviceStep ==
    ASSUME AppInv, Start \/ Initialize \/ ChangeMnemonic \/ ToggleLock
    PROVE  AppInv'
  <1> USE DEF AppInv, device, store, txBuffer, signature
  <1>1. CASE Start
      <2>1. ~device_initialized
          BY <1>1 DEF Start, KeyStart, ReadyStates
      <2> QED
          BY <1>1, <2>1 DEF Start, KeyStart, TypeOK, ReadyStates, BootKeys, SignedIsApproved,
              SignatureByOwner, SecondHalfOnce, NoGapInReview, ReviewIsBuffered, OwnerIsDevice, Parse
  <1>2. CASE Initialize
      <2>1. review = "none" /\ ~signature_set /\ released = 0
          BY <1>2 DEF Initialize, BecomeReady, ReadyStates, TypeOK
      <2>2. TypeOK'
          BY <1>2 DEF Initialize, BecomeReady, TypeOK
      <2>3. BootKeys(rsa_pub, rsa_priv)'
          BY <1>2 DEF Initialize, BecomeReady, BootKeys
      <2> QED
          BY <1>2, <2>1, <2>2, <2>3 DEF Initialize, BecomeReady, ReadyStates, SignedIsApproved,
              SignatureByOwner, SecondHalfOnce, NoGapInReview, ReviewIsBuffered
  <1>3. CASE ChangeMnemonic
      <2>1. ~device_initialized /\ rsa_priv = NoKey /\ ~signature_set /\ review = "none" /\ released = 0
          BY <1>3 DEF ChangeMnemonic, KeyChange, ReadyStates, TypeOK
      <2> QED
          BY <1>3, <2>1 DEF ChangeMnemonic, KeyChange, TypeOK, ReadyStates, BootKeys, SignedIsApproved,
              SignatureByOwner, SecondHalfOnce, NoGapInReview, ReviewIsBuffered
  <1>4. CASE ToggleLock
      BY <1>4 DEF ToggleLock, TypeOK, ReadyStates, BootKeys, SignedIsApproved, SignatureByOwner,
          SecondHalfOnce, NoGapInReview, ReviewIsBuffered, OwnerIsDevice, Parse
  <1> QED
      BY <1>1, <1>2, <1>3, <1>4

\* However the app stops, and whatever that leaves in flash, nothing is signed
\* any more.
LEMMA StopStep ==
    ASSUME AppInv, Stop \/ CutShort
    PROVE  AppInv'
  <1> USE DEF AppInv
  <1>1. /\ running' = FALSE /\ device_initialized' = FALSE
        /\ slot_in_use' = KEY_SLOT_1 /\ rsa_pub' = NoKey /\ rsa_priv' = NoKey
        /\ tx_initialized' = FALSE /\ buffering' = FALSE /\ buffer' = <<>>
        /\ ctx_parsed_tx' = NoTx /\ gap' = FALSE /\ review' = "none"
        /\ reply' = Status("none")
        /\ signature_set' = FALSE /\ signed' = NoTx /\ released' = 0
        /\ UNCHANGED <<mnemonic, pin>>
      BY DEF Stop, CutShort, Restart, KeyStop, ForgetSignature
  <1>2. N_crypto_sig' \in [Slots -> Signatures]
      <2>1. CASE Stop
          BY <2>1 DEF Stop, TypeOK
      <2>2. CASE CutShort
          <3>1. PICK sig \in {SignatureOf(NoTx), IF review = "transaction" THEN SignatureOf(ctx_parsed_tx)
                                                                         ELSE NoSignature} :
                    N_crypto_sig' = [N_crypto_sig EXCEPT ![slot_in_use] = sig]
              BY <2>2 DEF CutShort
          <3>2. sig \in Signatures
              BY <3>1 DEF SignatureOf, NoSignature, Signatures, TypeOK
          <3> QED
              BY <3>1, <3>2 DEF TypeOK
      <2> QED
          BY <2>1, <2>2
  <1>3. TypeOK'
      <2>1. reply' \in [sw : StatusWords, tx : Tx \cup {NoTx}, key : Keys \cup {NoKey}, part : 0..1]
          BY <1>1 DEF Status, Answer, StatusWords
      <2>2. buffer' \in Seq(Chunks) /\ Len(buffer') <= Capacity
          BY <1>1, EmptyFits
      <2>3. /\ running' \in BOOLEAN /\ device_initialized' \in BOOLEAN
            /\ tx_initialized' \in BOOLEAN /\ buffering' \in BOOLEAN
            /\ gap' \in BOOLEAN /\ signature_set' \in BOOLEAN
          BY <1>1
      <2>4. mnemonic' \in Keys /\ pin' \in BOOLEAN /\ slot_in_use' \in Slots
          BY <1>1, SlotsAssumption DEF TypeOK
      <2>5. /\ rsa_pub' \in Keys \cup {NoKey} /\ rsa_priv' \in Keys \cup {NoKey}
            /\ ctx_parsed_tx' \in Tx \cup {NoTx} /\ signed' \in Tx \cup {NoTx}
            /\ review' \in {"none", "address", "transaction"} /\ released' \in 0..2
          BY <1>1
      <2> QED
          BY <1>2, <2>1, <2>2, <2>3, <2>4, <2>5 DEF TypeOK
  <1> QED
      BY <1>1, <1>3 DEF ReadyStates, BootKeys, SignedIsApproved, SignatureByOwner, SecondHalfOnce,
          NoGapInReview, ReviewIsBuffered

\* The user's choice: only an approval signs, and it signs what is shown.
LEMMA ChoiceStep ==
    ASSUME AppInv, UserChoice
    PROVE  AppInv'
  <1> USE DEF AppInv, device, store, txBuffer, signature
  <1>1. device_initialized
      BY DEF UserChoice, ApproveTransaction, ApproveFails, ApproveAddress, Reject, ReadyStates
  <1>2. CASE ApproveTransaction
      <2> DEFINE new == SignatureOf(ctx_parsed_tx)
      <2>1. /\ N_crypto_sig' = [N_crypto_sig EXCEPT ![slot_in_use] = new]
            /\ signature_set' = TRUE /\ signed' = ctx_parsed_tx /\ released' = 0
            /\ review' = "none" /\ reply' = Answer("OK", ctx_parsed_tx, NoKey, 0)
            /\ UNCHANGED <<device, store, txBuffer>>
          BY <1>2 DEF ApproveTransaction
      <2>2. /\ ctx_parsed_tx \in Tx /\ Owner[ctx_parsed_tx[1]] = rsa_pub
            /\ rsa_priv = mnemonic /\ rsa_pub = mnemonic
          BY <1>2 DEF ApproveTransaction, ReviewIsBuffered, OwnerIsDevice, ReadyStates, BootKeys, TypeOK
      <2>3. TypeOK'
          <3>1. new \in Signatures
              BY <2>2 DEF SignatureOf, Signatures, TypeOK
          <3>2. reply' \in [sw : StatusWords, tx : Tx \cup {NoTx}, key : Keys \cup {NoKey}, part : 0..1]
              BY <2>1, <2>2 DEF Answer, StatusWords
          <3>3. N_crypto_sig' \in [Slots -> Signatures]
              BY <2>1, <3>1 DEF TypeOK
          <3> QED
              BY <2>1, <2>2, <3>2, <3>3 DEF TypeOK
      <2>4. N_crypto_sig'[slot_in_use'] = new
          BY <2>1 DEF TypeOK
      <2>5. SignedIsApproved' /\ SignatureByOwner' /\ SecondHalfOnce'
          BY <2>1, <2>2, <2>4 DEF SignatureOf, SignedIsApproved, SignatureByOwner, SecondHalfOnce
      <2>6. ReadyStates' /\ NoGapInReview' /\ ReviewIsBuffered'
          BY <1>1, <2>1 DEF ReadyStates, BootKeys, NoGapInReview, ReviewIsBuffered
      <2> QED
          BY <2>3, <2>5, <2>6
  <1>3. CASE ApproveFails \/ ApproveAddress \/ Reject
      <2>1. /\ review' = "none"
            /\ UNCHANGED <<device, store, txBuffer, signature>>
          BY <1>3 DEF ApproveFails, ApproveAddress, Reject
      <2>2. reply' \in [sw : StatusWords, tx : Tx \cup {NoTx}, key : Keys \cup {NoKey}, part : 0..1]
          BY <1>3 DEF ApproveFails, ApproveAddress, Reject, Status, Answer, StatusWords, TypeOK
      <2> QED
          BY <2>1, <2>2 DEF TypeOK, ReadyStates, BootKeys, SignedIsApproved, SignatureByOwner,
              SecondHalfOnce, NoGapInReview, ReviewIsBuffered
  <1> QED
      BY <1>2, <1>3 DEF UserChoice

LEMMA NextInvariant == AppInv /\ [Next]_vars => AppInv'
  <1> SUFFICES ASSUME AppInv, [Next]_vars PROVE AppInv'
      OBVIOUS
  <1>1. CASE Start \/ Initialize \/ Stop \/ CutShort \/ ChangeMnemonic \/ ToggleLock
      BY <1>1, DeviceStep, StopStep
  <1>2. CASE \E c \in Commands : HandleApdu(c)
      BY <1>2, HandlerStep
  <1>3. CASE UserChoice
      BY <1>3, ChoiceStep
  <1>4. CASE UNCHANGED vars
      BY <1>4, SayStep DEF vars, AppInv, TypeOK
  <1> QED
      BY <1>1, <1>2, <1>3, <1>4 DEF Next

\* AppInv holds in every reachable state of the app.
THEOREM Invariance == Spec => []AppInv
  <1> QED
      BY InitInvariant, NextInvariant, PTL DEF Spec

\* Type correctness; the transaction buffer never exceeds its capacity.
THEOREM TypeCorrect == Spec => []TypeOK
  <1>1. AppInv => TypeOK
      BY DEF AppInv
  <1> QED
      BY <1>1, Invariance, PTL

\* What GET_SIG can hand out is the signature, with the device's own key, of
\* the transaction of the last approval.
THEOREM ApprovedSignature == Spec => []SignedIsApproved
  <1>1. AppInv => SignedIsApproved
      BY DEF AppInv
  <1> QED
      BY <1>1, Invariance, PTL

\* That transaction names the signing key as its owner.
THEOREM OwnersSignature == Spec => []SignatureByOwner
  <1>1. AppInv => SignatureByOwner
      BY DEF AppInv
  <1> QED
      BY <1>1, Invariance, PTL

\* The transaction on the screen has every payload since its INIT.
THEOREM ReviewWithoutGap == Spec => []NoGapInReview
  <1>1. AppInv => NoGapInReview
      BY DEF AppInv
  <1> QED
      BY <1>1, Invariance, PTL

\* After its second half a signature is gone from RAM and flash.
THEOREM OneSecondHalf == Spec => []SecondHalfOnce
  <1>1. AppInv => SecondHalfOnce
      BY DEF AppInv
  <1> QED
      BY <1>1, Invariance, PTL
\* What the user reads is the front of the buffer, a transaction of this device.
THEOREM ReviewOfBuffer == Spec => []ReviewIsBuffered
  <1>1. AppInv => ReviewIsBuffered
      BY DEF AppInv
  <1> QED
      BY <1>1, Invariance, PTL

-----------------------------------------------------------------------------
(* SignApp implements SignService.                                         *)

\* An answer without a transaction or without a key is no half of a signature.
LEMMA NoHalfAnswered ==
    ASSUME reply.tx = NoTx \/ reply.key = NoKey
    PROVE  handed = Signer!NoHalf
  BY DEF handed, Signer!NoHalf, Signer!HalfOf, Signer!NoSignature

\* Status words, and answers about keys alone, are no halves.
LEMMA PlainAnswers ==
    ASSUME NEW sw, NEW tx, NEW key, NEW part
    PROVE  /\ Status(sw).tx = NoTx
           /\ Answer(sw, NoTx, key, part).tx = NoTx
           /\ Answer(sw, tx, NoKey, part).key = NoKey
  BY DEF Status, Answer

\* A command that shows no transaction and hands out no half.
LEMMA OtherCommand ==
    ASSUME NEW c, HandleApdu(c), ~GetSigPart(c), ~SignLast(c)
    PROVE  /\ UNCHANGED <<proposed, offered>>
           /\ reply'.tx = NoTx
  <1>1. review = "none" /\ review' # "transaction"
      BY DEF HandleApdu, TakesCommands, Refuse, GetVersion, SignLastUnexpected, GetSigRefused, GetPubKeyPart, Say,
             GetAddress, SignBadParameter, SignInit, ResetBuffer, SignAdd, SignOverflow, GiveUp
  <1>2. UNCHANGED <<signature, store>>
      BY DEF HandleApdu, TakesCommands, Refuse, GetVersion, SignLastUnexpected, GetSigRefused, GetPubKeyPart, Say,
             GetAddress, SignBadParameter, SignInit, ResetBuffer, SignAdd, SignOverflow, GiveUp
  <1>3. reply'.tx = NoTx
      <2>1. CASE Refuse(c) \/ GetVersion(c) \/ SignLastUnexpected(c) \/ GetSigRefused(c)
                 \/ GetPubKeyPart(c)
          BY <2>1 DEF Status, Answer, Refuse, GetVersion, SignLastUnexpected, GetSigRefused,
             GetPubKeyPart, Say
      <2>2. CASE GetAddress(c) \/ SignBadParameter(c)
          BY <2>2 DEF Status, Answer, GetAddress, SignBadParameter, Say
      <2>3. CASE SignInit(c) \/ SignAdd(c) \/ SignOverflow(c)
          BY <2>3 DEF Status, Answer, SignInit, ResetBuffer, SignAdd, SignOverflow, GiveUp
      <2> QED
          BY <2>1, <2>2, <2>3 DEF HandleApdu, TakesCommands
  <1> QED
      BY <1>1, <1>2, <1>3 DEF proposed, offered, signature, store

\* Every step of the app is a step of the signer, or none.
LEMMA StepSigner ==
    ASSUME AppInv, AppInv', [Next]_vars
    PROVE  [Signer!Next]_Signer!signerVars
  <1> USE DEF Signer!Next, Signer!signerVars
  <1>0. reply'.tx = NoTx \/ reply'.key = NoKey => handed' = Signer!NoHalf
      BY DEF handed, Signer!NoHalf, Signer!HalfOf, Signer!NoSignature
  <1>1. CASE Start \/ Initialize \/ ChangeMnemonic \/ ToggleLock \/ UNCHANGED vars
      <2>1. UNCHANGED <<review, ctx_parsed_tx, signature_set, N_crypto_sig, reply>>
          BY <1>1 DEF Start, Initialize, ChangeMnemonic, ToggleLock, vars, txBuffer, signature
      <2>2. UNCHANGED slot_in_use \/ ~signature_set
          BY <1>1 DEF Start, KeyStart, Initialize, BecomeReady, ChangeMnemonic, KeyChange, ToggleLock,
                      vars, store, AppInv, ReadyStates
      <2> QED
          BY <2>1, <2>2 DEF proposed, offered, handed
  <1>2. CASE Stop \/ CutShort
      <2>1. review' = "none" /\ ~signature_set' /\ reply' = Status("none")
          BY <1>2 DEF Stop, CutShort, Restart, ForgetSignature
      <2>2. handed' = Signer!NoHalf
          BY <1>0, <2>1, PlainAnswers
      <2> QED
          BY <2>1, <2>2 DEF Signer!Stop, Signer!NoSignature, NoSignature, proposed, offered
  <1>3. CASE \E c \in Commands : HandleApdu(c)
      <2> SUFFICES ASSUME NEW c \in Commands, HandleApdu(c)
                   PROVE  Signer!Next
          BY <1>3
      <2>1. review = "none"
          BY DEF HandleApdu, TakesCommands
      <2>2. CASE SignLast(c)
          <3>1. /\ UNCHANGED <<signature, store>>
                /\ reply' \in {Status("none"), Status("DATA_INVALID")}
              BY <2>2 DEF SignLast
          <3>2. UNCHANGED offered /\ handed' = Signer!NoHalf
              BY <1>0, <3>1, PlainAnswers DEF signature, store, offered
          <3>3. CASE review' = "transaction"
              <4>1. ctx_parsed_tx' \in Tx
                  BY <2>1, <2>2, <3>3, ValidIsTx DEF SignLast
              <4> QED
                  BY <2>1, <3>2, <3>3, <4>1 DEF Signer!Propose, proposed
          <3>4. CASE review' = "none"
              BY <2>1, <3>2, <3>4 DEF Signer!AnswerOther, proposed
          <3> QED
              BY <2>1, <2>2, <3>3, <3>4 DEF SignLast
      <2>3. CASE GetSigPart(c)
          <3> DEFINE sig == N_crypto_sig[slot_in_use]
          <3>1. /\ c.p2 \in 0..1 /\ signature_set /\ offered = sig
                /\ reply' = Answer("OK", sig.tx, sig.key, c.p2)
                /\ UNCHANGED <<device, store, txBuffer, review>>
              BY <2>3 DEF GetSigPart, ClearSignature, offered
          <3>2. sig.tx \in Tx /\ sig.tx # NoTx /\ sig.key # NoKey /\ sig \in Signatures
              BY <3>1, KeysAssumption, TxAssumption DEF AppInv, TypeOK, SignedIsApproved, SignatureByOwner, Tx
          <3>3. handed' = Signer!HalfOf(offered, c.p2)
              BY <3>1, <3>2 DEF handed, Answer, Signer!HalfOf
          <3>4. offered # Signer!NoSignature
              BY <3>1, <3>2 DEF Signer!NoSignature
          <3>5. offered' = IF c.p2 = 1 THEN Signer!NoSignature ELSE offered
              <4>1. CASE c.p2 = 0
                  <5>1. UNCHANGED <<signature_set, N_crypto_sig, slot_in_use>>
                      BY <2>3, <3>1, <4>1 DEF GetSigPart, ClearSignature, store
                  <5> QED
                      BY <4>1, <5>1 DEF offered
              <4>2. CASE c.p2 = 1
                  <5>1. signature_set' = FALSE
                      BY <2>3, <4>2 DEF GetSigPart, ClearSignature
                  <5> QED
                      BY <4>2, <5>1 DEF offered, NoSignature, Signer!NoSignature
              <4> QED
                  BY <3>1, <4>1, <4>2
          <3>6. UNCHANGED proposed /\ proposed = NoTx
              BY <2>1, <3>1 DEF proposed
          <3> QED
              BY <3>1, <3>3, <3>4, <3>5, <3>6 DEF Signer!HandOut
      <2>4. CASE ~SignLast(c) /\ ~GetSigPart(c)
          BY <1>0, <2>4, OtherCommand DEF Signer!AnswerOther
      <2> QED
          BY <2>2, <2>3, <2>4
  <1>4. CASE ApproveTransaction
      <2>1. /\ ctx_parsed_tx \in Tx /\ ctx_parsed_tx # NoTx /\ Owner[ctx_parsed_tx[1]] = rsa_priv
          BY <1>4, TxAssumption DEF ApproveTransaction, AppInv, ReviewIsBuffered, OwnerIsDevice, ReadyStates,
                BootKeys, TypeOK, Tx
      <2>2. handed' = Signer!NoHalf
          BY <1>0, <1>4, PlainAnswers DEF ApproveTransaction
      <2>3. offered' = [tx |-> ctx_parsed_tx, key |-> OwnerOf[ctx_parsed_tx]]
          BY <1>4, <2>1 DEF ApproveTransaction, SignatureOf, OwnerOf, offered, store, AppInv, TypeOK
      <2>4. proposed = ctx_parsed_tx /\ proposed' = NoTx
          BY <1>4 DEF ApproveTransaction, proposed
      <2> QED
          BY <2>1, <2>2, <2>3, <2>4 DEF Signer!Approve
  <1>5. CASE ApproveFails \/ ApproveAddress \/ Reject
      <2>1. review' = "none" /\ UNCHANGED <<store, signature>> /\ reply'.tx = NoTx
          BY <1>5, PlainAnswers DEF ApproveFails, ApproveAddress, Reject
      <2> QED
          BY <1>0, <2>1 DEF Signer!Decline, proposed, offered, store, signature
  <1> QED
      BY <1>1, <1>2, <1>3, <1>4, <1>5 DEF Next, UserChoice

\* The app keeps the promise of the signer.
THEOREM ImplementsSigner == Spec => SignerSpec
  <1>1. Init => Signer!Init
      <2>1. Init => handed = Signer!NoHalf
          BY NoHalfAnswered, PlainAnswers DEF Init
      <2> QED
          BY <2>1 DEF Init, proposed, offered, NoSignature, Signer!Init, Signer!NoSignature
  <1> QED
      BY <1>1, StepSigner, Invariance, PTL DEF Spec, SignerSpec, Signer!Spec

-----------------------------------------------------------------------------
(* The calls.                                                              *)

\* Half a signature is of a transaction the user approved, by its owner's key.
IsApprovedHalf(h) == h.tx \in approvals /\ Owner[h.tx[1]] = h.key

\* The half that the last answer carries.
HalfAnswered == [tx |-> reply.tx, key |-> reply.key]

PartOf == [part0 |-> 0, part1 |-> 1]

\* What is signed was approved, and so was every half that is on its way to a
\* call or that a call holds.  While one waits for a half nothing is reviewed.
SignedWasApproved == signature_set => signed \in approvals

AnsweredWasApproved ==
    \A c \in exchange : at[c] \in {"part0", "part1"} =>
        /\ review = "none"
        /\ reply.sw = "OK" => reply.part = PartOf[at[c]] /\ IsApprovedHalf(HalfAnswered)

HeldWasApproved ==
    \A c \in Calls :
        /\ at[c] \in {"part1", "resolved"} => IsApprovedHalf(half[c][0])
        /\ at[c] = "resolved" => IsApprovedHalf(half[c][1])

\* A call that was made has a message, and one at a time awaits an answer.
CallsAreMade ==
    /\ \A c \in Calls : at[c] # "idle" => message[c] \in Messages
    /\ \A c, d \in exchange : c = d
    /\ \A c \in exchange : at[c] \in {"init", "add", "last", "part0", "part1"}
    /\ review # "address"

CallsInv ==
    /\ AppInv
    /\ ClientTypeOK
    /\ CallsAreMade
    /\ SignedWasApproved
    /\ AnsweredWasApproved
    /\ HeldWasApproved

-----------------------------------------------------------------------------
(* The app in the composition.                                             *)

\* What a call sends is a command that the app is specified for.
LEMMA CallCommands ==
  ASSUME CallsInv, NEW c \in Calls, Sending(c)
  PROVE  CommandAt(c) \in Commands
  <1>1. message[c] \in Messages /\ Messages \subseteq Heads \X Tails
    BY MessagesAssumption DEF CallsInv, CallsAreMade, Sending, Tx
  <1>2. message[c][1] \in Chunks /\ message[c][2] \in Chunks
    BY <1>1 DEF Chunks
  <1>3. \A x \in Chunks : <<x>> \in Payloads
    BY DEF Payloads
  <1>4. \A p1 \in {P1_INIT, P1_ADD, P1_LAST}, data \in Payloads :
            Command("ok", "SIGN", p1, 0, data) \in Commands
    BY DEF Commands
  <1>5. \A part \in 0..1 : Command("ok", "GET_SIG", 0, part, <<>>) \in Commands
    <2>1. \A part \in 0..1 : part \in 0..2 /\ "GET_SIG" \in {"GET_SIG", "GET_PK"}
      OBVIOUS
    <2> QED
      BY <2>1 DEF Commands
  <1>6. <<>> \in Payloads
    BY DEF Payloads
  <1>7. CASE at[c] = "init"
    BY <1>4, <1>6, <1>7 DEF CommandAt
  <1>8. CASE at[c] = "add"
    BY <1>2, <1>3, <1>4, <1>8 DEF CommandAt
  <1>9. CASE at[c] = "last"
    BY <1>2, <1>3, <1>4, <1>9 DEF CommandAt
  <1>10. CASE at[c] = "part0" \/ at[c] = "part1"
    BY <1>5, <1>10 DEF CommandAt
  <1> QED
    BY <1>7, <1>8, <1>9, <1>10 DEF Sending

\* A step of the composition is one of the app or leaves it alone.
LEMMA StepOfApp == CallsInv /\ [ClientNext]_allVars => [Next]_vars
  <1> SUFFICES ASSUME CallsInv, [ClientNext]_allVars PROVE [Next]_vars
    OBVIOUS
  <1>1. ASSUME NEW c \in Calls, ClientStep(c) PROVE [Next]_vars
    <2>1. CASE Deliver(c)
      BY <1>1, <2>1, CallCommands DEF Deliver, Next
    <2>2. CASE SendFails(c) \/ Receive(c) \/ AnswerLost(c)
      BY <2>2 DEF SendFails, Receive, AnswerLost
    <2> QED
      BY <1>1, <2>1, <2>2 DEF ClientStep
  <1>2. ASSUME NEW c \in Calls, NEW m \in Messages, Call(c, m) PROVE [Next]_vars
    BY <1>2 DEF Call
  <1>3. CASE Choose
    BY <1>3 DEF Choose, Next, UserChoice
  <1>4. CASE Device
    BY <1>4 DEF Device, Next
  <1>5. CASE UNCHANGED allVars
    BY <1>5 DEF allVars
  <1> QED
    BY <1>1, <1>2, <1>3, <1>4, <1>5 DEF ClientNext

-----------------------------------------------------------------------------
(* What a command of a call changes.                                       *)

\* GET_SIG answers with a half of what is signed, or with an error.
LEMMA GetSigAnswers ==
  ASSUME AppInv, NEW part \in 0..1, HandleApdu(Command("ok", "GET_SIG", 0, part, <<>>))
  PROVE  /\ review' = "none" /\ signed' = signed
         /\ signature_set' => signature_set
         /\ reply'.sw = "OK" =>
                /\ signature_set /\ reply'.part = part
                /\ reply'.tx = signed /\ Owner[reply'.tx[1]] = reply'.key
  <1> DEFINE c == Command("ok", "GET_SIG", 0, part, <<>>)
  <1>1. c.frame = "ok" /\ c.ins = "GET_SIG" /\ c.p2 = part /\ c.data = <<>>
    BY DEF Command
  <1> HIDE DEF c
  <1>2. review = "none" /\ (Refuse(c) \/ GetSigPart(c) \/ GetSigRefused(c))
    BY <1>1 DEF HandleApdu, TakesCommands, GetVersion, SignBadParameter, SignInit, SignAdd, SignOverflow,
           SignLastUnexpected, SignLast, GetPubKeyPart, GetAddress, c
  <1>3. CASE Refuse(c)
    <2>1. Refusal(c) # "OK"
      BY <1>1 DEF Refusal
    <2> QED
      BY <1>2, <1>3, <2>1 DEF Refuse, Say, Status, Answer, signature
  <1>4. CASE GetSigRefused(c)
    BY <1>1, <1>2, <1>4 DEF GetSigRefused, Say, Status, Answer, signature
  <1>5. CASE GetSigPart(c)
    <2> DEFINE sig == N_crypto_sig[slot_in_use]
    <2>1. sig.tx = signed /\ Owner[sig.tx[1]] = sig.key
      BY <1>5 DEF GetSigPart, AppInv, SignedIsApproved, SignatureByOwner
    <2>2. /\ signature_set /\ UNCHANGED <<review, signed>>
          /\ reply' = Answer("OK", sig.tx, sig.key, c.p2)
      BY <1>5 DEF GetSigPart
    <2> HIDE DEF sig
    <2> QED
      BY <1>1, <1>2, <2>1, <2>2 DEF Answer
  <1> QED
    BY <1>2, <1>3, <1>4, <1>5

\* SIGN leaves the signature alone and shows no address.
LEMMA SignKeepsSignature ==
  ASSUME NEW p1, NEW data, HandleApdu(Command("ok", "SIGN", p1, 0, data))
  PROVE  /\ UNCHANGED signature
         /\ review' = "none" \/ (review' = "transaction" /\ p1 = P1_LAST)
  <1> DEFINE c == Command("ok", "SIGN", p1, 0, data)
  <1>1. c.ins = "SIGN" /\ c.p1 = p1
    BY DEF Command
  <1> HIDE DEF c
  <1>2. review = "none"
    BY DEF HandleApdu, TakesCommands
  <1>3. \/ Refuse(c) \/ SignBadParameter(c) \/ SignInit(c) \/ SignAdd(c) \/ SignOverflow(c)
        \/ SignLastUnexpected(c) \/ SignLast(c)
    BY <1>1 DEF HandleApdu, TakesCommands, GetVersion, GetSigPart, GetSigRefused, GetPubKeyPart, GetAddress, c
  <1>4. CASE Refuse(c) \/ SignLastUnexpected(c)
    BY <1>2, <1>4 DEF Refuse, SignLastUnexpected, Say
  <1>5. CASE SignBadParameter(c) \/ SignInit(c) \/ SignAdd(c) \/ SignOverflow(c)
    BY <1>2, <1>5 DEF SignBadParameter, SignInit, SignAdd, SignOverflow
  <1>6. CASE SignLast(c)
    BY <1>1, <1>2, <1>6 DEF SignLast
  <1> QED
    BY <1>3, <1>4, <1>5, <1>6

-----------------------------------------------------------------------------
(* CallsInv is inductive.                                                  *)

LEMMA CallsInitInv == ClientInit => CallsInv
  <1> SUFFICES ASSUME ClientInit PROVE CallsInv
    OBVIOUS
  <1>1. AppInv /\ review = "none" /\ signature_set = FALSE
    BY InitInvariant DEF ClientInit, Init
  <1>2. ClientTypeOK
    BY DEF ClientInit, ClientTypeOK, Places, NoSignature, Signatures
  <1>3. exchange = {} /\ \A c \in Calls : at[c] = "idle"
    BY DEF ClientInit
  <1> QED
    BY <1>1, <1>2, <1>3
       DEF CallsInv, CallsAreMade, SignedWasApproved, AnsweredWasApproved, HeldWasApproved

LEMMA CallKeepsInv ==
  ASSUME CallsInv, NEW c \in Calls, NEW m \in Messages, Call(c, m)
  PROVE  CallsInv'
  <1> USE DEF CallsInv
  <1>1. AppInv'
    BY StepOfApp, NextInvariant DEF ClientNext
  <1>2. /\ at' = [at EXCEPT ![c] = "init"] /\ message' = [message EXCEPT ![c] = m]
        /\ UNCHANGED <<exchange, vars, approvals>>
        /\ half' = [half EXCEPT ![c] = [i \in 0..1 |-> NoSignature]]
    BY DEF Call
  <1>3. c \notin exchange
    BY DEF Call, CallsAreMade
  <1>4. ClientTypeOK'
    <2>1. [i \in 0..1 |-> NoSignature] \in [0..1 -> Signatures]
      BY DEF NoSignature, Signatures
    <2>2. digest' \in [Calls -> Tx \cup {NoTx}] /\ begun' \subseteq Calls
      BY DEF Call, ClientTypeOK
    <2>3. at' \in [Calls -> Places] /\ message' \in [Calls -> Messages \cup {NoTx}]
      BY <1>2 DEF ClientTypeOK, Places
    <2>4. half' \in [Calls -> [0..1 -> Signatures]]
      BY <1>2, <2>1 DEF ClientTypeOK
    <2> QED
      BY <1>2, <2>2, <2>3, <2>4 DEF ClientTypeOK
  <1>5. /\ \A d \in Calls : at'[d] = IF d = c THEN "init" ELSE at[d]
        /\ \A d \in Calls : message'[d] = IF d = c THEN m ELSE message[d]
        /\ \A d \in Calls : d # c => half'[d] = half[d]
    BY <1>2 DEF ClientTypeOK
  <1>6. UNCHANGED <<review, reply, signature_set, signed, exchange, approvals>>
    BY <1>2 DEF vars, signature
  <1>7. CallsAreMade'
    BY <1>3, <1>5, <1>6 DEF CallsAreMade, ClientTypeOK
  <1>8. SignedWasApproved'
    BY <1>6 DEF SignedWasApproved
  <1>9. AnsweredWasApproved'
    BY <1>3, <1>5, <1>6 DEF AnsweredWasApproved, IsApprovedHalf, HalfAnswered, ClientTypeOK
  <1>10. HeldWasApproved'
    BY <1>5, <1>6 DEF HeldWasApproved, IsApprovedHalf
  <1> QED
    BY <1>1, <1>4, <1>7, <1>8, <1>9, <1>10

\* No command creates a signature, and one for a half is answered with a half
\* of the signature there is.
LEMMA DeliverKeepsInv ==
  ASSUME CallsInv, NEW c \in Calls, Deliver(c)
  PROVE  CallsInv'
  <1> USE DEF CallsInv
  <1>1. AppInv'
    BY StepOfApp, NextInvariant DEF ClientNext, ClientStep
  <1>2. /\ exchange' = {c} /\ HandleApdu(CommandAt(c)) /\ Sending(c)
        /\ UNCHANGED <<at, message, digest, half, begun, approvals>>
    BY DEF Deliver
  <1>3. ClientTypeOK'
    BY <1>2 DEF ClientTypeOK
  <1>4. HeldWasApproved'
    BY <1>2 DEF HeldWasApproved, IsApprovedHalf
  <1>5. CASE at[c] \in {"init", "add", "last"}
    <2>1. \E p1, data : HandleApdu(Command("ok", "SIGN", p1, 0, data))
      BY <1>2, <1>5 DEF CommandAt
    <2>2. UNCHANGED signature /\ review' # "address"
      BY <2>1, SignKeepsSignature
    <2>3. CallsAreMade'
      BY <1>2, <1>5, <2>2 DEF CallsAreMade
    <2>4. SignedWasApproved' /\ AnsweredWasApproved'
      BY <1>2, <1>5, <2>2 DEF SignedWasApproved, AnsweredWasApproved, signature
    <2> QED
      BY <1>1, <1>3, <1>4, <2>3, <2>4
  <1>6. CASE at[c] \in {"part0", "part1"}
    <2> DEFINE part == PartOf[at[c]]
    <2>1. part \in 0..1 /\ HandleApdu(Command("ok", "GET_SIG", 0, part, <<>>))
      BY <1>2, <1>6 DEF CommandAt, PartOf
    <2> HIDE DEF part
    <2>2. /\ review' = "none" /\ signed' = signed
          /\ signature_set' => signature_set
          /\ reply'.sw = "OK" =>
                /\ signature_set /\ reply'.part = part
                /\ reply'.tx = signed /\ Owner[reply'.tx[1]] = reply'.key
      BY <2>1, GetSigAnswers
    <2>3. CallsAreMade'
      BY <1>2, <1>6, <2>2 DEF CallsAreMade
    <2>4. SignedWasApproved'
      BY <1>2, <2>2 DEF SignedWasApproved
    <2>5. AnsweredWasApproved'
      <3>1. reply'.sw = "OK" => reply'.tx \in approvals /\ Owner[reply'.tx[1]] = reply'.key
        BY <2>2 DEF SignedWasApproved
      <3>2. reply'.sw = "OK" => reply'.part = PartOf[at'[c]]
        BY <1>2, <2>2 DEF part
      <3> QED
        BY <1>2, <2>2, <3>1, <3>2 DEF AnsweredWasApproved, IsApprovedHalf, HalfAnswered
    <2> QED
      BY <1>1, <1>3, <1>4, <2>3, <2>4, <2>5
  <1> QED
    BY <1>2, <1>5, <1>6 DEF Sending

\* Where a call can go.
LEMMA NextPlaces ==
  ASSUME NEW place \in {"init", "add", "last", "part0", "part1"}, NEW ok \in BOOLEAN
  PROVE  /\ NextPlace(place, ok) \in Places \ {"idle"}
         /\ NextPlace(place, ok) = "part1" => place = "part0" /\ ok
         /\ NextPlace(place, ok) = "resolved" => place = "part1" /\ ok
         /\ NextPlace(place, ok) = "part0" => place = "last" /\ ok
         /\ NextPlace(place, ok) = "last" => place = "add" /\ ok
         /\ NextPlace(place, ok) = "add" => place = "init"
         /\ NextPlace(place, ok) # "init"
  BY DEF NextPlace, After, Places

\* A call that goes on without an answer fails or sends its next chunk.
LEMMA FailureKeepsInv ==
  ASSUME CallsInv, NEW c \in Calls, SendFails(c) \/ AnswerLost(c)
  PROVE  CallsInv'
  <1> USE DEF CallsInv
  <1>1. AppInv'
    BY StepOfApp, NextInvariant DEF ClientNext, ClientStep
  <1>2. /\ at' = [at EXCEPT ![c] = NextPlace(at[c], FALSE)]
        /\ at[c] \in {"init", "add", "last", "part0", "part1"}
        /\ (exchange' = exchange /\ c \notin exchange) \/ exchange' = {}
        /\ UNCHANGED <<message, digest, half, begun, vars, approvals>>
    BY DEF SendFails, AnswerLost, Sending, CallsAreMade
  <1>3. \A d \in Calls : at'[d] = IF d = c THEN NextPlace(at[c], FALSE) ELSE at[d]
    BY <1>2 DEF ClientTypeOK
  <1>4. at'[c] \in Places \ {"idle", "part1", "resolved"} /\ at[c] # "idle"
    BY <1>2, <1>3, NextPlaces
  <1>5. ClientTypeOK'
    <2>1. at' \in [Calls -> Places]
      BY <1>2, <1>3, <1>4 DEF ClientTypeOK
    <2> QED
      BY <1>2, <2>1 DEF ClientTypeOK
  <1>6. UNCHANGED <<review, reply, signature_set, signed, approvals>>
    BY <1>2 DEF vars, signature
  <1>7. CallsAreMade'
    BY <1>2, <1>3, <1>4, <1>6 DEF CallsAreMade, ClientTypeOK
  <1>8. SignedWasApproved'
    BY <1>6 DEF SignedWasApproved
  <1>9. AnsweredWasApproved'
    <2> SUFFICES ASSUME NEW d \in exchange', at'[d] \in {"part0", "part1"}
                 PROVE  /\ review' = "none"
                        /\ reply'.sw = "OK" => /\ reply'.part = PartOf[at'[d]]
                                               /\ IsApprovedHalf(HalfAnswered)'
      BY DEF AnsweredWasApproved
    <2>1. d \in exchange /\ d # c
      BY <1>2
    <2>2. at'[d] = at[d]
      BY <1>3, <2>1 DEF ClientTypeOK
    <2> QED
      BY <1>6, <2>1, <2>2 DEF AnsweredWasApproved, IsApprovedHalf, HalfAnswered
  <1>10. HeldWasApproved'
    BY <1>2, <1>3, <1>4, <1>6 DEF HeldWasApproved, IsApprovedHalf
  <1> QED
    BY <1>1, <1>5, <1>7, <1>8, <1>9, <1>10

\* A half that arrives was approved when it was handed out.
LEMMA ReceiveKeepsInv ==
  ASSUME CallsInv, NEW c \in Calls, Receive(c)
  PROVE  CallsInv'
  <1> USE DEF CallsInv
  <1> DEFINE ok == reply.sw = "OK"
  <1>1. AppInv'
    BY StepOfApp, NextInvariant DEF ClientNext, ClientStep
  <1>2. /\ at' = [at EXCEPT ![c] = NextPlace(at[c], ok)]
        /\ at[c] \in {"init", "add", "last", "part0", "part1"} /\ c \in exchange
        /\ exchange' = {}
        /\ UNCHANGED <<message, vars, approvals>>
    BY DEF Receive, CallsAreMade
  <1>3. \A d \in Calls : at'[d] = IF d = c THEN NextPlace(at[c], ok) ELSE at[d]
    BY <1>2 DEF ClientTypeOK
  <1>4. /\ at'[c] \in Places \ {"idle"}
        /\ at'[c] = "part1" => at[c] = "part0" /\ ok
        /\ at'[c] = "resolved" => at[c] = "part1" /\ ok
    <2>1. at'[c] = NextPlace(at[c], ok) /\ ok \in BOOLEAN
      BY <1>3
    <2> HIDE DEF CallsInv, ok
    <2> QED
      BY <1>2, <2>1, NextPlaces
  <1>5. /\ reply.tx \in Tx \cup {NoTx} /\ reply.part \in 0..1
        /\ HalfAnswered \in Signatures
    BY DEF AppInv, TypeOK, HalfAnswered, Signatures
  <1>6. half' = IF at[c] \in {"part0", "part1"} /\ ok
                THEN [half EXCEPT ![c][reply.part] = HalfAnswered] ELSE half
    BY DEF Receive, HalfAnswered
  <1>7. ClientTypeOK'
    <2>1. at' \in [Calls -> Places]
      BY <1>2, <1>3, <1>4 DEF ClientTypeOK
    <2>2. digest' \in [Calls -> Tx \cup {NoTx}] /\ begun' \subseteq Calls
      BY <1>5 DEF Receive, ClientTypeOK
    <2>3. half' \in [Calls -> [0..1 -> Signatures]]
      BY <1>5, <1>6 DEF ClientTypeOK
    <2> QED
      BY <1>2, <2>1, <2>2, <2>3 DEF ClientTypeOK
  <1>8. UNCHANGED <<review, reply, signature_set, signed, approvals>>
    BY <1>2 DEF vars, signature
  <1>9. CallsAreMade'
    BY <1>2, <1>3, <1>4, <1>8 DEF CallsAreMade
  <1>10. SignedWasApproved' /\ AnsweredWasApproved'
    BY <1>2, <1>8 DEF SignedWasApproved, AnsweredWasApproved
  <1>11. HeldWasApproved'
    <2>1. \A d \in Calls : d # c => half'[d] = half[d]
      BY <1>6 DEF ClientTypeOK
    <2>2. CASE at[c] \in {"part0", "part1"} /\ ok
      <3>1. reply.part = PartOf[at[c]] /\ IsApprovedHalf(HalfAnswered)
        BY <1>2, <2>2 DEF AnsweredWasApproved
      <3>2. \A n \in 0..1 : half'[c][n] = IF n = reply.part THEN HalfAnswered ELSE half[c][n]
        BY <1>5, <1>6, <2>2 DEF ClientTypeOK
      <3>3. at'[c] = "part1" => IsApprovedHalf(half'[c][0])
        BY <1>4, <3>1, <3>2 DEF PartOf
      <3>4. at'[c] = "resolved" => IsApprovedHalf(half'[c][0]) /\ IsApprovedHalf(half'[c][1])
        BY <1>4, <3>1, <3>2 DEF PartOf, HeldWasApproved
      <3> QED
        BY <1>2, <1>3, <2>1, <3>3, <3>4 DEF HeldWasApproved, IsApprovedHalf
    <2>3. CASE ~(at[c] \in {"part0", "part1"} /\ ok)
      <3>1. half' = half /\ at'[c] \notin {"part1", "resolved"}
        BY <1>4, <1>6, <2>3
      <3> QED
        BY <1>2, <1>3, <3>1 DEF HeldWasApproved, IsApprovedHalf
    <2> QED
      BY <2>2, <2>3
  <1> QED
    BY <1>1, <1>7, <1>9, <1>10, <1>11

\* An approval adds to what was approved and signs it; no other choice signs.
LEMMA ChooseKeepsInv ==
  ASSUME CallsInv, Choose
  PROVE  CallsInv'
  <1> USE DEF CallsInv
  <1>1. AppInv'
    BY StepOfApp, NextInvariant DEF ClientNext
  <1>2. /\ UNCHANGED client /\ review # "none" /\ review' = "none"
        /\ approvals \subseteq approvals' /\ approvals' \subseteq Tx
        /\ (signature_set' => signed' \in approvals')
    <2>1. CASE ApproveTransaction /\ approvals' = approvals \cup {ctx_parsed_tx}
      <3>1. ctx_parsed_tx \in Tx /\ signed' = ctx_parsed_tx
        BY <2>1 DEF ApproveTransaction, AppInv, ReviewIsBuffered, OwnerIsDevice, TypeOK
      <3> QED
        BY <2>1, <3>1 DEF Choose, ApproveTransaction, ClientTypeOK
    <2>2. CASE (ApproveFails \/ ApproveAddress \/ Reject) /\ UNCHANGED approvals
      BY <2>2 DEF Choose, ApproveFails, ApproveAddress, Reject, SignedWasApproved, ClientTypeOK, signature
    <2> QED
      BY <2>1, <2>2 DEF Choose
  <1>3. UNCHANGED <<at, message, digest, half, exchange, begun>>
    BY <1>2 DEF client
  <1>4. ClientTypeOK'
    BY <1>2, <1>3 DEF ClientTypeOK
  <1>5. CallsAreMade' /\ SignedWasApproved'
    BY <1>2, <1>3 DEF CallsAreMade, SignedWasApproved
  <1>6. AnsweredWasApproved'
    <2>1. \A c \in exchange : at[c] \notin {"part0", "part1"}
      BY <1>2 DEF AnsweredWasApproved
    <2> QED
      BY <1>3, <2>1 DEF AnsweredWasApproved
  <1>7. HeldWasApproved'
    BY <1>2, <1>3 DEF HeldWasApproved, IsApprovedHalf
  <1> QED
    BY <1>1, <1>4, <1>5, <1>6, <1>7

\* The device, however it is stopped, signs nothing by itself.
LEMMA DeviceKeepsInv ==
  ASSUME CallsInv, Device
  PROVE  CallsInv'
  <1> USE DEF CallsInv
  <1>1. AppInv'
    BY StepOfApp, NextInvariant DEF ClientNext
  <1>2. UNCHANGED <<at, message, digest, half, exchange, begun, approvals>>
    BY DEF Device, client
  <1>3. \/ UNCHANGED <<review, reply, signature_set, signed>>
        \/ /\ review' = "none" /\ signature_set' = FALSE
           /\ reply' = Status("none")
    <2>1. CASE Start \/ Initialize \/ ToggleLock
      BY <2>1 DEF Start, Initialize, ToggleLock, signature
    <2>2. CASE Stop \/ CutShort
      BY <2>2 DEF Stop, CutShort, Restart, ForgetSignature
    <2> QED
      BY <2>1, <2>2 DEF Device
  <1>4. ClientTypeOK' /\ CallsAreMade' /\ HeldWasApproved'
    BY <1>2, <1>3 DEF ClientTypeOK, CallsAreMade, HeldWasApproved, IsApprovedHalf
  <1>5. SignedWasApproved'
    BY <1>2, <1>3 DEF SignedWasApproved
  <1>6. AnsweredWasApproved'
    <2>1. CASE UNCHANGED <<review, reply, signature_set, signed>>
      BY <1>2, <2>1 DEF AnsweredWasApproved, IsApprovedHalf, HalfAnswered
    <2>2. CASE review' = "none" /\ reply' = Status("none")
      <3>1. reply'.sw # "OK"
        BY <2>2 DEF Status, Answer
      <3> QED
        BY <2>2, <3>1 DEF AnsweredWasApproved
    <2> QED
      BY <1>3, <2>1, <2>2
  <1> QED
    BY <1>1, <1>4, <1>5, <1>6

LEMMA CallsInvInductive == CallsInv /\ [ClientNext]_allVars => CallsInv'
  <1> SUFFICES ASSUME CallsInv, [ClientNext]_allVars PROVE CallsInv'
    OBVIOUS
  <1>1. ASSUME NEW c \in Calls, ClientStep(c) PROVE CallsInv'
    BY <1>1, DeliverKeepsInv, FailureKeepsInv, ReceiveKeepsInv DEF ClientStep
  <1>2. ASSUME NEW c \in Calls, NEW m \in Messages, Call(c, m) PROVE CallsInv'
    BY <1>2, CallKeepsInv
  <1>3. CASE UNCHANGED allVars
    <2>1. AppInv'
      BY StepOfApp, NextInvariant DEF CallsInv
    <2>2. /\ UNCHANGED <<at, message, digest, half, exchange, begun, approvals>>
          /\ UNCHANGED <<review, reply, signature_set, signed>>
      BY <1>3 DEF allVars, client, vars, signature
    <2>3. ClientTypeOK' /\ CallsAreMade' /\ SignedWasApproved'
      BY <2>2 DEF CallsInv, ClientTypeOK, CallsAreMade, SignedWasApproved
    <2>4. AnsweredWasApproved' /\ HeldWasApproved'
      BY <2>2 DEF CallsInv, AnsweredWasApproved, HeldWasApproved, IsApprovedHalf, HalfAnswered
    <2> QED
      BY <2>1, <2>3, <2>4 DEF CallsInv
  <1> QED
    BY <1>1, <1>2, <1>3, ChooseKeepsInv, DeviceKeepsInv DEF ClientNext

\* The invariant of the calls, one or many.
THEOREM CallsInvariance == ClientSpec => []CallsInv
  BY CallsInitInv, CallsInvInductive, PTL DEF ClientSpec

\* Everything proved of the app holds of it when it serves these calls: what
\* the package sends, in whatever order, is within what the app is specified for.
THEOREM CallsUseTheApp == ClientSpec => Spec
  <1>1. ClientInit => Init
    BY DEF ClientInit
  <1> QED
    BY <1>1, StepOfApp, CallsInvariance, PTL DEF ClientSpec, Spec

\* Every variable of the calls holds a value of its kind.
THEOREM ClientTypeCorrect == ClientSpec => []ClientTypeOK
  <1>1. CallsInv => ClientTypeOK
    BY DEF CallsInv
  <1> QED
    BY <1>1, CallsInvariance, PTL

\* What a call resolves with are halves that the user approved, with the keys of
\* their owners, however many calls are mixed and whatever is lost.
THEOREM CallsResolveWithApproved == ClientSpec => []HalvesWereApproved
  <1>1. CallsInv => HalvesWereApproved
    <2> SUFFICES ASSUME CallsInv, NEW c \in Calls, at[c] = "resolved", NEW n \in 0..1
                 PROVE  IsApprovedHalf(half[c][n])
      BY DEF HalvesWereApproved, IsApprovedHalf
    <2>1. IsApprovedHalf(half[c][0]) /\ IsApprovedHalf(half[c][1])
      BY DEF CallsInv, HeldWasApproved
    <2> QED
      BY <2>1
  <1> QED
    BY <1>1, CallsInvariance, PTL

\* The package and the app together keep the promise of the signer.
THEOREM CallsImplementSigner == ClientSpec => SignerSpec
  BY CallsUseTheApp, ImplementsSigner

-----------------------------------------------------------------------------
(* One call at a time, as an ArweaveApp whose caller awaits each call.     *)

OneCall == \A c, d \in Calls : c = d

\* No review is open when the last chunk is sent nor when the halves are asked
\* for, so that the approval LAST is answered with is that of this call.
NoOtherReview ==
    \A c \in Calls :
        /\ at[c] \in {"init", "add"} /\ c \in exchange => review = "none"
        /\ at[c] = "last" /\ (c \notin exchange \/ reply.sw = "OK") => review = "none"
        /\ at[c] \in {"part0", "part1"} => review = "none"

\* From the answer to LAST on, what is signed, if anything is, is the
\* transaction of that answer, and so are the halves.
OneSignature ==
    \A c \in Calls :
        /\ at[c] = "last" /\ c \in exchange /\ reply.sw = "OK" /\ signature_set => signed = reply.tx
        /\ at[c] \in {"part0", "part1"} /\ signature_set => signed = digest[c]
        /\ at[c] \in {"part0", "part1"} /\ c \in exchange /\ reply.sw = "OK" => reply.tx = digest[c]
        /\ at[c] \in {"part1", "resolved"} => half[c][0].tx = digest[c]
        /\ at[c] = "resolved" => half[c][1].tx = digest[c]

\* Once INIT was answered with success the buffer holds what this call has sent
\* since, unless the app was stopped, which refuses the rest of it.
OwnMessage ==
    \A c \in Calls :
        /\ at[c] = "init" => c \notin begun
        /\ at[c] = "init" /\ c \in exchange /\ reply.sw = "OK" => buffer = <<>>
        /\ c \in begun =>
            /\ at[c] = "add" /\ c \notin exchange => buffer = <<>>
            /\ at[c] = "add" /\ c \in exchange /\ reply.sw = "OK" => buffer = <<message[c][1]>>
            /\ at[c] = "last" /\ c \notin exchange /\ tx_initialized => buffer = <<message[c][1]>>
            /\ at[c] = "last" /\ c \in exchange =>
                  /\ review = "transaction" => ctx_parsed_tx = message[c]
                  /\ reply.sw = "OK" => reply.tx = message[c]
            /\ at[c] \in {"part0", "part1", "resolved"} => digest[c] = message[c]

AloneInv == CallsInv /\ NoOtherReview /\ OneSignature /\ OwnMessage

\* INIT empties the buffer, ADD appends to it and LAST, which does not answer
\* with success at once, shows what it then holds.
LEMMA SignAnswers ==
  ASSUME NEW p1 \in {P1_INIT, P1_ADD, P1_LAST}, NEW data,
         HandleApdu(Command("ok", "SIGN", p1, 0, data))
  PROVE  /\ p1 = P1_INIT /\ reply'.sw = "OK" => buffer' = <<>>
         /\ p1 = P1_ADD /\ reply'.sw = "OK" => buffer' = buffer \o data
         /\ p1 = P1_LAST => reply'.sw # "OK"
         /\ p1 = P1_LAST /\ review' = "transaction" =>
                tx_initialized /\ ctx_parsed_tx' = Parse(buffer \o data)
  <1> DEFINE c == Command("ok", "SIGN", p1, 0, data)
  <1>1. c.frame = "ok" /\ c.ins = "SIGN" /\ c.p1 = p1 /\ c.p2 = 0 /\ c.data = data
    BY DEF Command
  <1> HIDE DEF c
  <1>2. review = "none"
    BY DEF HandleApdu, TakesCommands
  <1>3. \/ Refuse(c) \/ SignBadParameter(c) \/ SignInit(c) \/ SignAdd(c) \/ SignOverflow(c)
        \/ SignLastUnexpected(c) \/ SignLast(c)
    BY <1>1 DEF HandleApdu, TakesCommands, GetVersion, GetSigPart, GetSigRefused, GetPubKeyPart, GetAddress, c
  <1>4. P1_INIT # P1_ADD /\ P1_INIT # P1_LAST /\ P1_ADD # P1_LAST
    BY DEF P1_INIT, P1_ADD, P1_LAST
  <1>5. \A sw : Status(sw).sw = sw
    BY DEF Status, Answer
  <1>6. CASE Refuse(c)
    <2>1. Refusal(c) # "OK"
      BY <1>1 DEF Refusal
    <2> QED
      BY <1>2, <1>5, <1>6, <2>1 DEF Refuse, Say
  <1>7. CASE SignLastUnexpected(c) \/ SignBadParameter(c) \/ SignOverflow(c)
    BY <1>2, <1>5, <1>7 DEF SignLastUnexpected, SignBadParameter, SignOverflow, Say
  <1>8. CASE SignInit(c) \/ SignAdd(c)
    BY <1>1, <1>4, <1>8 DEF SignInit, SignAdd, ResetBuffer
  <1>9. CASE SignLast(c)
    BY <1>1, <1>2, <1>4, <1>5, <1>9 DEF SignLast
  <1> QED
    BY <1>3, <1>6, <1>7, <1>8, <1>9

\* The two chunks of a transaction, joined, are read as it.
LEMMA ChunksParse ==
  ASSUME NEW m \in Tx
  PROVE  /\ <<>> \o <<m[1]>> = <<m[1]>>
         /\ Parse(<<m[1]>> \o <<m[2]>>) = m
  <1>1. m[1] \in Heads /\ m[2] \in Tails /\ m = <<m[1], m[2]>>
    BY DEF Tx
  <1> DEFINE head == <<m[1]>>
             tail == <<m[2]>>
  <1>2. head \in Seq(Chunks) /\ tail \in Seq(Chunks)
    BY <1>1 DEF Chunks
  <1>3. Len(head) = 1 /\ Len(tail) = 1 /\ head[1] = m[1] /\ tail[1] = m[2]
    OBVIOUS
  <1> HIDE DEF head, tail
  <1>4. Len(head \o tail) = 2 /\ (head \o tail)[1] = m[1] /\ (head \o tail)[2] = m[2]
    BY <1>2, <1>3
  <1>5. <<>> \o head = head
    BY <1>2
  <1> QED
    BY <1>1, <1>4, <1>5 DEF Parse, head, tail

LEMMA AloneInitInv == ClientInit => AloneInv
  <1> SUFFICES ASSUME ClientInit PROVE AloneInv
    OBVIOUS
  <1>1. exchange = {} /\ begun = {} /\ \A c \in Calls : at[c] = "idle"
    BY DEF ClientInit
  <1> QED
    BY <1>1, CallsInitInv DEF AloneInv, NoOtherReview, OneSignature, OwnMessage

\* A call begins anew.
LEMMA CallKeepsAlone ==
  ASSUME OneCall, AloneInv, NEW c \in Calls, NEW m \in Messages, Call(c, m)
  PROVE  AloneInv'
  <1>1. CallsInv'
    BY CallKeepsInv DEF AloneInv
  <1>2. \A d \in Calls : d = c
    BY DEF OneCall
  <1>3. at'[c] = "init" /\ c \notin begun'
    BY DEF Call, AloneInv, CallsInv, ClientTypeOK
  <1>4. c \notin exchange'
    BY DEF Call, AloneInv, CallsInv, CallsAreMade
  <1> QED
    BY <1>1, <1>2, <1>3, <1>4 DEF AloneInv, NoOtherReview, OneSignature, OwnMessage

\* Each command finds the app where the one before it left it, or stopped since.
LEMMA DeliverKeepsAlone ==
  ASSUME OneCall, AloneInv, NEW c \in Calls, Deliver(c)
  PROVE  AloneInv'
  <1>1. CallsInv' /\ CallsInv
    BY DeliverKeepsInv DEF AloneInv
  <1>2. \A d \in Calls : d = c
    BY DEF OneCall
  <1>3. /\ exchange = {} /\ exchange' = {c} /\ HandleApdu(CommandAt(c)) /\ Sending(c)
        /\ UNCHANGED <<at, message, digest, half, begun, approvals>>
    BY DEF Deliver
  <1>4. message[c] \in Tx
    BY <1>1, <1>3, MessagesAssumption DEF CallsInv, CallsAreMade, Sending
  <1> USE DEF NoOtherReview, OneSignature, OwnMessage
  <1>5. CASE at[c] = "init"
    <2>1. HandleApdu(Command("ok", "SIGN", P1_INIT, 0, <<>>))
      BY <1>3, <1>5 DEF CommandAt
    <2>2. reply'.sw = "OK" => buffer' = <<>>
      BY <2>1, SignAnswers
    <2>3. review' = "none"
      BY <2>1, SignKeepsSignature DEF P1_INIT, P1_LAST
    <2> QED
      BY <1>1, <1>2, <1>3, <1>5, <2>2, <2>3 DEF AloneInv
  <1>6. CASE at[c] = "add"
    <2>1. HandleApdu(Command("ok", "SIGN", P1_ADD, 0, <<message[c][1]>>))
      BY <1>3, <1>6 DEF CommandAt
    <2>2. review' = "none"
      BY <2>1, SignKeepsSignature DEF P1_ADD, P1_LAST
    <2>3. reply'.sw = "OK" => buffer' = buffer \o <<message[c][1]>>
      BY <2>1, SignAnswers
    <2>4. c \in begun => buffer = <<>>
      BY <1>3, <1>6 DEF AloneInv
    <2>5. c \in begun /\ reply'.sw = "OK" => buffer' = <<message[c][1]>>
      BY <1>4, <2>3, <2>4, ChunksParse
    <2> QED
      BY <1>1, <1>2, <1>3, <1>6, <2>2, <2>5 DEF AloneInv
  <1>7. CASE at[c] = "last"
    <2>1. HandleApdu(Command("ok", "SIGN", P1_LAST, 0, <<message[c][2]>>))
      BY <1>3, <1>7 DEF CommandAt
    <2>2. reply'.sw # "OK"
      BY <2>1, SignAnswers
    <2>3. review' = "transaction" =>
              tx_initialized /\ ctx_parsed_tx' = Parse(buffer \o <<message[c][2]>>)
      BY <2>1, SignAnswers
    <2>4. c \in begun /\ tx_initialized => buffer = <<message[c][1]>>
      BY <1>3, <1>7 DEF AloneInv
    <2>5. c \in begun /\ review' = "transaction" => ctx_parsed_tx' = message[c]
      BY <1>4, <2>3, <2>4, ChunksParse
    <2> QED
      BY <1>1, <1>2, <1>3, <1>7, <2>2, <2>5 DEF AloneInv
  <1>8. CASE at[c] \in {"part0", "part1"}
    <2> DEFINE part == PartOf[at[c]]
    <2>1. part \in 0..1 /\ HandleApdu(Command("ok", "GET_SIG", 0, part, <<>>))
      BY <1>3, <1>8 DEF CommandAt, PartOf
    <2> HIDE DEF part
    <2>2. /\ review' = "none" /\ signed' = signed
          /\ signature_set' => signature_set
          /\ reply'.sw = "OK" => signature_set /\ reply'.tx = signed
      BY <1>1, <2>1, GetSigAnswers DEF CallsInv
    <2>3. signature_set => signed = digest[c]
      BY <1>8 DEF AloneInv
    <2>4. NoOtherReview'
      BY <1>2, <1>3, <1>8, <2>2
    <2>5. OneSignature'
      BY <1>2, <1>3, <1>8, <2>2, <2>3 DEF AloneInv
    <2>6. OwnMessage'
      BY <1>2, <1>3, <1>8 DEF AloneInv
    <2> QED
      BY <1>1, <2>4, <2>5, <2>6 DEF AloneInv
  <1> QED
    BY <1>3, <1>5, <1>6, <1>7, <1>8 DEF Sending

\* What a failure leaves: a failed call, or one at its ADD that has not begun.
LEMMA FailureKeepsAlone ==
  ASSUME OneCall, AloneInv, NEW c \in Calls, SendFails(c) \/ AnswerLost(c)
  PROVE  AloneInv'
  <1>1. CallsInv' /\ CallsInv
    BY FailureKeepsInv DEF AloneInv
  <1>2. \A d \in Calls : d = c
    BY DEF OneCall
  <1>3. /\ at' = [at EXCEPT ![c] = NextPlace(at[c], FALSE)]
        /\ at[c] \in {"init", "add", "last", "part0", "part1"}
        /\ begun' = begun /\ c \notin exchange'
    BY <1>1 DEF SendFails, AnswerLost, Sending, CallsInv, CallsAreMade
  <1>4. at'[c] = NextPlace(at[c], FALSE)
    BY <1>1, <1>3 DEF CallsInv, ClientTypeOK
  <1>5. CASE at[c] = "init"
    <2>1. at'[c] = "add" /\ c \notin begun'
      BY <1>3, <1>4, <1>5 DEF NextPlace, After, AloneInv, OwnMessage
    <2> QED
      BY <1>1, <1>2, <1>3, <2>1 DEF AloneInv, NoOtherReview, OneSignature, OwnMessage
  <1>6. CASE at[c] # "init"
    <2>1. at'[c] = "failed"
      BY <1>4, <1>6 DEF NextPlace
    <2> QED
      BY <1>1, <1>2, <2>1 DEF AloneInv, NoOtherReview, OneSignature, OwnMessage
  <1> QED
    BY <1>5, <1>6

\* An answer is about what this call sent, or ends it.
LEMMA ReceiveKeepsAlone ==
  ASSUME OneCall, AloneInv, NEW c \in Calls, Receive(c)
  PROVE  AloneInv'
  <1> DEFINE ok == reply.sw = "OK"
  <1>1. CallsInv' /\ CallsInv
    BY ReceiveKeepsInv DEF AloneInv
  <1>2. \A d \in Calls : d = c
    BY DEF OneCall
  <1>3. /\ c \in exchange /\ exchange' = {}
        /\ at' = [at EXCEPT ![c] = NextPlace(at[c], ok)]
        /\ at[c] \in {"init", "add", "last", "part0", "part1"}
        /\ UNCHANGED <<message, vars>>
    BY <1>1 DEF Receive, CallsInv, CallsAreMade
  <1>4. at'[c] = NextPlace(at[c], ok)
    BY <1>1, <1>3 DEF CallsInv, ClientTypeOK
  <1>5. UNCHANGED <<review, signature_set, signed, buffer, tx_initialized, ctx_parsed_tx>>
    BY <1>3 DEF vars, signature, txBuffer
  <1> USE DEF NoOtherReview, OneSignature, OwnMessage
  <1>6. CASE at[c] = "init"
    <2>1. at'[c] = "add"
      BY <1>4, <1>6 DEF NextPlace, After
    <2>2. c \in begun' => buffer = <<>>
      BY <1>3, <1>6 DEF Receive, AloneInv
    <2> QED
      BY <1>1, <1>2, <1>3, <1>5, <2>1, <2>2 DEF AloneInv
  <1>7. CASE ~ok /\ at[c] # "init"
    <2>1. at'[c] = "failed"
      BY <1>4, <1>7 DEF NextPlace
    <2> QED
      BY <1>1, <1>2, <2>1 DEF AloneInv
  <1>8. CASE ok /\ at[c] = "add"
    <2>1. at'[c] = "last" /\ begun' = begun /\ c \notin exchange'
      BY <1>3, <1>4, <1>8 DEF NextPlace, After, Receive
    <2>2. review = "none" /\ (c \in begun => buffer = <<message[c][1]>>)
      BY <1>3, <1>8 DEF AloneInv
    <2> QED
      BY <1>1, <1>2, <1>3, <1>5, <2>1, <2>2 DEF AloneInv
  <1>9. CASE ok /\ at[c] = "last"
    <2>1. at'[c] = "part0" /\ begun' = begun /\ c \notin exchange' /\ digest'[c] = reply.tx
      BY <1>1, <1>3, <1>4, <1>9 DEF NextPlace, After, Receive, CallsInv, ClientTypeOK
    <2>2. /\ review = "none" /\ (signature_set => signed = reply.tx)
          /\ c \in begun => reply.tx = message[c]
      BY <1>3, <1>9 DEF AloneInv
    <2> QED
      BY <1>1, <1>2, <1>3, <1>5, <2>1, <2>2 DEF AloneInv
  <1>10. CASE ok /\ at[c] \in {"part0", "part1"}
    <2>1. /\ begun' = begun /\ digest' = digest /\ c \notin exchange'
          /\ at'[c] = IF at[c] = "part0" THEN "part1" ELSE "resolved"
      BY <1>3, <1>4, <1>10 DEF NextPlace, After, Receive
    <2>2. reply.part = PartOf[at[c]] /\ reply.tx = digest[c]
      BY <1>1, <1>3, <1>10 DEF AloneInv, CallsInv, AnsweredWasApproved
    <2>3. half' = [half EXCEPT ![c][reply.part] = HalfAnswered]
      BY <1>10 DEF Receive, HalfAnswered
    <2>4. half \in [Calls -> [0..1 -> Signatures]] /\ reply.part \in 0..1
      BY <1>1 DEF CallsInv, ClientTypeOK, AppInv, TypeOK
    <2>5. \A n \in 0..1 : half'[c][n] = IF n = reply.part THEN HalfAnswered ELSE half[c][n]
      BY <2>3, <2>4
    <2>6. HalfAnswered.tx = digest[c]
      BY <2>2 DEF HalfAnswered
    <2>7. CASE at[c] = "part0"
      <3>1. half'[c][0].tx = digest'[c]
        BY <2>1, <2>2, <2>5, <2>6, <2>7 DEF PartOf
      <3>2. /\ at'[c] = "part1" /\ review = "none" /\ (signature_set => signed = digest[c])
            /\ c \in begun => digest[c] = message[c]
        BY <2>1, <2>7 DEF AloneInv
      <3> QED
        BY <1>1, <1>2, <1>3, <1>5, <2>1, <3>1, <3>2 DEF AloneInv
    <2>8. CASE at[c] = "part1"
      <3>1. half'[c][0].tx = digest'[c] /\ half'[c][1].tx = digest'[c]
        BY <2>1, <2>2, <2>5, <2>6, <2>8 DEF PartOf, AloneInv
      <3>2. at'[c] = "resolved" /\ (c \in begun => digest[c] = message[c])
        BY <2>1, <2>8 DEF AloneInv
      <3> QED
        BY <1>1, <1>2, <1>3, <1>5, <2>1, <3>1, <3>2 DEF AloneInv
    <2> QED
      BY <1>10, <2>7, <2>8
  <1> QED
    BY <1>3, <1>6, <1>7, <1>8, <1>9, <1>10

\* The user's choice is about the review of this call, or this call has not got
\* past its ADD.
LEMMA ChooseKeepsAlone ==
  ASSUME OneCall, AloneInv, Choose
  PROVE  AloneInv'
  <1>1. CallsInv' /\ CallsInv
    BY ChooseKeepsInv DEF AloneInv
  <1>2. UNCHANGED <<at, message, digest, half, exchange, begun, buffer, tx_initialized, ctx_parsed_tx>>
    BY DEF Choose, ApproveTransaction, ApproveFails, ApproveAddress, Reject, client, txBuffer
  <1>3. /\ review # "none" /\ review' = "none"
        /\ reply'.sw = "OK" => /\ review = "transaction" /\ reply'.tx = ctx_parsed_tx
                               /\ signed' = ctx_parsed_tx
    <2>1. review # "address"
      BY <1>1 DEF CallsInv, CallsAreMade
    <2> QED
      BY <2>1 DEF Choose, ApproveTransaction, ApproveFails, ApproveAddress, Reject, Status, Answer
  <1>4. \A c \in Calls : /\ at[c] \notin {"part0", "part1"}
                         /\ ~(at[c] = "last" /\ (c \notin exchange \/ reply.sw = "OK"))
                         /\ ~(at[c] = "add" /\ c \in exchange)
    BY <1>3 DEF AloneInv, NoOtherReview
  <1>5. \A c \in Calls : ~(at[c] = "init" /\ c \in exchange)
    BY <1>3 DEF AloneInv, NoOtherReview
  <1>6. NoOtherReview'
    BY <1>2, <1>3, <1>4 DEF NoOtherReview
  <1>7. OneSignature'
    BY <1>2, <1>3, <1>4 DEF AloneInv, OneSignature
  <1>8. OwnMessage'
    BY <1>2, <1>3, <1>4, <1>5 DEF AloneInv, OwnMessage
  <1> QED
    BY <1>1, <1>6, <1>7, <1>8 DEF AloneInv

\* An app that was stopped has nothing in its buffer, nothing signed and
\* nothing under review.
LEMMA DeviceKeepsAlone ==
  ASSUME AloneInv, Device
  PROVE  AloneInv'
  <1>1. CallsInv'
    BY DeviceKeepsInv DEF AloneInv
  <1>2. UNCHANGED <<at, message, digest, half, exchange, begun>>
    BY DEF Device, client
  <1>3. CASE Start \/ Initialize \/ ToggleLock
    <2>1. UNCHANGED <<review, reply, signature_set, signed, buffer, tx_initialized, ctx_parsed_tx>>
      BY <1>3 DEF Start, Initialize, ToggleLock, signature, txBuffer
    <2>2. NoOtherReview' /\ OneSignature' /\ OwnMessage'
      BY <1>2, <2>1 DEF AloneInv, NoOtherReview, OneSignature, OwnMessage
    <2> QED
      BY <1>1, <2>2 DEF AloneInv
  <1>4. CASE Stop \/ CutShort
    <2>1. /\ review' = "none" /\ reply' = Status("none") /\ signature_set' = FALSE
          /\ buffer' = <<>> /\ tx_initialized' = FALSE
      BY <1>4 DEF Stop, CutShort, Restart, ForgetSignature
    <2>2. reply'.sw # "OK"
      BY <2>1 DEF Status, Answer
    <2>3. NoOtherReview' /\ OneSignature' /\ OwnMessage'
      BY <1>2, <2>1, <2>2 DEF AloneInv, NoOtherReview, OneSignature, OwnMessage
    <2> QED
      BY <1>1, <2>3 DEF AloneInv
  <1> QED
    BY <1>3, <1>4 DEF Device

LEMMA AloneInvInductive ==
  ASSUME OneCall
  PROVE  AloneInv /\ [ClientNext]_allVars => AloneInv'
  <1> SUFFICES ASSUME AloneInv, [ClientNext]_allVars PROVE AloneInv'
    OBVIOUS
  <1>1. ASSUME NEW c \in Calls, ClientStep(c) PROVE AloneInv'
    BY <1>1, DeliverKeepsAlone, FailureKeepsAlone, ReceiveKeepsAlone DEF ClientStep
  <1>2. ASSUME NEW c \in Calls, NEW m \in Messages, Call(c, m) PROVE AloneInv'
    BY <1>2, CallKeepsAlone
  <1>3. CASE UNCHANGED allVars
    <2>1. CallsInv'
      BY CallsInvInductive DEF AloneInv
    <2>2. /\ UNCHANGED <<at, message, digest, half, exchange, begun>>
          /\ UNCHANGED <<review, reply, signature_set, signed, buffer, tx_initialized, ctx_parsed_tx>>
      BY <1>3 DEF allVars, client, vars, signature, txBuffer
    <2>3. NoOtherReview' /\ OneSignature' /\ OwnMessage'
      BY <2>2 DEF AloneInv, NoOtherReview, OneSignature, OwnMessage
    <2> QED
      BY <2>1, <2>3 DEF AloneInv
  <1> QED
    BY <1>1, <1>2, <1>3, ChooseKeepsAlone, DeviceKeepsAlone DEF ClientNext

\* The invariant of a call that no other one interrupts.
THEOREM AloneInvariance ==
  ASSUME OneCall
  PROVE  ClientSpec => []AloneInv
  BY AloneInitInv, AloneInvInductive, PTL DEF ClientSpec

\* A call that no other one interrupts resolves with two halves of one signature,
\* of the transaction whose digest it returns.
THEOREM ResolvesWithOne ==
  ASSUME OneCall
  PROVE  ClientSpec => []ResolvesWithOneSignature
  <1>1. AloneInv => ResolvesWithOneSignature
    <2> SUFFICES ASSUME AloneInv, NEW c \in Calls, at[c] = "resolved"
                 PROVE  half[c][0] = half[c][1] /\ half[c][0].tx = digest[c]
      BY DEF ResolvesWithOneSignature
    <2>1. half[c][0].tx = digest[c] /\ half[c][1].tx = digest[c]
      BY DEF AloneInv, OneSignature
    <2>2. half[c][0].key = Owner[digest[c][1]] /\ half[c][1].key = Owner[digest[c][1]]
      BY <2>1 DEF AloneInv, CallsInv, HeldWasApproved, IsApprovedHalf
    <2>3. half[c][0] \in Signatures /\ half[c][1] \in Signatures
      BY DEF AloneInv, CallsInv, ClientTypeOK
    <2> QED
      BY <2>1, <2>2, <2>3 DEF Signatures
  <1> QED
    BY <1>1, AloneInvariance, PTL

\* And if the INIT of that call was answered with success, it is the transaction
\* the call was given, whatever was lost, locked or restarted afterwards.
THEOREM ResolvesWithItsOwn ==
  ASSUME OneCall
  PROVE  ClientSpec => []ResolvesAfterInit
  <1>1. AloneInv => ResolvesAfterInit
    BY DEF AloneInv, OwnMessage, ResolvesAfterInit
  <1> QED
    BY <1>1, AloneInvariance, PTL
=============================================================================
