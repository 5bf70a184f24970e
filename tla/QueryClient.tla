----------------------------- MODULE QueryClient -----------------------------
(***************************************************************************)
(* The calls of the JavaScript package (js/src/index.js, common.js) that   *)
(* sign nothing, talking to the app (AddressApp) over a transport:         *)
(* getAddress, which sends three commands and awaits each, showAddress,    *)
(* getVersion, and digest, which sends one command a chunk.                *)
(*                                                                         *)
(* A rejected send and a status word other than 0x9000 both end the call   *)
(* with an error (processErrorResponse), except that digest does not look  *)
(* at the answer to its first chunk.  The transport loses a command or an  *)
(* answer and carries one exchange at a time; between two commands of a    *)
(* call another program may use the device.                                *)
(***************************************************************************)
EXTENDS AddressApp, SequencesExt

CONSTANTS
    Kinds,          \* the calls that are made
    Message,        \* the argument of digest: its chunks, as prepareChunks has them
    DeepHash,       \* the digest of that message
    DIGEST_LEN,     \* the 48 of digestSendChunk
    Lossy           \* may the transport lose a command or an answer?

ASSUME KindsAssumption ==
    Kinds \subseteq {"getAddress", "showAddress", "getVersion", "digest"} /\ Lossy \in BOOLEAN
\* A chunk has no more bytes than CHUNK_SIZE, which is less than 255.
ASSUME MessageAssumption ==
    /\ Message \in Seq(Seq(Byte)) /\ Len(Message) > 1
    /\ \A k \in 1..Len(Message) : Len(Message[k]) <= 255
    /\ DeepHash \in Seq(Byte)

VARIABLES
    kind,       \* the call under way or the last one, "none" before the first
    step,       \* the command it is about to send, or awaits the answer of
    outcome,    \* "pending", "resolved" or "failed"
    answers,    \* the answers to its commands, as they were received
    exchange,   \* who awaits the answer of the app: "nobody", "call" or "other"
    confirmed,  \* history: the text the user approved in this call's review
    steady      \* history: the app has not been stopped since the call began

client == <<kind, step, outcome, answers, exchange>>
history == <<confirmed, steady>>
queryVars == <<addressVars, client, history>>

QueryInit ==
    /\ AddressInit
    /\ kind = "none" /\ step = 1 /\ outcome = "failed" /\ answers = <<>>
    /\ exchange = "nobody"
    /\ confirmed = <<>> /\ steady = TRUE

-----------------------------------------------------------------------------
\* INS.GET_DIGEST is not defined in common.js: hw-transport writes it as 0.
GET_DIGEST == 0

\* getAddressHash, getPubKeyPart, showAddress, getVersion and digestSendChunk.
CommandsOf ==
    [getAddress |-> <<Send(INS_GET_ADDR, 0, 0, <<>>),
                      Send(INS_GET_PK, 0, 0, <<>>), Send(INS_GET_PK, 0, 1, <<>>)>>,
     showAddress |-> <<Send(INS_GET_ADDR, 1, 0, <<>>)>>,
     getVersion |-> <<Send(INS_GET_VERSION, 0, 0, <<>>)>>,
     digest |-> [k \in 1..Len(Message) |->
                    Send(GET_DIGEST, IF k = Len(Message) THEN 2 ELSE IF k = 1 THEN 0 ELSE 1, 0,
                         Message[k])]]

\* A call under way has the answers to the commands before the one at hand, one
\* that resolved has them all, and nobody else awaits an answer for it.
QueryTypeOK ==
    /\ AddressTypeOK
    /\ kind \in Kinds \cup {"none"}
    /\ step \in Nat \ {0}
    /\ outcome \in {"pending", "resolved", "failed"}
    /\ answers \in Seq(Seq(Byte))
    /\ exchange \in {"nobody", "call", "other"}
    /\ confirmed \in Seq(Byte) /\ steady \in BOOLEAN
    /\ outcome = "pending" =>
          kind \in Kinds /\ step <= Len(CommandsOf[kind]) /\ Len(answers) = step - 1
    /\ outcome # "pending" => step = 1 /\ exchange # "call"
    /\ outcome = "resolved" => kind \in Kinds /\ Len(answers) = Len(CommandsOf[kind])

\* Variant of Onward for calls that start again when a command fails.
OnwardAgain(ok) ==
    IF ~ok THEN <<"pending", 1>>
    ELSE IF step < Len(CommandsOf[kind]) THEN <<"pending", step + 1>> ELSE <<"resolved", 1>>

\* Where a call goes after an answer, or the failure, to its command.
Onward(ok) ==
    IF ~ok /\ ~(kind = "digest" /\ step = 1) THEN <<"failed", 1>>
    ELSE IF step < Len(CommandsOf[kind]) THEN <<"pending", step + 1>> ELSE <<"resolved", 1>>

\* The call goes on with the answer, <<>> for none.
Answered(response, ok) ==
    /\ outcome' = Onward(ok)[1] /\ step' = Onward(ok)[2]
    /\ answers' = IF outcome' = "resolved" \/ step' > 1 THEN Append(answers, response) ELSE <<>>
    /\ exchange' = IF exchange = "call" THEN "nobody" ELSE exchange
    /\ UNCHANGED kind

\* What a call resolves with: processGetAddrResponse takes the answer but for
\* its status word, processGetRSAResponse and digestSendChunk its front.
FirstBytes(bytes, len) == SubSeq(bytes, 1, IF Len(bytes) < len THEN Len(bytes) ELSE len)
address == SubSeq(answers[1], 1, Len(answers[1]) - 2)
pubkey == FirstBytes(answers[2], RSA_MODULUS_HALVE) \o FirstBytes(answers[3], RSA_MODULUS_HALVE)
digest == FirstBytes(answers[Len(answers)], DIGEST_LEN)

-----------------------------------------------------------------------------
Call(k) ==
    /\ outcome # "pending"
    /\ kind' = k /\ step' = 1 /\ outcome' = "pending" /\ answers' = <<>>
    /\ confirmed' = <<>> /\ steady' = TRUE
    /\ UNCHANGED <<addressVars, exchange>>

Sending == outcome = "pending" /\ exchange # "call"

Deliver ==
    /\ Sending /\ exchange = "nobody"
    /\ HandleApdu(CommandsOf[kind][step])
    /\ exchange' = "call"
    /\ UNCHANGED <<kind, step, outcome, answers, history>>

\* The command is lost, there is no app, or the transport is busy.
SendFails ==
    /\ Sending
    /\ Lossy \/ ~running \/ exchange = "other"
    /\ Answered(<<>>, FALSE)
    /\ UNCHANGED <<addressVars, history>>

Response == [k \in 1..tx |-> apdu[k - 1]]

Receive ==
    /\ exchange = "call" /\ tx # 0
    /\ Answered(Response, SubSeq(Response, tx - 1, tx) = APDU_CODE_OK)
    /\ UNCHANGED <<addressVars, history>>

\* The answer is lost, or the app stopped before it answered.
AnswerLost ==
    /\ exchange = "call"
    /\ Lossy \/ (tx = 0 /\ stage = "none")
    /\ Answered(<<>>, FALSE)
    /\ UNCHANGED <<addressVars, history>>

\* Another program sends a command, and has its answer or gives up.
OtherProgram ==
    \/ /\ exchange = "nobody"
       /\ \E command \in Commands : HandleApdu(command)
       /\ exchange' = "other"
       /\ UNCHANGED <<kind, step, outcome, answers, history>>
    \/ /\ exchange = "other" /\ stage = "none"
       /\ exchange' = "nobody"
       /\ UNCHANGED <<addressVars, kind, step, outcome, answers, history>>

\* The user presses a button.
Decide ==
    /\ \/ /\ ApproveAddress
          /\ confirmed' = IF exchange = "call" THEN FlattenSeq(pages) ELSE confirmed
       \/ Reject /\ UNCHANGED confirmed
    /\ UNCHANGED <<client, steady>>

Choose == Decide \/ (ShowPage /\ UNCHANGED <<client, history>>)

App == AppStep /\ UNCHANGED <<client, history>>

Device ==
    /\ Environment
    /\ steady' = (steady /\ (running => running'))
    /\ UNCHANGED <<client, confirmed>>

ClientStep == Deliver \/ SendFails \/ Receive \/ AnswerLost

QueryNext ==
    \/ \E k \in Kinds : Call(k)
    \/ ClientStep \/ OtherProgram \/ Choose \/ App \/ Device

QuerySpec == QueryInit /\ [][QueryNext]_queryVars

\* What the runtime and the transport owe the call: a command is delivered or
\* refused, an answer arrives, and an app that no longer works on one is noticed.
\* That something is lost is never owed.
Progress ==
    \/ Deliver \/ Receive
    \/ SendFails /\ (~running \/ exchange = "other")
    \/ AnswerLost /\ tx = 0 /\ stage = "none"

Unlock == ~pin /\ ToggleLock /\ UNCHANGED <<client, history>>

\* The user may turn pages for as long as they like, but one who can press a
\* button again and again does so in the end.
FairQuerySpec ==
    /\ QuerySpec
    /\ WF_queryVars(Progress)
    /\ WF_queryVars(App)
    /\ WF_queryVars(Unlock)
    /\ SF_queryVars(Decide)

-----------------------------------------------------------------------------
(* Properties.                                                             *)

\* showAddress resolves with the very text that the user read page by page and
\* approved, with nothing of the padding, of earlier commands or of answers.
ShownIsAnswered ==
    kind = "showAddress" /\ outcome = "resolved" => address = confirmed /\ confirmed # <<>>

\* getAddress resolves with a public key of the device and the address of that
\* same key, though they come in three answers between which the device may be
\* locked and used by others; only a restart, after which the app may have
\* another mnemonic, can part them.
AddressIsOfPubkey ==
    kind = "getAddress" /\ outcome = "resolved" /\ steady =>
        \E key \in Keys \cup {NoKey} :
            pubkey = Modulus[key] /\ address = Base64(HashOfPub(key))

\* Every call ends, with a result or an error: the loop of the encoder ends, the
\* user is never left with a review that no button leaves, and a restart or a
\* program that uses the device in between does not leave the call waiting.
QueriesEnd == (outcome = "pending") ~> (outcome # "pending")

\* js/src/index.d.ts:56 has digest(message), which resolves with
\* "digest: Buffer" (js/src/index.d.ts:35), the digest of its argument.
DigestIsOfMessage ==
    kind = "digest" /\ outcome = "resolved" => digest = DeepHash
=============================================================================
