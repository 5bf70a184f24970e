----------------------------- MODULE SignClient ------------------------------
(***************************************************************************)
(* ArweaveApp.sign of the JavaScript package (js/src/index.js) talking to  *)
(* the app (SignApp) over a transport.                                     *)
(*                                                                         *)
(* A call sends five commands, each awaited before the next: the first     *)
(* chunk (INIT, 20 zero bytes the app does not read), the head (ADD) and   *)
(* the tail (LAST) of the message, GET_SIG 0 and GET_SIG 1.  A rejected    *)
(* send and a status word other than 0x9000 both reach the call as an      *)
(* answer that is not OK (processErrorResponse), so that the transport has *)
(* three outcomes: the answer, a command lost on its way, an answer lost   *)
(* on its way.  The transport carries one exchange at a time and rejects   *)
(* a send while another is under way (Transport.send of hw-transport).     *)
(* Several calls may be under way at once on one ArweaveApp.               *)
(***************************************************************************)
EXTENDS SignApp

CONSTANTS
    Calls,      \* calls of sign() that may be under way together
    Messages,   \* the transactions they are called with
    Lossy       \* may the transport lose a command or an answer?

ASSUME MessagesAssumption == Messages \subseteq Tx /\ Lossy \in BOOLEAN

VARIABLES
    at,         \* the command a call is about to send, or awaits the answer of
    message,    \* the argument of the call
    digest,     \* the digest of the answer to LAST, NoTx before it
    half,       \* the two halves of the signature received
    exchange,   \* the call whose command is being answered, a set of at most one
    begun,      \* history: the calls whose INIT was answered with success
    approvals   \* history: the transactions approved on the device

client == <<at, message, digest, half, exchange, begun>>
allVars == <<vars, client, approvals>>

Places == {"idle", "init", "add", "last", "part0", "part1", "resolved", "failed"}

ClientTypeOK ==
    /\ at \in [Calls -> Places]
    /\ message \in [Calls -> Messages \cup {NoTx}]
    /\ digest \in [Calls -> Tx \cup {NoTx}]
    /\ half \in [Calls -> [0..1 -> Signatures]]
    /\ exchange \subseteq Calls
    /\ begun \subseteq Calls
    /\ approvals \subseteq Tx

ClientInit ==
    /\ Init
    /\ at = [c \in Calls |-> "idle"]
    /\ message = [c \in Calls |-> NoTx]
    /\ digest = [c \in Calls |-> NoTx]
    /\ half = [c \in Calls |-> [i \in 0..1 |-> NoSignature]]
    /\ exchange = {}
    /\ begun = {}
    /\ approvals = {}

-----------------------------------------------------------------------------
\* signSendChunk and getSignaturePart: the command of each place.
CommandAt(c) ==
    LET m == message[c] IN
    CASE at[c] = "init" -> Command("ok", "SIGN", P1_INIT, 0, <<>>)
      [] at[c] = "add" -> Command("ok", "SIGN", P1_ADD, 0, <<m[1]>>)
      [] at[c] = "last" -> Command("ok", "SIGN", P1_LAST, 0, <<m[2]>>)
      [] at[c] = "part0" -> Command("ok", "GET_SIG", 0, 0, <<>>)
      [] at[c] = "part1" -> Command("ok", "GET_SIG", 0, 1, <<>>)

Sending(c) == at[c] \in {"init", "add", "last", "part0", "part1"} /\ c \notin exchange

\* The command after each one, and after the last the end.
After ==
    [init |-> "add", add |-> "last", last |-> "part0", part0 |-> "part1", part1 |-> "resolved"]

\* Variants of NextPlace: sign does not look at the answer to LAST either; it
\* asks for a third part; it sends a chunk again until it is taken.
NextPlaceUnchecked(place, ok) ==
    IF ok \/ place \in {"init", "last"} THEN After[place] ELSE "failed"
NextPlaceThirdPart(place, ok) ==
    IF place = "part1" /\ ok THEN "part2"
    ELSE IF ok \/ place = "init" THEN After[place] ELSE "failed"
NextPlaceRetry(place, ok) ==
    IF place = "add" /\ ~ok THEN "add"
    ELSE IF ok \/ place = "init" THEN After[place] ELSE "failed"

\* Where a call goes after an answer.  signGetDigest looks at the answer to
\* every chunk but the first.
NextPlace(place, ok) == IF ok \/ place = "init" THEN After[place] ELSE "failed"

-----------------------------------------------------------------------------
\* sign(m) is called; an earlier call may have ended.
Call(c, m) ==
    /\ at[c] \in {"idle", "resolved", "failed"}
    /\ at' = [at EXCEPT ![c] = "init"]
    /\ message' = [message EXCEPT ![c] = m]
    /\ digest' = [digest EXCEPT ![c] = NoTx]
    /\ half' = [half EXCEPT ![c] = [i \in 0..1 |-> NoSignature]]
    /\ begun' = begun \ {c}
    /\ UNCHANGED <<exchange, vars, approvals>>

\* The command reaches the app, which runs its handler.
Deliver(c) ==
    /\ Sending(c) /\ exchange = {}
    /\ HandleApdu(CommandAt(c))
    /\ exchange' = {c}
    /\ UNCHANGED <<at, message, digest, half, begun, approvals>>

\* The send is rejected: lost, no app, or another exchange is under way.
SendFails(c) ==
    /\ Sending(c)
    /\ Lossy \/ ~running \/ exchange # {}
    /\ at' = [at EXCEPT ![c] = NextPlace(at[c], FALSE)]
    /\ UNCHANGED <<message, digest, half, exchange, begun, vars, approvals>>

\* The answer arrives.
Receive(c) ==
    /\ c \in exchange
    /\ reply.sw # "none"
    /\ exchange' = {}
    /\ at' = [at EXCEPT ![c] = NextPlace(at[c], reply.sw = "OK")]
    /\ digest' = IF at[c] = "last" /\ reply.sw = "OK"
                 THEN [digest EXCEPT ![c] = reply.tx] ELSE digest
    /\ half' = IF at[c] \in {"part0", "part1"} /\ reply.sw = "OK"
               THEN [half EXCEPT ![c][reply.part] = [tx |-> reply.tx, key |-> reply.key]]
               ELSE half
    /\ begun' = IF at[c] = "init" /\ reply.sw = "OK" THEN begun \cup {c} ELSE begun
    /\ UNCHANGED <<message, vars, approvals>>

\* The answer is lost, or the app stopped before it answered.
AnswerLost(c) ==
    /\ c \in exchange
    /\ Lossy \/ ~running
    /\ exchange' = {}
    /\ at' = [at EXCEPT ![c] = NextPlace(at[c], FALSE)]
    /\ UNCHANGED <<message, digest, half, begun, vars, approvals>>

ClientStep(c) == Deliver(c) \/ SendFails(c) \/ Receive(c) \/ AnswerLost(c)

\* The user enters the PIN of a locked device.
Unlock ==
    /\ ~pin /\ ToggleLock
    /\ UNCHANGED <<client, approvals>>

\* The user chooses; what is approved is remembered.
Choose ==
    /\ \/ ApproveTransaction /\ approvals' = approvals \cup {ctx_parsed_tx}
       \/ (ApproveFails \/ ApproveAddress \/ Reject) /\ UNCHANGED approvals
    /\ UNCHANGED client

Device ==
    /\ Start \/ Initialize \/ Stop \/ CutShort \/ ToggleLock
    /\ UNCHANGED <<client, approvals>>

ClientNext ==
    \/ \E c \in Calls : ClientStep(c) \/ \E m \in Messages : Call(c, m)
    \/ Choose
    \/ Device

ClientSpec == ClientInit /\ [][ClientNext]_allVars

\* What the runtime and the transport owe a call: a command is delivered or
\* refused, an answer arrives, and an app that no longer works on one is noticed.
\* That something is lost is never owed.
Progress(c) ==
    \/ Deliver(c) \/ Receive(c)
    \/ SendFails(c) /\ (~running \/ exchange # {})
    \/ AnswerLost(c) /\ reply.sw = "none" /\ review = "none"

\* A user who can choose again and again, the device being unlocked again and
\* again, chooses in the end.
FairClientSpec ==
    /\ ClientSpec
    /\ \A c \in Calls : WF_allVars(Progress(c))
    /\ WF_allVars(Unlock)
    /\ SF_allVars(Choose)

-----------------------------------------------------------------------------
(* Properties.                                                             *)

\* The two halves a call resolves with, its own or not, are each of a
\* transaction the user approved, signed with the key of its owner.
HalvesWereApproved ==
    \A c \in Calls : at[c] = "resolved" =>
        \A i \in 0..1 :
            /\ half[c][i].tx \in approvals
            /\ Owner[half[c][i].tx[1]] = half[c][i].key

\* A call that resolves has both halves of one signature, and it is the
\* signature of the transaction whose deep hash it returns.
ResolvesWithOneSignature ==
    \A c \in Calls : at[c] = "resolved" =>
        /\ half[c][0] = half[c][1]
        /\ half[c][0].tx = digest[c]

\* js/src/index.d.ts:57 has sign(message), and SIGN "shows the transaction
\* content on screen and signs (if accepted) the transaction"
\* (docs/APDUSPEC.md:77): a call resolves with the signature of its argument.
ResolvesWithItsMessage ==
    \A c \in Calls : at[c] = "resolved" => digest[c] = message[c]

\* It does so whenever the answer to INIT, which the code does not look at,
\* was a success, whatever is lost, locked or restarted afterwards.
ResolvesAfterInit ==
    \A c \in Calls : at[c] = "resolved" /\ c \in begun => digest[c] = message[c]

\* Every call ends, with a signature or with an error.
CallsEnd == \A c \in Calls : (at[c] = "init") ~> (at[c] \in {"resolved", "failed"})
=============================================================================
