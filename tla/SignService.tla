----------------------------- MODULE SignService ----------------------------
(***************************************************************************)
(* What the app promises to its user as a signer: a transaction becomes a  *)
(* signature only by being proposed and approved as it was proposed, the   *)
(* signature is its owner's, it is what is handed out and nothing else is, *)
(* and once its second half is out it cannot be had again.  It says        *)
(* nothing of chunks, buffers, flash or status words: SignApp is the       *)
(* detailed specification and implements this one.                         *)
(***************************************************************************)
EXTENDS Naturals

CONSTANTS
    Tx,         \* the transactions
    NoTx,       \* no transaction
    NoKey,      \* no key
    OwnerOf     \* the key each transaction names as its owner

VARIABLES
    proposed,   \* the transaction in front of the user, or NoTx
    offered,    \* the signature that may be fetched, or NoSignature
    handed      \* the half of a signature in the last answer, or NoHalf

signerVars == <<proposed, offered, handed>>

NoSignature == [tx |-> NoTx, key |-> NoKey]
HalfOf(sig, part) == [tx |-> sig.tx, key |-> sig.key, part |-> part]
NoHalf == HalfOf(NoSignature, 0)

Init == proposed = NoTx /\ offered = NoSignature /\ handed = NoHalf

Propose ==
    /\ proposed = NoTx
    /\ proposed' \in Tx
    /\ handed' = NoHalf
    /\ UNCHANGED offered

Approve ==
    /\ proposed # NoTx
    /\ offered' = [tx |-> proposed, key |-> OwnerOf[proposed]]
    /\ proposed' = NoTx
    /\ handed' = NoHalf

\* The user rejects it, or it cannot be signed.
Decline ==
    /\ proposed' = NoTx
    /\ handed' = NoHalf
    /\ UNCHANGED offered

\* A half is fetched; the second one takes the signature away.
HandOut(part) ==
    /\ proposed = NoTx /\ offered # NoSignature
    /\ handed' = HalfOf(offered, part)
    /\ offered' = IF part = 1 THEN NoSignature ELSE offered
    /\ UNCHANGED proposed

\* Any other command is answered, by no half of a signature.
AnswerOther ==
    /\ handed' = NoHalf
    /\ UNCHANGED <<proposed, offered>>

Stop ==
    /\ proposed' = NoTx
    /\ offered' = NoSignature
    /\ handed' = NoHalf

Next ==
    \/ Propose \/ Approve \/ Decline \/ AnswerOther \/ Stop
    \/ \E part \in 0..1 : HandOut(part)

Spec == Init /\ [][Next]_signerVars
=============================================================================
