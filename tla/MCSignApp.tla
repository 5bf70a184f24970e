----------------------------- MODULE MCSignApp ------------------------------
(***************************************************************************)
(* SignApp for TLC: two mnemonics, a transaction head for each, one tail.  *)
(* The mnemonics, each with its head, are interchangeable.                 *)
(***************************************************************************)
EXTENDS SignApp, TLC

CONSTANTS A, B, headA, headB

MCOwner == (headA :> A) @@ (headB :> B)

\* The renamings that take keys to keys and the head of a key to its head.
OwnerSymmetry ==
    {p \in Permutations({A, B, headA, headB}) :
        /\ {p[A], p[B]} = {A, B}
        /\ \A head \in {headA, headB} : MCOwner[p[head]] = p[MCOwner[head]]}
=============================================================================
