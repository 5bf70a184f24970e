---------------------------- MODULE MCSignClient -----------------------------
(***************************************************************************)
(* SignClient for TLC: one mnemonic, two messages, which share a tail in   *)
(* the run with two calls.  Calls are interchangeable.                     *)
(***************************************************************************)
EXTENDS SignClient, TLC

CONSTANTS A, head1, head2, tail1, tail2

CallSymmetry == Permutations(Calls)

MCOwner == (head1 :> A) @@ (head2 :> A)
MCSharedTail == {<<head1, tail1>>, <<head2, tail1>>}
MCMessages == {<<head1, tail1>>, <<head2, tail2>>}
=============================================================================
