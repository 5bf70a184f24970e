------------------------------- MODULE Widths --------------------------------
(***************************************************************************)
(* Numbers of 16 bits, on both sides of the transport: the lengths that    *)
(* the JavaScript package writes and the app reads, and the app's indices. *)
(***************************************************************************)
EXTENDS Integers

CONSTANT ByteSize   \* how many values a byte of such a number has, 256

ASSUME ByteSizeAssumption == ByteSize \in Nat \ {0}

U16 == ByteSize * ByteSize
Word == 0..(U16 - 1)
=============================================================================
