---------------------------- MODULE MCTxTransfer ----------------------------
(***************************************************************************)
(* TxTransfer for TLC: the messages differ in target, data root and tags,  *)
(* so that their lengths meet every remainder of the size of a chunk; and  *)
(* some have a field whose length is written as 0 or 1.                    *)
(***************************************************************************)
EXTENDS MCTxReview, TxTransfer

Long(n) == [m \in 1..n |-> 0]

MCMessages ==
    {[Base EXCEPT !.target = target, !.data_root = root, !.tags = tags] :
        target \in Values, root \in {<<>>, <<6>>}, tags \in TagLists}
    \cup UNION {{[Base EXCEPT !.target = Long(n)], [Base EXCEPT !.data_root = Long(n)],
                 [Base EXCEPT !.tags = <<Tag(<<3>>, Long(n))>>]} : n \in {64, 65}}
=============================================================================
