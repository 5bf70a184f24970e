----------------------------- MODULE MCTxReview -----------------------------
(***************************************************************************)
(* TxReview for TLC: an owner of one byte, fields of up to three, two tags *)
(* at most, items of up to two bytes and names of up to two that are drawn. *)
(***************************************************************************)
EXTENDS TxReview

MCOwner == <<7>>
MCAmounts == {<<49>>, <<49, 48>>}

Base ==
    [format |-> <<Version>>, owner |-> MCOwner, target |-> <<1>>, quantity |-> <<49>>,
     reward |-> <<49>>, last_tx |-> <<2>>, tags |-> <<>>, data_size |-> <<48>>,
     data_root |-> <<>>]

Tag(n, v) == [name |-> n, value |-> v]

\* No tag, one, two, an empty one, and one too many.
TagLists ==
    {<<>>, <<Tag(<<3, 8, 5>>, <<4>>)>>, <<Tag(<<>>, <<>>), Tag(<<3, 0>>, <<4>>)>>,
     <<Tag(<<3>>, <<4>>), Tag(<<>>, <<5>>)>>,
     <<Tag(<<3>>, <<4>>), Tag(<<4>>, <<3>>), Tag(<<>>, <<>>)>>}

Values == {<<>>, <<1>>, <<49>>, <<Version>>, <<0, 1>>, <<49, 48>>, <<0, 0, 2>>}
Roots == {<<>>, <<6>>, <<6, 6, 6>>}

\* One field varies, or the data root and the tags.
Transactions ==
    {[Base EXCEPT ![f] = v] : f \in Fields \ {"data_root"}, v \in Values}
    \cup {[Base EXCEPT !.data_root = root, !.tags = tags] : root \in Roots, tags \in TagLists}

\* What a host may send instead of a transaction: any one byte changed, bytes
\* missing at the end, bytes after it, a length of 65535.
Changed(b) == {[b EXCEPT ![n] = v] : n \in 1..Len(b), v \in {0, 2, 255}}
Damaged(b) ==
    Changed(b)
    \cup {SubSeq(b, 1, n) : n \in 0..Len(b)}
    \cup {b \o <<0>>, b \o b}
    \cup {[b EXCEPT ![n] = 255, ![n + 1] = 255] : n \in 1..(Len(b) - 1)}

OneTag == <<Tag(<<3>>, <<4>>)>>
TwoTags == <<Tag(<<>>, <<5>>), Tag(<<3>>, <<4>>)>>

\* Every parse takes any of these: whole transactions, transactions of every
\* list of tags cut short, and two with tags damaged.
MCInputs ==
    {EncodeTx(t) : t \in Transactions}
    \cup UNION {LET b == EncodeTx([Base EXCEPT !.tags = tags])
                IN {SubSeq(b, 1, n) : n \in (Len(b) - 6)..Len(b)} : tags \in TagLists}
    \cup Damaged(EncodeTx([Base EXCEPT !.data_root = <<6>>, !.tags = OneTag]))
    \cup Changed(EncodeTx([Base EXCEPT !.tags = TwoTags]))
=============================================================================
