------------------------------ MODULE TxReview ------------------------------
(***************************************************************************)
(* What the app does with a transaction it has parsed: parser_validate,    *)
(* the items of the review (parser_getNumItems, parser_getItem) and the    *)
(* digest that is signed (parser_getDigest), on top of TxParser.           *)
(*                                                                         *)
(* An item is a label, the name of a tag, and the bytes shown; how they    *)
(* are drawn (base64url, decimal point, pages) is left out, but for the    *)
(* reasons for which an item cannot be drawn and for what is cut off.      *)
(***************************************************************************)
EXTENDS TxParser, TxEncoder, DeepHash

CONSTANTS
    DeviceOwner,    \* the public key of the slot in use
    UiBuffer,       \* the buffer an item is drawn in, 200 characters
    KeyLine,        \* the buffer the name of an item is drawn in, with its zero
    Amounts         \* the quantities that can be drawn as an amount of AR

ASSUME UiAssumption == DeviceOwner \in Seq(Byte) /\ UiBuffer \in Nat /\ KeyLine \in Nat \ {0}

VARIABLES
    expert,     \* app_mode_expert()
    review,     \* what became of the transaction parsed last
    digest      \* the digest signed last

reviewVars == <<expert, review, digest>>
allVars == <<parserVars, reviewVars>>

ReviewTypeOK ==
    /\ TypeOK
    /\ expert \in BOOLEAN
    /\ review \in {"none", "shown", "refused", "rejected", "signed"}
    /\ digest \in Seq(Nat)

ReviewInit == Init /\ expert \in BOOLEAN /\ review = "none" /\ digest = <<>>

-----------------------------------------------------------------------------
(* The items of the review.                                                *)

CONST_NUM_UI_ITEMS == 4
DATA_SIZE_NUM_UI_ITEMS == 1

\* DATA_ROOT_NUM_UI_ITEMS, when there is a data root.
DataRootItems == IF element["data_root"].len > 0 THEN 1 ELSE 0

NumItems ==
    IF ~expert THEN CONST_NUM_UI_ITEMS
    ELSE CONST_NUM_UI_ITEMS + tags_count + DATA_SIZE_NUM_UI_ITEMS + DataRootItems

\* Variant of TagIndex that does not skip the data root.
TagIndexPastSize(n) == (n - CONST_NUM_UI_ITEMS - DATA_SIZE_NUM_UI_ITEMS) % U16

\* The tag of item n, in the 16 bits of displayIdx.
TagIndex(n) ==
    (n - (CONST_NUM_UI_ITEMS + DATA_SIZE_NUM_UI_ITEMS + DataRootItems)) % U16

\* What strnlen and snprintf make of bytes: those before the first zero.
Text(bytes) ==
    SubSeq(bytes, 1, Cardinality({n \in DOMAIN bytes : \A m \in 1..n : bytes[m] # 0}))

\* snprintf into outKey.
TagName(bytes) == LET text == Text(bytes) IN
    SubSeq(text, 1, IF Len(text) < KeyLine THEN Len(text) ELSE KeyLine - 1)

Shown(label, value) == [label |-> label, name |-> <<>>, value |-> value]
ShownTag(name, value) == [label |-> "Tag", name |-> TagName(name), value |-> value]

\* parser_getItem.  A reward and the value of a tag are all their bytes, as
\* pageStringExt is given them; drawing these, a zero or none at all among
\* them, is zxlib's.
Item(n) ==
    CASE n = 0 -> Shown("Target", Bytes(element["target"]))
      [] n = 1 -> Shown("Quantity", Bytes(element["quantity"]))
      [] n = 2 -> Shown("Reward", Bytes(element["reward"]))
      [] n = 3 -> Shown("Last tx", Bytes(element["last_tx"]))
      [] n = 4 -> Shown("Data size", Text(Bytes(element["data_size"])))
      [] n = 5 /\ DataRootItems = 1 -> Shown("Data root", Bytes(element["data_root"]))
      [] OTHER -> ShownTag(Bytes(tagKey[TagIndex(n)]), Bytes(tagValue[TagIndex(n)]))

\* b64url_encode has an answer other than 0.
Encodes(e) == e.len > 0 /\ e.len + (e.len + 2) \div 3 <= UiBuffer

\* parser_getItem succeeds.  Reward and tags always can be shown.
CanBeShown(n) ==
    /\ n \in {0, 3} => Encodes(element[IF n = 0 THEN "target" ELSE "last_tx"])
    /\ n = 1 => element["quantity"].len <= UiBuffer /\ Bytes(element["quantity"]) \in Amounts
    /\ n = 4 => element["data_size"].len <= UiBuffer
    /\ n = 5 /\ DataRootItems = 1 => Encodes(element["data_root"])
    /\ n > 4 + DataRootItems => TagIndex(n) < MaxTags

\* parser_validate: the owner is this device and every item can be shown.
Valid ==
    /\ Bytes(element["owner"]) = DeviceOwner
    /\ \A n \in 0..(NumItems - 1) : CanBeShown(n)

-----------------------------------------------------------------------------
(* The digest.                                                             *)

HashBlob(e) == Hash(HashTag(Blob, e.len) \o Hash(Bytes(e)))

\* hashChunkWithAccumulator
Accumulate(acc, e) == Hash(acc \o HashBlob(e))

\* parser_getTagDigest
TagDigest(t) == Accumulate(Accumulate(HashTag(List, 2), tagKey[t]), tagValue[t])

\* Variant of TagsDigest that runs the tags together.
TagsDigestFlat ==
    LET acc[n \in 0..tags_count] ==
          IF n = 0 THEN HashTag(List, tags_count)
          ELSE Accumulate(Accumulate(acc[n - 1], tagKey[n - 1]), tagValue[n - 1])
    IN acc[tags_count]

\* parser_applyDigestTags
TagsDigest ==
    LET acc[n \in 0..tags_count] ==
          IF n = 0 THEN HashTag(List, tags_count)
          ELSE Hash(acc[n - 1] \o TagDigest(n - 1))
    IN acc[tags_count]

\* parser_getDigest
Digest ==
    LET format == Accumulate(HashTag(List, 9), element["format"])
        owner == Accumulate(format, element["owner"])
        target == Accumulate(owner, element["target"])
        quantity == Accumulate(target, element["quantity"])
        reward == Accumulate(quantity, element["reward"])
        last_tx == Accumulate(reward, element["last_tx"])
        tags == Hash(last_tx \o TagsDigest)
        data_size == Accumulate(tags, element["data_size"])
    IN Accumulate(data_size, element["data_root"])

-----------------------------------------------------------------------------
\* tx_parse runs to the end of parser_validate before anything else happens.
Busy == pc \notin {"idle", "ok", "failed"} \/ (pc = "ok" /\ review \in {"none", "shown"})

Arrive(b) ==
    /\ ~Busy
    /\ Parse(b)
    /\ review' = "none"
    /\ UNCHANGED <<expert, digest>>

ReadNext == Read /\ UNCHANGED reviewVars

Validate ==
    /\ pc = "ok" /\ review = "none"
    /\ review' = IF Valid THEN "shown" ELSE "refused"
    /\ UNCHANGED <<parserVars, expert, digest>>

\* The user signs, or not.
Approve ==
    /\ review = "shown"
    /\ digest' = Digest
    /\ review' = "signed"
    /\ UNCHANGED <<parserVars, expert>>

Reject ==
    /\ review = "shown"
    /\ review' = "rejected"
    /\ UNCHANGED <<parserVars, expert, digest>>

\* Expert mode is switched in the menu.
ToggleExpert ==
    /\ ~Busy
    /\ expert' = ~expert
    /\ UNCHANGED <<parserVars, review, digest>>

AppNext == ReadNext \/ Validate \/ Approve \/ Reject \/ ToggleExpert

ReviewNext == AppNext \/ \E b \in Inputs : Arrive(b)

ReviewSpec == ReviewInit /\ [][ReviewNext]_allVars

-----------------------------------------------------------------------------
(* Properties.                                                             *)

\* The transaction that parser_tx_obj stands for.
Decoded ==
    [format |-> Bytes(element["format"]), owner |-> Bytes(element["owner"]),
     target |-> Bytes(element["target"]), quantity |-> Bytes(element["quantity"]),
     reward |-> Bytes(element["reward"]), last_tx |-> Bytes(element["last_tx"]),
     tags |-> [n \in 1..tags_count |->
                [name |-> Bytes(tagKey[n - 1]), value |-> Bytes(tagValue[n - 1])]],
     data_size |-> Bytes(element["data_size"]), data_root |-> Bytes(element["data_root"])]

\* What is read is what the package would have written: a parse that succeeds
\* has read, without a gap or an overlap and with nothing left of earlier
\* parses, the encoding of one transaction at the front of the buffer.
ParsedIsEncoded == pc = "ok" => EncodeTx(Decoded) = SubSeq(buffer, 1, offset)

\* What the review shows of a transaction, written from the transaction.
ReviewOf(t) ==
    <<Shown("Target", t.target), Shown("Quantity", t.quantity), Shown("Reward", t.reward),
      Shown("Last tx", t.last_tx)>>
    \o IF ~expert THEN <<>>
       ELSE <<Shown("Data size", Text(t.data_size))>>
            \o (IF t.data_root = <<>> THEN <<>> ELSE <<Shown("Data root", t.data_root)>>)
            \o [n \in DOMAIN t.tags |-> ShownTag(t.tags[n].name, t.tags[n].value)]

\* The items of the review are the target, quantity, reward and last
\* transaction, once and in this order, and in expert mode also the data size,
\* the data root if there is one, and every tag.  The format and the owner are
\* signed too and are no items: the parser and Valid have checked them.
ReviewIsComplete ==
    review = "shown" => [n \in 1..NumItems |-> Item(n - 1)] = ReviewOf(Decoded)

\* The digest that is signed is Arweave's deep hash of the transaction.
DigestIsDeepHash == review = "signed" => digest = DeepHashOf(Decoded)
=============================================================================
