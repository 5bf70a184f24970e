--------------------------- MODULE TxReviewProofs ---------------------------
(***************************************************************************)
(* What holds of the review, the digest and the transfer for every         *)
(* transaction, every length of its fields, every number of tags and every *)
(* size of a chunk.                                                        *)
(***************************************************************************)
EXTENDS TxTransfer, TxCodecProofs

-----------------------------------------------------------------------------
(* Hashes.                                                                 *)

LEMMA HashInSeq ==
  ASSUME NEW text \in Seq(Nat)
  PROVE  Hash(text) \in Seq(Nat)
  BY DEF Hash, Open, Close

LEMMA HashTagInSeq ==
  ASSUME NEW n \in Nat
  PROVE  HashTag(List, n) \in Seq(Nat) /\ HashTag(Blob, n) \in Seq(Nat)
  <1>1. ASSUME NEW k \in Nat PROVE HashTag(k, n) \in Seq(Nat)
    <2>1. <<k, n>> \in Seq(Nat)
      OBVIOUS
    <2> QED
      BY <2>1, HashInSeq DEF HashTag
  <1> QED
    BY <1>1 DEF List, Blob

LEMMA BlobHashInSeq ==
  ASSUME NEW bytes \in Seq(Byte)
  PROVE  BlobHash(bytes) \in Seq(Nat)
  <1>1. bytes \in Seq(Nat) /\ Len(bytes) \in Nat
    <2>1. Byte \subseteq Nat
      BY DEF Byte
    <2>2. Len(bytes) \in Nat /\ bytes \in [1..Len(bytes) -> Byte]
      OBVIOUS
    <2>3. bytes \in [1..Len(bytes) -> Nat]
      BY <2>1, <2>2
    <2> QED
      BY <2>2, <2>3
  <1>2. HashTag(Blob, Len(bytes)) \in Seq(Nat) /\ Hash(bytes) \in Seq(Nat)
    BY <1>1, HashTagInSeq, HashInSeq
  <1>3. HashTag(Blob, Len(bytes)) \o Hash(bytes) \in Seq(Nat)
    BY <1>2
  <1> QED
    BY <1>3, HashInSeq DEF BlobHash

\* What hashBlob makes of an element is the hash of the blob it is.
LEMMA HashBlobIsBlobHash ==
  ASSUME buffer \in Seq(Byte), NEW e \in Element
  PROVE  HashBlob(e) = BlobHash(Bytes(e)) /\ HashBlob(e) \in Seq(Nat)
  BY BytesInSeq, BlobHashInSeq DEF HashBlob, BlobHash

\* g[n] is the hash of the first n of N hashes of a list.
IsHashing(g, N, hashes) ==
    g = [n \in 0..N |-> IF n = 0 THEN HashTag(List, N) ELSE Hash(g[n - 1] \o hashes[n])]

\* There is such a function, as ListHash and TagsDigest suppose.
LEMMA HashingExists ==
  ASSUME NEW N \in Nat, NEW hashes \in [1..N -> Seq(Nat)]
  PROVE  \E g : IsHashing(g, N, hashes)
  <1> DEFINE V == Seq(Nat)
             next == [n \in 1..N |-> [v \in V |-> Hash(v \o hashes[n])]]
  <1>1. ASSUME NEW n \in 1..N, NEW v \in V PROVE Hash(v \o hashes[n]) \in V
    <2>1. v \o hashes[n] \in Seq(Nat)
      OBVIOUS
    <2> QED
      BY <2>1, HashInSeq
  <1>2. next \in [1..N -> [V -> V]]
    BY <1>1
  <1>3. HashTag(List, N) \in V
    BY HashTagInSeq
  <1> HIDE DEF next
  <1>4. PICK f : IsRecursion(f, V, N, HashTag(List, N), next)
    BY <1>2, <1>3, Recursion
  <1>5. /\ f \in [0..N -> V] /\ f[0] = HashTag(List, N)
        /\ \A n \in 1..N : f[n] = next[n][f[n - 1]]
    BY <1>4 DEF IsRecursion
  <1>6. ASSUME NEW n \in 0..N
        PROVE  f[n] = IF n = 0 THEN HashTag(List, N) ELSE Hash(f[n - 1] \o hashes[n])
    <2>1. CASE n = 0
      BY <1>5, <2>1
    <2>2. CASE n # 0
      <3>1. n \in 1..N /\ n - 1 \in 0..N
        BY <2>2
      <3>2. next[n] = [v \in V |-> Hash(v \o hashes[n])]
        BY <3>1 DEF next
      <3>3. f[n - 1] \in V
        BY <1>5, <3>1
      <3> QED
        BY <1>5, <2>2, <3>1, <3>2, <3>3
    <2> QED
      BY <2>1, <2>2
  <1>7. IsHashing(f, N, hashes)
    BY <1>5, <1>6 DEF IsHashing
  <1> QED
    BY <1>7

\* Its values, one by one.
LEMMA HashingSteps ==
  ASSUME NEW N \in Nat, NEW hashes, NEW g, IsHashing(g, N, hashes)
  PROVE  /\ g[0] = HashTag(List, N)
         /\ \A n \in 1..N : g[n] = Hash(g[n - 1] \o hashes[n])
  <1>1. \A n \in 0..N : g[n] = IF n = 0 THEN HashTag(List, N) ELSE Hash(g[n - 1] \o hashes[n])
    BY DEF IsHashing
  <1>2. 0 \in 0..N /\ \A n \in 1..N : n \in 0..N /\ n # 0
    OBVIOUS
  <1> QED
    BY <1>1, <1>2

\* And there is one only.
LEMMA HashingUnique ==
  ASSUME NEW N \in Nat, NEW hashes \in [1..N -> Seq(Nat)],
         NEW g, IsHashing(g, N, hashes), NEW h, IsHashing(h, N, hashes)
  PROVE  g[N] = h[N] /\ g[N] \in Seq(Nat)
  <1> DEFINE S == {n \in Nat : n \in 0..N => g[n] = h[n] /\ g[n] \in Seq(Nat)}
  <1>1. g[0] = HashTag(List, N) /\ \A n \in 1..N : g[n] = Hash(g[n - 1] \o hashes[n])
    BY HashingSteps
  <1>2. h[0] = HashTag(List, N) /\ \A n \in 1..N : h[n] = Hash(h[n - 1] \o hashes[n])
    BY HashingSteps
  <1>3. 0 \in S
    BY <1>1, <1>2, HashTagInSeq
  <1>4. ASSUME NEW n \in Nat, n \in S, n + 1 \in 0..N
        PROVE  g[n + 1] = h[n + 1] /\ g[n + 1] \in Seq(Nat)
    <2>1. n \in 0..N /\ n + 1 \in 1..N /\ (n + 1) - 1 = n
      BY <1>4
    <2>2. g[n] = h[n] /\ g[n] \in Seq(Nat)
      BY <1>4, <2>1
    <2>3. g[n + 1] = Hash(g[n] \o hashes[n + 1]) /\ h[n + 1] = Hash(h[n] \o hashes[n + 1])
      BY <1>1, <1>2, <2>1
    <2>4. g[n] \o hashes[n + 1] \in Seq(Nat)
      BY <2>1, <2>2
    <2> QED
      BY <2>2, <2>3, <2>4, HashInSeq
  <1>5. \A n \in Nat : n \in S => n + 1 \in S
    BY <1>4
  <1> HIDE DEF S
  <1>6. N \in S
    BY <1>3, <1>5, Induction
  <1> QED
    BY <1>6 DEF S

\* ListHash folds the hashes it is given, each into the hash of those before.
LEMMA ListHashing ==
  ASSUME NEW hashes \in Seq(Seq(Nat))
  PROVE  \E g : IsHashing(g, Len(hashes), hashes) /\ ListHash(hashes) = g[Len(hashes)]
  <1> DEFINE N == Len(hashes)
             g == CHOOSE f : IsHashing(f, N, hashes)
  <1>1. N \in Nat /\ hashes \in [1..N -> Seq(Nat)]
    BY LenProperties
  <1>2. \E f : IsHashing(f, N, hashes)
    BY <1>1, HashingExists
  <1>3. IsHashing(g, N, hashes)
    BY <1>2
  <1>4. ListHash(hashes) = g[N]
    BY DEF ListHash, IsHashing
  <1> HIDE DEF g
  <1> QED
    BY <1>3, <1>4

LEMMA ListHashInSeq ==
  ASSUME NEW hashes \in Seq(Seq(Nat))
  PROVE  ListHash(hashes) \in Seq(Nat)
  <1>1. PICK g : IsHashing(g, Len(hashes), hashes) /\ ListHash(hashes) = g[Len(hashes)]
    BY ListHashing
  <1>2. Len(hashes) \in Nat /\ hashes \in [1..Len(hashes) -> Seq(Nat)]
    BY LenProperties
  <1> QED
    BY <1>1, <1>2, HashingUnique

\* parser_getTagDigest hashes a pair of blobs.
LEMMA TagDigestIsPairHash ==
  ASSUME buffer \in Seq(Byte), NEW t, tagKey[t] \in Element, tagValue[t] \in Element
  PROVE  LET tag == [name |-> Bytes(tagKey[t]), value |-> Bytes(tagValue[t])]
         IN TagDigest(t) = PairHash(tag) /\ PairHash(tag) \in Seq(Nat)
  <1> DEFINE key == BlobHash(Bytes(tagKey[t]))
             value == BlobHash(Bytes(tagValue[t]))
             hashes == <<key, value>>
  <1>1. /\ HashBlob(tagKey[t]) = key /\ HashBlob(tagValue[t]) = value
        /\ key \in Seq(Nat) /\ value \in Seq(Nat)
    BY HashBlobIsBlobHash
  <1> HIDE DEF key, value
  <1>2. hashes \in Seq(Seq(Nat)) /\ Len(hashes) = 2 /\ hashes[1] = key /\ hashes[2] = value
    BY <1>1
  <1> HIDE DEF hashes
  <1>3. PICK g : IsHashing(g, 2, hashes) /\ ListHash(hashes) = g[2]
    BY <1>2, ListHashing
  <1>4. g[0] = HashTag(List, 2) /\ \A n \in 1..2 : g[n] = Hash(g[n - 1] \o hashes[n])
    BY <1>3, HashingSteps
  <1>5. g[1] = Hash(g[0] \o key) /\ g[2] = Hash(g[1] \o value)
    <2>1. 1 \in 1..2 /\ 2 \in 1..2 /\ 1 - 1 = 0 /\ 2 - 1 = 1
      OBVIOUS
    <2>2. g[1] = Hash(g[1 - 1] \o hashes[1]) /\ g[2] = Hash(g[2 - 1] \o hashes[2])
      BY <1>4, <2>1
    <2> QED
      BY <1>2, <2>1, <2>2
  <1>6. TagDigest(t) = g[2]
    BY <1>1, <1>4, <1>5 DEF TagDigest, Accumulate
  <1> DEFINE tag == [name |-> Bytes(tagKey[t]), value |-> Bytes(tagValue[t])]
  <1>7. PairHash(tag) = ListHash(hashes)
    BY DEF PairHash, hashes, key, value
  <1> QED
    BY <1>2, <1>3, <1>6, <1>7, ListHashInSeq

\* parser_applyDigestTags hashes the list of the tags.
LEMMA TagsDigestIsListHash ==
  ASSUME TypeOK, tags_count <= MaxTags
  PROVE  LET hashes == [n \in DOMAIN Decoded.tags |-> PairHash(Decoded.tags[n])]
         IN /\ TagsDigest = ListHash(hashes)
            /\ hashes \in Seq(Seq(Nat))
  <1> DEFINE N == tags_count
             hashes == [n \in 1..N |-> TagDigest(n - 1)]
             P(g) == g = [n \in 0..N |-> IF n = 0 THEN HashTag(List, N)
                                         ELSE Hash(g[n - 1] \o TagDigest(n - 1))]
             f == CHOOSE g : P(g)
  <1>1. N \in Nat /\ buffer \in Seq(Byte) /\ MaxTags \in Nat
    BY Words, SizesAssumption DEF TypeOK
  <1>2. ASSUME NEW n \in 1..N
        PROVE  LET tag == [name |-> Bytes(tagKey[n - 1]), value |-> Bytes(tagValue[n - 1])]
               IN TagDigest(n - 1) = PairHash(tag) /\ PairHash(tag) \in Seq(Nat)
    <2>1. n - 1 \in Tags
      BY <1>1 DEF Tags
    <2>2. tagKey[n - 1] \in Element /\ tagValue[n - 1] \in Element
      BY <2>1 DEF TypeOK
    <2> QED
      BY <1>1, <2>2, TagDigestIsPairHash
  <1>3. hashes = [n \in DOMAIN Decoded.tags |-> PairHash(Decoded.tags[n])]
    <2>1. Decoded.tags = [n \in 1..N |-> [name |-> Bytes(tagKey[n - 1]),
                                          value |-> Bytes(tagValue[n - 1])]]
      BY DEF Decoded
    <2> QED
      BY <1>2, <2>1
  <1>4. hashes \in [1..N -> Seq(Nat)]
    BY <1>2
  <1>5. hashes \in Seq(Seq(Nat)) /\ Len(hashes) = N
    BY <1>1, <1>4
  <1>6. PICK g : IsHashing(g, N, hashes) /\ ListHash(hashes) = g[N]
    <2> HIDE DEF hashes
    <2> QED
      BY <1>5, ListHashing
  <1>7. P(g)
    <2>1. \A n \in 1..N : hashes[n] = TagDigest(n - 1)
      OBVIOUS
    <2>2. \A n \in 0..N : n # 0 => n \in 1..N
      OBVIOUS
    <2> HIDE DEF hashes
    <2>3. g = [n \in 0..N |-> IF n = 0 THEN HashTag(List, N) ELSE Hash(g[n - 1] \o hashes[n])]
      BY <1>6 DEF IsHashing
    <2>4. g = [n \in 0..N |-> IF n = 0 THEN HashTag(List, N)
                              ELSE Hash(g[n - 1] \o TagDigest(n - 1))]
      BY <2>1, <2>2, <2>3
    <2> QED
      BY <2>4
  <1>8. P(f)
    <2> HIDE DEF P
    <2> QED
      BY <1>7
  <1>9. TagsDigest = f[N]
    BY DEF TagsDigest
  <1> HIDE DEF f
  <1>10. IsHashing(f, N, hashes)
    <2>1. \A n \in 1..N : hashes[n] = TagDigest(n - 1)
      OBVIOUS
    <2>2. \A n \in 0..N : n # 0 => n \in 1..N
      OBVIOUS
    <2>3. f = [n \in 0..N |-> IF n = 0 THEN HashTag(List, N)
                              ELSE Hash(f[n - 1] \o TagDigest(n - 1))]
      BY <1>8
    <2> HIDE DEF hashes
    <2> QED
      BY <2>1, <2>2, <2>3 DEF IsHashing
  <1> HIDE DEF hashes, P
  <1>11. f[N] = g[N]
    BY <1>1, <1>4, <1>6, <1>10, HashingUnique
  <1> QED
    BY <1>3, <1>5, <1>6, <1>9, <1>11

\* The digest is the deep hash of the transaction that parser_tx_obj stands for.
LEMMA DigestIsDeep ==
  ASSUME TypeOK, tags_count <= MaxTags
  PROVE  Digest = DeepHashOf(Decoded) /\ Digest \in Seq(Nat)
  <1> DEFINE t == Decoded
             tags == [n \in DOMAIN t.tags |-> PairHash(t.tags[n])]
             list == ListHash(tags)
             B(f) == HashBlob(element[f])
             hashes == <<B("format"), B("owner"), B("target"), B("quantity"), B("reward"),
                         B("last_tx"), list, B("data_size"), B("data_root")>>
  <1>1. ASSUME NEW f \in Fields
        PROVE  B(f) \in Seq(Nat) /\ B(f) = BlobHash(Bytes(element[f]))
    <2>1. buffer \in Seq(Byte) /\ element[f] \in Element
      BY DEF TypeOK
    <2> QED
      BY <2>1, HashBlobIsBlobHash
  <1>2. TagsDigest = list /\ list \in Seq(Nat)
    <2>1. TagsDigest = list /\ tags \in Seq(Seq(Nat))
      BY TagsDigestIsListHash
    <2> HIDE DEF tags
    <2> QED
      BY <2>1, ListHashInSeq
  <1>3. DeepHashOf(t) = ListHash(hashes)
    <2>1. /\ t.format = Bytes(element["format"]) /\ t.owner = Bytes(element["owner"])
          /\ t.target = Bytes(element["target"]) /\ t.quantity = Bytes(element["quantity"])
          /\ t.reward = Bytes(element["reward"]) /\ t.last_tx = Bytes(element["last_tx"])
          /\ t.data_size = Bytes(element["data_size"])
          /\ t.data_root = Bytes(element["data_root"])
      BY DEF Decoded
    <2>2. /\ B("format") = BlobHash(t.format) /\ B("owner") = BlobHash(t.owner)
          /\ B("target") = BlobHash(t.target) /\ B("quantity") = BlobHash(t.quantity)
          /\ B("reward") = BlobHash(t.reward) /\ B("last_tx") = BlobHash(t.last_tx)
          /\ B("data_size") = BlobHash(t.data_size)
          /\ B("data_root") = BlobHash(t.data_root)
      BY <1>1, <2>1 DEF Fields
    <2> HIDE DEF t, B
    <2> QED
      BY <2>2 DEF DeepHashOf
  <1>4. /\ B("format") \in Seq(Nat) /\ B("owner") \in Seq(Nat) /\ B("target") \in Seq(Nat)
        /\ B("quantity") \in Seq(Nat) /\ B("reward") \in Seq(Nat) /\ B("last_tx") \in Seq(Nat)
        /\ B("data_size") \in Seq(Nat) /\ B("data_root") \in Seq(Nat)
    BY <1>1 DEF Fields
  <1>5. Digest = LET a0 == HashTag(List, 9)
                     a1 == Hash(a0 \o B("format"))
                     a2 == Hash(a1 \o B("owner"))
                     a3 == Hash(a2 \o B("target"))
                     a4 == Hash(a3 \o B("quantity"))
                     a5 == Hash(a4 \o B("reward"))
                     a6 == Hash(a5 \o B("last_tx"))
                     a7 == Hash(a6 \o list)
                     a8 == Hash(a7 \o B("data_size"))
                 IN Hash(a8 \o B("data_root"))
    BY <1>2 DEF Digest, Accumulate
  <1> HIDE DEF B, list
  <1>6. /\ hashes \in Seq(Seq(Nat)) /\ Len(hashes) = 9
        /\ hashes[1] = B("format") /\ hashes[2] = B("owner") /\ hashes[3] = B("target")
        /\ hashes[4] = B("quantity") /\ hashes[5] = B("reward") /\ hashes[6] = B("last_tx")
        /\ hashes[7] = list /\ hashes[8] = B("data_size") /\ hashes[9] = B("data_root")
    BY <1>2, <1>4
  <1> HIDE DEF hashes
  <1>7. PICK g : IsHashing(g, 9, hashes) /\ ListHash(hashes) = g[9]
    BY <1>6, ListHashing
  <1>8. g[0] = HashTag(List, 9) /\ \A n \in 1..9 : g[n] = Hash(g[n - 1] \o hashes[n])
    BY <1>7, HashingSteps
  <1>9. ASSUME NEW m \in 0..8 PROVE g[m + 1] = Hash(g[m] \o hashes[m + 1])
    <2>1. m + 1 \in 1..9 /\ (m + 1) - 1 = m
      OBVIOUS
    <2> QED
      BY <1>8, <2>1
  <1>10. /\ g[1] = Hash(g[0] \o hashes[1]) /\ g[2] = Hash(g[1] \o hashes[2])
         /\ g[3] = Hash(g[2] \o hashes[3]) /\ g[4] = Hash(g[3] \o hashes[4])
         /\ g[5] = Hash(g[4] \o hashes[5]) /\ g[6] = Hash(g[5] \o hashes[6])
         /\ g[7] = Hash(g[6] \o hashes[7]) /\ g[8] = Hash(g[7] \o hashes[8])
         /\ g[9] = Hash(g[8] \o hashes[9])
    <2>1. g[0 + 1] = Hash(g[0] \o hashes[0 + 1]) /\ g[1 + 1] = Hash(g[1] \o hashes[1 + 1])
      BY <1>9
    <2>2. g[2 + 1] = Hash(g[2] \o hashes[2 + 1]) /\ g[3 + 1] = Hash(g[3] \o hashes[3 + 1])
      BY <1>9
    <2>3. g[4 + 1] = Hash(g[4] \o hashes[4 + 1]) /\ g[5 + 1] = Hash(g[5] \o hashes[5 + 1])
      BY <1>9
    <2>4. g[6 + 1] = Hash(g[6] \o hashes[6 + 1]) /\ g[7 + 1] = Hash(g[7] \o hashes[7 + 1])
      BY <1>9
    <2>5. g[8 + 1] = Hash(g[8] \o hashes[8 + 1])
      BY <1>9
    <2> QED
      BY <2>1, <2>2, <2>3, <2>4, <2>5
  <1>11. Digest = g[9]
    BY <1>5, <1>6, <1>8, <1>10
  <1> QED
    BY <1>3, <1>6, <1>7, <1>11, ListHashInSeq

-----------------------------------------------------------------------------
(* The items of the review.                                                *)

\* The bytes of an element are none exactly if its length is 0.
LEMMA NoBytes ==
  ASSUME buffer \in Seq(Byte), NEW e \in Element
  PROVE  Bytes(e) = <<>> <=> e.len = 0
  <1>1. Bytes(e) \in Seq(Byte) /\ Len(Bytes(e)) = e.len
    BY BytesInSeq
  <1> QED
    BY <1>1

\* The index of item n is that of its tag: displayIdx does not wrap.
LEMMA TagIndexIs ==
  ASSUME TypeOK, NEW k \in 1..tags_count
  PROVE  TagIndex(4 + DataRootItems + k) = k - 1
  <1>1. tags_count \in Nat /\ tags_count < U16 /\ U16 \in Nat /\ DataRootItems \in {0, 1}
    BY Words DEF TypeOK, Word, DataRootItems
  <1>2. (4 + DataRootItems + k) - (CONST_NUM_UI_ITEMS + DATA_SIZE_NUM_UI_ITEMS + DataRootItems)
          = k - 1
    BY <1>1 DEF CONST_NUM_UI_ITEMS, DATA_SIZE_NUM_UI_ITEMS
  <1>3. k - 1 \in 0..(U16 - 1)
    BY <1>1
  <1>4. (k - 1) % U16 = k - 1
    BY <1>1, <1>3
  <1> QED
    BY <1>2, <1>4 DEF TagIndex

\* The items with a number of their own.
LEMMA FixedItems ==
  /\ Item(0) = Shown("Target", Bytes(element["target"]))
  /\ Item(1) = Shown("Quantity", Bytes(element["quantity"]))
  /\ Item(2) = Shown("Reward", Bytes(element["reward"]))
  /\ Item(3) = Shown("Last tx", Bytes(element["last_tx"]))
  /\ Item(4) = Shown("Data size", Text(Bytes(element["data_size"])))
  /\ DataRootItems = 1 => Item(5) = Shown("Data root", Bytes(element["data_root"]))
  <1>1. Item(0) = Shown("Target", Bytes(element["target"]))
    BY DEF Item
  <1>2. Item(1) = Shown("Quantity", Bytes(element["quantity"]))
    BY DEF Item
  <1>3. Item(2) = Shown("Reward", Bytes(element["reward"]))
    BY DEF Item
  <1>4. Item(3) = Shown("Last tx", Bytes(element["last_tx"]))
    BY DEF Item
  <1>5. Item(4) = Shown("Data size", Text(Bytes(element["data_size"])))
    BY DEF Item
  <1>6. DataRootItems = 1 => Item(5) = Shown("Data root", Bytes(element["data_root"]))
    BY DEF Item
  <1> QED
    BY <1>1, <1>2, <1>3, <1>4, <1>5, <1>6

\* The others show a tag each.
LEMMA ItemOfTag ==
  ASSUME TypeOK, NEW k \in 1..tags_count
  PROVE  Item(4 + DataRootItems + k) = ShownTag(Bytes(tagKey[k - 1]), Bytes(tagValue[k - 1]))
  <1> DEFINE n == 4 + DataRootItems + k
  <1>1. DataRootItems \in {0, 1} /\ tags_count \in Nat
    BY Words DEF DataRootItems, TypeOK
  <1>2. n \in Nat /\ n > 4 /\ ~(n = 5 /\ DataRootItems = 1)
    BY <1>1
  <1>3. TagIndex(n) = k - 1
    BY TagIndexIs
  <1> HIDE DEF n
  <1>4. n # 0 /\ n # 1 /\ n # 2 /\ n # 3 /\ n # 4 /\ ~(n = 5 /\ DataRootItems = 1)
    BY <1>2
  <1>5. Item(n) = ShownTag(Bytes(tagKey[TagIndex(n)]), Bytes(tagValue[TagIndex(n)]))
    BY <1>4 DEF Item
  <1> QED
    BY <1>3, <1>5 DEF n

\* s is a, b, c and d, one after the other.
FourParts(s, a, b, c, d) ==
    /\ s = [n \in 1..(Len(a) + Len(b) + Len(c) + Len(d)) |-> s[n]]
    /\ \A n \in 1..Len(a) : s[n] = a[n]
    /\ \A n \in 1..Len(b) : s[Len(a) + n] = b[n]
    /\ \A n \in 1..Len(c) : s[Len(a) + Len(b) + n] = c[n]
    /\ \A n \in 1..Len(d) : s[Len(a) + Len(b) + Len(c) + n] = d[n]

\* Such an s is what they join into.
LEMMA FourPartsJoin ==
  ASSUME NEW V, NEW s,
         NEW a \in Seq(V), NEW b \in Seq(V), NEW c \in Seq(V), NEW d \in Seq(V),
         FourParts(s, a, b, c, d)
  PROVE  s = a \o (b \o c \o d)
  <1> DEFINE A == Len(a)
             B == Len(b)
             C == Len(c)
             E == Len(d)
             bc == b \o c
             bcd == bc \o d
             t == a \o bcd
  <1>1. A \in Nat /\ B \in Nat /\ C \in Nat /\ E \in Nat
    OBVIOUS
  <1>2. /\ s = [n \in 1..(A + B + C + E) |-> s[n]]
        /\ \A n \in 1..A : s[n] = a[n]
        /\ \A n \in 1..B : s[A + n] = b[n]
        /\ \A n \in 1..C : s[A + B + n] = c[n]
        /\ \A n \in 1..E : s[A + B + C + n] = d[n]
    BY DEF FourParts
  <1>3. /\ bc \in Seq(V) /\ Len(bc) = B + C
        /\ \A n \in 1..B : bc[n] = b[n]
        /\ \A n \in 1..C : bc[B + n] = c[n]
    OBVIOUS
  <1> HIDE DEF bc
  <1>4. /\ bcd \in Seq(V) /\ Len(bcd) = Len(bc) + E
        /\ \A n \in 1..Len(bc) : bcd[n] = bc[n]
        /\ \A n \in 1..E : bcd[Len(bc) + n] = d[n]
    <2>1. bc \in Seq(V)
      BY <1>3
    <2> QED
      BY <2>1
  <1> HIDE DEF bcd
  <1>5. /\ t \in Seq(V) /\ Len(t) = A + Len(bcd)
        /\ \A n \in 1..A : t[n] = a[n]
        /\ \A n \in 1..Len(bcd) : t[A + n] = bcd[n]
    <2>1. bcd \in Seq(V)
      BY <1>4
    <2> QED
      BY <2>1
  <1> HIDE DEF t, A, B, C, E
  <1>6. ASSUME NEW n \in 1..(A + B + C + E) PROVE s[n] = t[n]
    <2>1. CASE n <= A
      <3>1. n \in 1..A
        BY <1>1, <2>1
      <3> QED
        BY <1>2, <1>5, <3>1
    <2>2. CASE A < n /\ n <= A + B
      <3>1. PICK m \in 1..B : n = A + m
        <4>1. n - A \in 1..B /\ A + (n - A) = n
          BY <1>1, <2>2
        <4> QED
          BY <4>1
      <3>2. m \in 1..Len(bcd) /\ m \in 1..Len(bc)
        BY <1>1, <1>3, <1>4, <3>1
      <3>3. s[A + m] = b[m] /\ t[A + m] = bcd[m] /\ bcd[m] = bc[m] /\ bc[m] = b[m]
        BY <1>2, <1>3, <1>4, <1>5, <3>2
      <3> QED
        BY <3>1, <3>3
    <2>3. CASE A + B < n /\ n <= A + B + C
      <3>1. PICK m \in 1..C : n = A + B + m
        <4>1. n - (A + B) \in 1..C /\ A + B + (n - (A + B)) = n
          BY <1>1, <2>3
        <4> QED
          BY <4>1
      <3>2. B + m \in 1..Len(bcd) /\ B + m \in 1..Len(bc) /\ A + B + m = A + (B + m)
        BY <1>1, <1>3, <1>4, <3>1
      <3>3. /\ s[A + B + m] = c[m] /\ t[A + (B + m)] = bcd[B + m] /\ bcd[B + m] = bc[B + m]
            /\ bc[B + m] = c[m]
        BY <1>2, <1>3, <1>4, <1>5, <3>2
      <3> QED
        BY <3>1, <3>2, <3>3
    <2>4. CASE A + B + C < n
      <3>1. PICK m \in 1..E : n = A + B + C + m
        <4>1. n - (A + B + C) \in 1..E /\ A + B + C + (n - (A + B + C)) = n
          BY <1>1, <2>4
        <4> QED
          BY <4>1
      <3>2. B + C + m \in 1..Len(bcd) /\ B + C + m = Len(bc) + m
            /\ A + B + C + m = A + (B + C + m)
        BY <1>1, <1>3, <1>4, <3>1
      <3>3. /\ s[A + B + C + m] = d[m] /\ t[A + (B + C + m)] = bcd[B + C + m]
            /\ bcd[Len(bc) + m] = d[m]
        BY <1>2, <1>4, <1>5, <3>2
      <3> QED
        BY <3>1, <3>2, <3>3
    <2> QED
      BY <1>1, <2>1, <2>2, <2>3, <2>4
  <1>7. t = [n \in 1..(A + B + C + E) |-> t[n]]
    <2>1. Len(bc) = B + C /\ Len(bcd) = Len(bc) + E /\ Len(t) = A + Len(bcd)
      BY <1>3, <1>4, <1>5
    <2>2. Len(t) = A + B + C + E
      BY <1>1, <2>1
    <2> QED
      BY <1>5, <2>2
  <1>8. s = t
    BY <1>2, <1>6, <1>7
  <1> QED
    BY <1>8 DEF t, bcd, bc

PartsJoin(S) ==
    \A a, b, c, d \in S : \A s : FourParts(s, a, b, c, d) => s = a \o (b \o c \o d)

LEMMA AllPartsJoin ==
  ASSUME NEW V
  PROVE  PartsJoin(Seq(V))
  BY FourPartsJoin DEF PartsJoin

\* In each mode, each number of an item that the review has shows what the
\* transaction has there, and there is no item more or less.
LEMMA ItemsAreReview ==
  ASSUME TypeOK, expert \in BOOLEAN
  PROVE  [n \in 1..NumItems |-> Item(n - 1)] = ReviewOf(Decoded)
  <1> DEFINE t == Decoded
             N == tags_count
             D == DataRootItems
             target == Shown("Target", t.target)
             quantity == Shown("Quantity", t.quantity)
             reward == Shown("Reward", t.reward)
             last_tx == Shown("Last tx", t.last_tx)
             data_size == Shown("Data size", Text(t.data_size))
             data_root == Shown("Data root", t.data_root)
             base == <<target, quantity, reward, last_tx>>
             size == <<data_size>>
             root == IF t.data_root = <<>> THEN <<>> ELSE <<data_root>>
             tags == [n \in DOMAIN t.tags |-> ShownTag(t.tags[n].name, t.tags[n].value)]
             items == [n \in 1..NumItems |-> Item(n - 1)]
             V == {target, quantity, reward, last_tx, data_size, data_root}
                    \cup {tags[n] : n \in 1..N}
             whole == ReviewOf(t)
  <1>1. N \in Nat /\ D \in {0, 1}
    BY Words DEF TypeOK, DataRootItems
  <1>2. /\ t.target = Bytes(element["target"]) /\ t.quantity = Bytes(element["quantity"])
        /\ t.reward = Bytes(element["reward"]) /\ t.last_tx = Bytes(element["last_tx"])
        /\ t.data_size = Bytes(element["data_size"])
        /\ t.data_root = Bytes(element["data_root"])
        /\ t.tags = [n \in 1..N |-> [name |-> Bytes(tagKey[n - 1]),
                                     value |-> Bytes(tagValue[n - 1])]]
    BY DEF Decoded
  <1>3. tags = [n \in 1..N |-> ShownTag(Bytes(tagKey[n - 1]), Bytes(tagValue[n - 1]))]
    BY <1>2
  <1>4. t.data_root = <<>> <=> D = 0
    <2>1. buffer \in Seq(Byte) /\ element["data_root"] \in Element
      BY DEF TypeOK, Fields
    <2>2. element["data_root"].len \in Nat
      BY <2>1, Words DEF Element
    <2> QED
      BY <1>2, <2>1, <2>2, NoBytes DEF DataRootItems
  <1>5. /\ Item(0) = target /\ Item(1) = quantity /\ Item(2) = reward /\ Item(3) = last_tx
        /\ Item(4) = data_size /\ (D = 1 => Item(5) = data_root)
    BY <1>2, FixedItems
  <1>6. ASSUME NEW k \in 1..N PROVE Item(4 + D + k) = tags[k]
    BY <1>3, ItemOfTag
  <1>7. whole = base \o IF ~expert THEN <<>> ELSE size \o root \o tags
    BY DEF ReviewOf
  <1>8. NumItems = IF ~expert THEN 4 ELSE 5 + D + N
    BY <1>1 DEF NumItems, CONST_NUM_UI_ITEMS, DATA_SIZE_NUM_UI_ITEMS
  <1>9. /\ tags \in [1..N -> V]
        /\ target \in V /\ quantity \in V /\ reward \in V /\ last_tx \in V
        /\ data_size \in V /\ data_root \in V
    <2>1. tags = [n \in 1..N |-> tags[n]]
      BY <1>3
    <2>2. \A n \in 1..N : tags[n] \in V
      OBVIOUS
    <2> HIDE DEF tags, target, quantity, reward, last_tx, data_size, data_root
    <2> QED
      BY <2>1, <2>2
  <1>10. root = IF D = 0 THEN <<>> ELSE <<data_root>>
    BY <1>1, <1>4
  <1> HIDE DEF t, N, D, target, quantity, reward, last_tx, data_size, data_root, tags, V, root,
               whole
  <1>11. /\ base \in Seq(V) /\ Len(base) = 4
         /\ base[1] = target /\ base[2] = quantity /\ base[3] = reward /\ base[4] = last_tx
    BY <1>9
  <1>12. size \in Seq(V) /\ Len(size) = 1 /\ size[1] = data_size
    BY <1>9
  <1>13. root \in Seq(V) /\ Len(root) = D /\ (D = 1 => root[1] = data_root)
    BY <1>1, <1>9, <1>10
  <1>14. tags \in Seq(V) /\ Len(tags) = N
    BY <1>1, <1>9
  <1> HIDE DEF base, size
  <1>15. ASSUME NEW n \in 1..4 PROVE Item(n - 1) = base[n]
    <2>1. n = 1 \/ n = 2 \/ n = 3 \/ n = 4
      OBVIOUS
    <2> QED
      BY <1>5, <1>11, <2>1
  <1>16. CASE ~expert
    <2>1. whole = base
      BY <1>7, <1>11, <1>16, ConcatEmptySeq
    <2>2. items = [n \in 1..4 |-> Item(n - 1)]
      BY <1>8, <1>16
    <2>3. base = [n \in 1..4 |-> base[n]]
      BY <1>11
    <2> HIDE DEF items
    <2>4. items = whole
      BY <1>15, <2>1, <2>2, <2>3
    <2> QED
      BY <2>4 DEF items, whole, t
  <1>17. CASE expert
    <2>1. items = [n \in 1..(4 + 1 + D + N) |-> Item(n - 1)]
      <3>1. 5 + D + N = 4 + 1 + D + N
        BY <1>1
      <3> QED
        BY <1>8, <1>17, <3>1
    <2> HIDE DEF items
    <2>2. \A n \in 1..4 : items[n] = base[n]
      <3>1. \A n \in 1..4 : n \in 1..(4 + 1 + D + N)
        BY <1>1
      <3> QED
        BY <1>15, <2>1, <3>1
    <2>3. \A n \in 1..1 : items[4 + n] = size[n]
      <3> SUFFICES ASSUME NEW n \in 1..1 PROVE items[4 + n] = size[n]
        OBVIOUS
      <3>1. n = 1 /\ 4 + n \in 1..(4 + 1 + D + N) /\ 4 + n - 1 = 4
        BY <1>1
      <3> QED
        BY <1>5, <1>12, <2>1, <3>1
    <2>4. \A n \in 1..D : items[4 + 1 + n] = root[n]
      <3> SUFFICES ASSUME NEW n \in 1..D PROVE items[4 + 1 + n] = root[n]
        OBVIOUS
      <3>1. n = 1 /\ D = 1 /\ 4 + 1 + n \in 1..(4 + 1 + D + N) /\ 4 + 1 + n - 1 = 5
        BY <1>1
      <3> QED
        BY <1>5, <1>13, <2>1, <3>1
    <2>5. \A n \in 1..N : items[4 + 1 + D + n] = tags[n]
      <3> SUFFICES ASSUME NEW n \in 1..N PROVE items[4 + 1 + D + n] = tags[n]
        OBVIOUS
      <3> DEFINE m == 4 + 1 + D + n
      <3>1. m \in 1..(4 + 1 + D + N) /\ m - 1 = 4 + D + n
        BY <1>1
      <3> HIDE DEF m
      <3>2. items[m] = Item(m - 1)
        BY <2>1, <3>1
      <3> QED
        BY <1>6, <3>1, <3>2 DEF m
    <2>6. items = [n \in 1..(4 + 1 + D + N) |-> items[n]]
      BY <2>1
    <2>7. FourParts(items, base, size, root, tags)
      BY <1>11, <1>12, <1>13, <1>14, <2>2, <2>3, <2>4, <2>5, <2>6 DEF FourParts
    <2>8. items = base \o (size \o root \o tags)
      <3> DEFINE S == Seq(V)
      <3>1. PartsJoin(S)
        BY AllPartsJoin
      <3>2. base \in S /\ size \in S /\ root \in S /\ tags \in S
        BY <1>11, <1>12, <1>13, <1>14
      <3> HIDE DEF S
      <3> QED
        BY <2>7, <3>1, <3>2 DEF PartsJoin
    <2>9. items = whole
      BY <1>7, <1>17, <2>8
    <2> QED
      BY <2>9 DEF items, whole, t
  <1> QED
    BY <1>16, <1>17
-----------------------------------------------------------------------------
(* The review.                                                             *)

\* What reads another element is under way, and nothing is reviewed yet.
LEMMA ReadIsUnderWay ==
  ASSUME Read
  PROVE  pc \notin {"idle", "ok", "failed"}
  <1>1. ASSUME NEW f \in Fields, ReadField(f) PROVE pc \notin {"idle", "ok", "failed"}
    BY <1>1 DEF ReadField, Fields
  <1>2. ASSUME ReadTagsCount \/ ReadTagKey \/ ReadTagValue
        PROVE  pc \notin {"idle", "ok", "failed"}
    BY <1>2 DEF ReadTagsCount, ReadTagKey, ReadTagValue
  <1> QED
    BY <1>1, <1>2 DEF Read

\* The transaction that parser_tx_obj stands for depends on the buffer and on
\* parser_tx_obj, which stay as they are while it is reviewed.
LEMMA DecodedStays ==
  ASSUME UNCHANGED parserVars
  PROVE  Decoded' = Decoded
  BY DEF parserVars, tx, Decoded, Bytes, ByteAt

\* The invariant: a transaction is shown or signed once it was parsed whole.
ReviewInv ==
    /\ ParserInv
    /\ ReviewTypeOK
    /\ review \in {"shown", "signed"} => pc = "ok"
    /\ DigestIsDeepHash

\* The review adds nothing to the steps of the parser.
LEMMA ReviewStepInv ==
  ASSUME ParserInv, [ReviewNext]_allVars
  PROVE  ParserInv'
  <1>1. CASE Read
    BY <1>1, ReadFieldInv, ReadTagsCountInv, ReadTagKeyInv, ReadTagValueInv DEF Read
  <1>2. ASSUME NEW b \in Inputs, Parse(b) PROVE ParserInv'
    BY <1>2, InputsAssumption, ParseInv DEF ParserInv
  <1>3. CASE UNCHANGED parserVars
    BY <1>3 DEF parserVars, tx, ParserInv, TypeOK, bufferLen, FieldsRead, TagsRead, InBuffer
  <1>4. Read \/ (\E b \in Inputs : Parse(b)) \/ UNCHANGED parserVars
    BY DEF ReviewNext, AppNext, ReadNext, Arrive, Validate, Approve, Reject, ToggleExpert,
           allVars
  <1> QED
    BY <1>1, <1>2, <1>3, <1>4

\* The invariant of the review: that of the parser, the types, that what is shown
\* or signed was parsed whole, and that its digest is its deep hash.
THEOREM ReviewInvariance == ReviewSpec => []ReviewInv
  <1>1. ReviewInit => ReviewInv
    <2> SUFFICES ASSUME ReviewInit PROVE ReviewInv
      OBVIOUS
    <2>1. ParserInv
      BY InitInv DEF ReviewInit
    <2>2. expert \in BOOLEAN /\ review = "none" /\ digest = <<>>
      BY DEF ReviewInit
    <2>3. digest \in Seq(Nat)
      BY <2>2
    <2> QED
      BY <2>1, <2>2, <2>3 DEF ReviewInv, ReviewTypeOK, ParserInv, DigestIsDeepHash
  <1>2. ReviewInv /\ [ReviewNext]_allVars => ReviewInv'
    <2> SUFFICES ASSUME ReviewInv, [ReviewNext]_allVars PROVE ReviewInv'
      OBVIOUS
    <2>1. /\ ParserInv /\ TypeOK /\ expert \in BOOLEAN /\ digest \in Seq(Nat)
          /\ review \in {"none", "shown", "refused", "rejected", "signed"}
          /\ review \in {"shown", "signed"} => pc = "ok"
      BY DEF ReviewInv, ReviewTypeOK
    <2>2. ParserInv' /\ TypeOK'
      BY <2>1, ReviewStepInv DEF ParserInv
    <2>3. CASE ReadNext
      <3>1. review \notin {"shown", "signed"} /\ UNCHANGED <<expert, review, digest>>
        BY <2>1, <2>3, ReadIsUnderWay DEF ReadNext, reviewVars
      <3> QED
        BY <2>1, <2>2, <3>1 DEF ReviewInv, ReviewTypeOK, DigestIsDeepHash
    <2>4. CASE \E b \in Inputs : Arrive(b)
      <3>1. review' = "none" /\ UNCHANGED <<expert, digest>>
        BY <2>4 DEF Arrive
      <3> QED
        BY <2>1, <2>2, <3>1 DEF ReviewInv, ReviewTypeOK, DigestIsDeepHash
    <2>5. CASE Validate
      <3>1. review' \in {"shown", "refused"} /\ pc = "ok" /\ UNCHANGED <<pc, expert, digest>>
        BY <2>5 DEF Validate, parserVars
      <3> QED
        BY <2>1, <2>2, <3>1 DEF ReviewInv, ReviewTypeOK, DigestIsDeepHash
    <2>6. CASE Approve
      <3>1. /\ review = "shown" /\ review' = "signed" /\ digest' = Digest
            /\ UNCHANGED parserVars /\ UNCHANGED expert
        BY <2>6 DEF Approve
      <3>2. pc = "ok" /\ pc' = "ok"
        BY <2>1, <3>1 DEF parserVars
      <3>3. tags_count <= MaxTags
        BY <2>1, <3>2, Ranks DEF ParserInv, TagsRead
      <3>4. digest' = DeepHashOf(Decoded) /\ digest' \in Seq(Nat)
        BY <2>1, <3>1, <3>3, DigestIsDeep
      <3>5. Decoded' = Decoded
        BY <3>1, DecodedStays
      <3>6. DigestIsDeepHash'
        BY <3>4, <3>5 DEF DigestIsDeepHash, DeepHashOf
      <3> QED
        BY <2>1, <2>2, <3>1, <3>2, <3>4, <3>6 DEF ReviewInv, ReviewTypeOK
    <2>7. CASE Reject
      <3>1. review' = "rejected" /\ UNCHANGED <<expert, digest>>
        BY <2>7 DEF Reject
      <3> QED
        BY <2>1, <2>2, <3>1 DEF ReviewInv, ReviewTypeOK, DigestIsDeepHash
    <2>8. CASE ToggleExpert \/ UNCHANGED allVars
      <3>1. /\ UNCHANGED parserVars /\ UNCHANGED <<review, digest>>
            /\ expert' \in BOOLEAN
        BY <2>1, <2>8 DEF ToggleExpert, allVars, reviewVars
      <3>2. Decoded' = Decoded /\ pc' = pc
        BY <3>1, DecodedStays DEF parserVars
      <3>3. DigestIsDeepHash'
        BY <3>1, <3>2 DEF ReviewInv, DigestIsDeepHash, DeepHashOf
      <3> QED
        BY <2>1, <2>2, <3>1, <3>2, <3>3 DEF ReviewInv, ReviewTypeOK
    <2> QED
      BY <2>3, <2>4, <2>5, <2>6, <2>7, <2>8 DEF ReviewNext, AppNext
  <1> QED
    BY <1>1, <1>2, PTL DEF ReviewSpec

\* Every variable of the review keeps its kind.
THEOREM ReviewTypeCorrect == ReviewSpec => []ReviewTypeOK
  BY ReviewInvariance, PTL DEF ReviewInv

\* The parser under review is the parser: what holds of every behaviour of
\* TxParser holds here.
THEOREM ReviewUsesTheParser == ReviewSpec => ParserSpec
  <1>1. ReviewInit => Init
    BY DEF ReviewInit
  <1>2. [ReviewNext]_allVars => [Next]_parserVars
    BY DEF ReviewNext, AppNext, ReadNext, Arrive, Validate, Approve, Reject, ToggleExpert,
           allVars, Next
  <1> QED
    BY <1>1, <1>2, PTL DEF ReviewSpec, ParserSpec

\* Whatever was parsed, what the user is shown are the target, quantity, reward
\* and last transaction in their order, and in expert mode also the data size, the
\* data root if there is one and every tag.
THEOREM ReviewShowsAll == ReviewSpec => []ReviewIsComplete
  <1>1. ReviewInv => ReviewIsComplete
    BY ItemsAreReview DEF ReviewInv, ReviewTypeOK, ReviewIsComplete
  <1> QED
    BY <1>1, ReviewInvariance, PTL

\* Whatever was parsed, the digest that is signed is the deep hash of it.
THEOREM SignsDeepHash == ReviewSpec => []DigestIsDeepHash
  BY ReviewInvariance, PTL DEF ReviewInv
-----------------------------------------------------------------------------
(* What was read is what the package writes.                               *)

LEMMA ReadEncoded ==
  ASSUME ByteSize = 256, ParserInv, EncodedInv, Read
  PROVE  EncodedInv'
  <1>1. ASSUME NEW f \in Fields, ReadField(f) PROVE EncodedInv'
    BY <1>1, ReadFieldEncoded
  <1>2. CASE ReadTagsCount
    BY <1>2, ReadTagsCountEncoded
  <1>3. CASE ReadTagKey
    BY <1>3, ReadTagKeyEncoded
  <1>4. CASE ReadTagValue
    BY <1>4, ReadTagValueEncoded
  <1> QED
    BY <1>1, <1>2, <1>3, <1>4 DEF Read

\* The steps of the review keep it.
LEMMA AppEncoded ==
  ASSUME ByteSize = 256, ParserInv, EncodedInv, AppNext \/ UNCHANGED allVars
  PROVE  EncodedInv'
  <1>1. CASE Read
    BY <1>1, ReadEncoded
  <1>2. CASE UNCHANGED parserVars
    BY <1>2, EncodedStays
  <1>3. Read \/ UNCHANGED parserVars
    BY DEF AppNext, ReadNext, Validate, Approve, Reject, ToggleExpert, allVars
  <1> QED
    BY <1>1, <1>2, <1>3

\* With the bytes of the code: a parse that succeeds, of whatever was sent and
\* whatever was parsed before it, has read the encoding of the transaction it
\* has found, without a gap or an overlap.
THEOREM ParsesEncoding ==
  ASSUME ByteSize = 256
  PROVE  ReviewSpec => []ParsedIsEncoded
  <1>1. ReviewInit => EncodedInv
    BY DEF ReviewInit, Init, EncodedInv
  <1>2. ReviewInv /\ EncodedInv /\ [ReviewNext]_allVars => EncodedInv'
    <2> SUFFICES ASSUME ReviewInv, EncodedInv, [ReviewNext]_allVars PROVE EncodedInv'
      OBVIOUS
    <2>1. ParserInv
      BY DEF ReviewInv
    <2>2. CASE AppNext \/ UNCHANGED allVars
      BY <2>1, <2>2, AppEncoded
    <2>3. ASSUME NEW b \in Inputs, Arrive(b) PROVE EncodedInv'
      BY <2>1, <2>3, InputsAssumption, ParseEncoded DEF Arrive, ParserInv
    <2> QED
      BY <2>2, <2>3 DEF ReviewNext
  <1>3. ReviewInv /\ EncodedInv => ParsedIsEncoded
    BY EncodedIsParsed DEF ReviewInv, ParsedIsEncoded, BufferTo
  <1> QED
    BY <1>1, <1>2, <1>3, ReviewInvariance, PTL DEF ReviewSpec
-----------------------------------------------------------------------------
(* The chunks.                                                             *)

\* The transactions of sign() are among those that can be written.
LEMMA TransactionsAreWritten ==
  Transaction \subseteq WrittenTx
  <1> DEFINE Pair == [name : Seq(Byte), value : Seq(Byte)]
  <1>1. Seq(Byte) \subseteq Octets
    BY BytesAreOctets
  <1>2. Pair \subseteq Tagged
    BY <1>1 DEF Tagged
  <1> HIDE DEF Pair
  <1>3. Seq(Pair) \subseteq Seq(Tagged)
    BY <1>2, SeqMonotonic
  <1>4. Transaction =
          [format : Seq(Byte), owner : Seq(Byte), target : Seq(Byte), quantity : Seq(Byte),
           reward : Seq(Byte), last_tx : Seq(Byte), tags : Seq(Pair),
           data_size : Seq(Byte), data_root : Seq(Byte)]
    BY DEF Transaction, Pair
  <1> DEFINE A == Seq(Byte)
             B == Seq(Pair)
             C == Seq(Tagged)
  <1> HIDE DEF A, B, C
  <1>5. A \subseteq Octets /\ B \subseteq C
    BY <1>1, <1>3 DEF A, B, C
  <1>6. Transaction = [format : A, owner : A, target : A, quantity : A, reward : A,
                       last_tx : A, tags : B, data_size : A, data_root : A]
    BY <1>4 DEF A, B
  <1>7. WrittenTx = [format : Octets, owner : Octets, target : Octets, quantity : Octets,
                     reward : Octets, last_tx : Octets, tags : C, data_size : Octets,
                     data_root : Octets]
    BY DEF WrittenTx, C
  <1> QED
    BY <1>5, <1>6, <1>7

\* How many chunks there are of l bytes, and where the n-th of them ends.
Quotient(l) == (l + ChunkSize - 1) \div ChunkSize
Cut(l, n) == IF n * ChunkSize > l THEN l ELSE n * ChunkSize

LEMMA QuotientBounds ==
  ASSUME NEW l \in Nat \ {0}
  PROVE  /\ Quotient(l) \in Nat \ {0} /\ Quotient(l) * ChunkSize >= l
         /\ (Quotient(l) - 1) * ChunkSize < l
  <1> DEFINE C == ChunkSize
             m == l + C - 1
             q == m \div C
  <1>a. C \in Nat \ {0}
    BY ChunkSizeAssumption
  <1> HIDE DEF C
  <1>1. m \in Nat /\ m >= C
    BY <1>a
  <1>2. m = C * q + (m % C) /\ m % C \in 0..(C - 1) /\ q \in Nat
    BY <1>a, <1>1
  <1>3. q # 0
    BY <1>a, <1>1, <1>2
  <1>4. q * C = C * q /\ (q - 1) * C = C * q - C
    BY <1>a, <1>2
  <1>5. q \in Nat \ {0} /\ q * C >= l /\ (q - 1) * C < l
    BY <1>a, <1>1, <1>2, <1>3, <1>4
  <1>6. q = Quotient(l)
    BY DEF Quotient, C
  <1> QED
    BY <1>5, <1>6 DEF C

\* Every chunk but the last is cut at a multiple of the size.
LEMMA CutBounds ==
  ASSUME NEW l \in Nat \ {0}, NEW n \in 1..Quotient(l)
  PROVE  /\ Cut(l, n - 1) = (n - 1) * ChunkSize /\ Cut(l, n - 1) \in 0..l
         /\ Cut(l, n) \in Cut(l, n - 1)..l
         /\ Cut(l, Quotient(l)) = l
  <1> DEFINE C == ChunkSize
             q == Quotient(l)
  <1>a. C \in Nat \ {0}
    BY ChunkSizeAssumption
  <1>1. q \in Nat \ {0} /\ q * C >= l /\ (q - 1) * C < l
    BY QuotientBounds
  <1>2. n \in 1..q
    OBVIOUS
  <1>3. Cut(l, n - 1) = (IF (n - 1) * C > l THEN l ELSE (n - 1) * C)
        /\ Cut(l, n) = (IF n * C > l THEN l ELSE n * C)
        /\ Cut(l, q) = (IF q * C > l THEN l ELSE q * C)
    BY DEF Cut
  <1> HIDE DEF C, q
  <1>4. (n - 1) * C <= (q - 1) * C
    <2>1. n - 1 \in Nat /\ q - 1 \in Nat /\ n - 1 <= q - 1
      BY <1>1, <1>2
    <2> QED
      BY <1>a, <2>1
  <1>5. n * C = (n - 1) * C + C /\ (n - 1) * C \in Nat /\ q * C \in Nat /\ (q - 1) * C \in Nat
    BY <1>a, <1>1, <1>2
  <1> QED
    BY <1>a, <1>1, <1>3, <1>4, <1>5 DEF C, q

\* The first so many bytes of the encoding.
SentTo(m, n) == SubSeq(EncodeTx(m), 1, Cut(Len(EncodeTx(m)), n))

\* The chunks of a message: one that is not read, and the cuts of its encoding.
LEMMA ChunksAre ==
  ASSUME NEW m \in Transaction
  PROVE  LET bytes == EncodeTx(m)
             l == Len(bytes)
             q == Quotient(l)
         IN /\ l \in Nat \ {0} /\ q \in Nat \ {0} /\ bytes \in Octets
            /\ Len(PrepareChunks(m)) = q + 1
            /\ \A n \in 1..q : /\ PrepareChunks(m)[n + 1] \in Octets
                               /\ PrepareChunks(m)[n + 1]
                                    = SubSeq(bytes, Cut(l, n - 1) + 1, Cut(l, n))
  <1> DEFINE bytes == EncodeTx(m)
             l == Len(bytes)
             q == Quotient(l)
             data == [n \in 1..q |-> SubSeq(bytes, (n - 1) * ChunkSize + 1, Cut(l, n))]
             first == <<<<0>>>>
  <1>1. bytes \in Octets /\ l \in Nat \ {0}
    BY TransactionsAreWritten, EncodingOctets
  <1>2. PrepareChunks(m) = first \o data
    BY DEF PrepareChunks, Quotient, Cut
  <1> HIDE DEF bytes
  <1>3. q \in Nat \ {0}
    BY <1>1, QuotientBounds
  <1>4. ASSUME NEW n \in 1..q
        PROVE  /\ SubSeq(bytes, (n - 1) * ChunkSize + 1, Cut(l, n)) \in Octets
               /\ (n - 1) * ChunkSize = Cut(l, n - 1)
    <2> DEFINE a == Cut(l, n - 1)
               b == Cut(l, n)
    <2>1. a = (n - 1) * ChunkSize /\ a \in 0..l /\ b \in a..l
      BY <1>1, CutBounds
    <2> HIDE DEF a, b
    <2>2. SubSeq(bytes, a + 1, b) \in Octets
      <3>1. a \in Nat /\ b \in Nat /\ \A k \in (a + 1)..b : k \in 1..Len(bytes)
        BY <1>1, <2>1
      <3> QED
        BY <1>1, <3>1 DEF Octets
    <2> QED
      BY <2>1, <2>2 DEF a, b
  <1> HIDE DEF l, q
  <1>5. data \in [1..q -> Octets]
    BY <1>4
  <1>6. data \in Seq(Octets) /\ Len(data) = q
    BY <1>3, <1>5
  <1>7. first \in Seq({<<0>>}) /\ Len(first) = 1
    OBVIOUS
  <1>8. \A n \in 1..q : /\ data[n] = SubSeq(bytes, Cut(l, n - 1) + 1, Cut(l, n))
                       /\ data[n] \in Octets
    BY <1>4
  <1> HIDE DEF first, data
  <1> DEFINE V == Octets \cup {<<0>>}
  <1>9. first \in Seq(V) /\ data \in Seq(V)
    <2>1. Octets \subseteq V /\ {<<0>>} \subseteq V
      OBVIOUS
    <2> HIDE DEF V
    <2> QED
      BY <1>6, <1>7, <2>1, SeqMonotonic
  <1> HIDE DEF V
  <1>10. Len(first \o data) = 1 + q /\ \A n \in 1..q : (first \o data)[1 + n] = data[n]
    <2>1. /\ Len(first \o data) = Len(first) + Len(data)
          /\ \A n \in 1..Len(data) : (first \o data)[Len(first) + n] = data[n]
      BY <1>9, Concat
    <2> QED
      BY <1>6, <1>7, <2>1
  <1>11. \A n \in 1..q : 1 + n = n + 1
    BY <1>3
  <1>12. 1 + q = q + 1
    BY <1>3
  <1>13. Len(PrepareChunks(m)) = q + 1
    BY <1>2, <1>10, <1>12
  <1>14. \A n \in 1..q : PrepareChunks(m)[n + 1] = data[n]
    BY <1>2, <1>10, <1>11
  <1> QED
    BY <1>1, <1>3, <1>8, <1>13, <1>14 DEF bytes, l, q

\* One more chunk.
LEMMA ChunkAdds ==
  ASSUME NEW m \in Transaction, NEW n \in 1..Quotient(Len(EncodeTx(m)))
  PROVE  /\ SentTo(m, n) = SentTo(m, n - 1) \o PrepareChunks(m)[n + 1]
         /\ SentTo(m, n - 1) \in Octets
  <1> DEFINE bytes == EncodeTx(m)
             l == Len(bytes)
             a == Cut(l, n - 1)
             b == Cut(l, n)
  <1>1. bytes \in Octets /\ l \in Nat \ {0} /\ PrepareChunks(m)[n + 1] = SubSeq(bytes, a + 1, b)
    BY ChunksAre
  <1>2. a \in 0..l /\ b \in a..l
    BY <1>1, CutBounds
  <1>3. SentTo(m, n) = SubSeq(bytes, 1, b) /\ SentTo(m, n - 1) = SubSeq(bytes, 1, a)
    BY DEF SentTo
  <1> HIDE DEF bytes, a, b
  <1>4. SubSeq(bytes, 1, b) = SubSeq(bytes, 1, a) \o SubSeq(bytes, a + 1, b)
    <2>1. 1 \in 1..(Len(bytes) + 1) /\ a \in (1 - 1)..Len(bytes) /\ b \in a..Len(bytes)
      BY <1>1, <1>2
    <2> QED
      BY <1>1, <2>1, ConcatAdjacentSubSeq DEF Octets
  <1>5. SubSeq(bytes, 1, a) \in Octets
    <2>1. a \in Nat /\ \A k \in 1..a : k \in 1..Len(bytes)
      BY <1>1, <1>2
    <2> QED
      BY <1>1, <2>1 DEF Octets
  <1> QED
    BY <1>1, <1>3, <1>4, <1>5

\* Nothing is sent at first, and everything with the last chunk.
LEMMA SentEnds ==
  ASSUME NEW m \in Transaction
  PROVE  SentTo(m, 0) = <<>> /\ SentTo(m, Quotient(Len(EncodeTx(m)))) = EncodeTx(m)
  <1> DEFINE bytes == EncodeTx(m)
             l == Len(bytes)
             q == Quotient(l)
  <1>1. bytes \in Octets /\ l \in Nat \ {0} /\ q \in Nat \ {0}
    BY ChunksAre
  <1>2. Cut(l, 1 - 1) = (1 - 1) * ChunkSize /\ Cut(l, q) = l
    <2>1. 1 \in 1..q
      BY <1>1
    <2> QED
      BY <1>1, <2>1, CutBounds
  <1>3. Cut(l, 0) = 0
    BY <1>2, ChunkSizeAssumption
  <1>4. SentTo(m, 0) = SubSeq(bytes, 1, 0) /\ SentTo(m, q) = SubSeq(bytes, 1, l)
    BY <1>2, <1>3 DEF SentTo
  <1> HIDE DEF bytes, q
  <1>5. SubSeq(bytes, 1, 0) = <<>> /\ SubSeq(bytes, 1, l) = bytes
    BY <1>1 DEF Octets
  <1> QED
    BY <1>4, <1>5 DEF bytes, q

\* The invariant of the transport: until its last chunk was sent or refused, the
\* buffer holds the chunks of the message that were sent.
ChunksInv ==
    /\ message \in Messages
    /\ sent \in 0..(Len(Chunks) + 1)
    /\ sent \in 1..Len(Chunks) => buffer = SentTo(message, sent - 1)

\* What sending a chunk does.
LEMMA SendChunkSends ==
  ASSUME ChunksInv, SendChunk
  PROVE  /\ ~Busy /\ message' = message /\ sent' = sent + 1 /\ sent' \in 1..Len(Chunks)
         /\ buffer' = SentTo(message, sent)
         /\ \/ sent' < Len(Chunks) /\ UNCHANGED <<offset, tx, pc, i, parses, reviewVars>>
            \/ /\ sent' = Len(Chunks) /\ Arrive(SentTo(message, sent))
               /\ Len(SentTo(message, sent)) <= Capacity
  <1> DEFINE q == Quotient(Len(EncodeTx(message)))
             chunk == Chunks[sent + 1]
             payloadType == PayloadType(sent + 1, Len(Chunks))
  <1>1. message \in Transaction
    BY MessagesAssumption DEF ChunksInv
  <1>2. q \in Nat \ {0} /\ Len(Chunks) = q + 1
    BY <1>1, ChunksAre DEF Chunks
  <1>3. /\ ~Busy /\ sent < Len(Chunks) /\ sent' = sent + 1 /\ message' = message
        /\ \/ Collect(payloadType, chunk)
           \/ payloadType = P1_LAST /\ Fits(chunk) /\ Arrive(buffer \o chunk)
    BY DEF SendChunk
  <1> HIDE DEF q
  <1>4. sent \in 0..q /\ sent' \in 1..Len(Chunks)
    BY <1>2, <1>3 DEF ChunksInv
  <1>5. CASE sent = 0
    <2>1. payloadType = P1_INIT
      BY <1>2, <1>5 DEF PayloadType
    <2>2. buffer' = <<>> /\ UNCHANGED <<offset, tx, pc, i, parses, reviewVars>>
      BY <1>3, <2>1 DEF Collect, P1_INIT, P1_ADD, P1_LAST
    <2>3. SentTo(message, sent) = <<>>
      BY <1>1, <1>5, SentEnds
    <2> QED
      BY <1>2, <1>3, <1>4, <1>5, <2>2, <2>3
  <1>6. CASE sent # 0
    <2>1. sent \in 1..q /\ sent \in 1..Len(Chunks)
      BY <1>2, <1>4, <1>6
    <2>2. /\ buffer = SentTo(message, sent - 1) /\ buffer \in Octets
          /\ SentTo(message, sent) = buffer \o chunk
      BY <1>1, <2>1, ChunkAdds DEF ChunksInv, q, Chunks
    <2>3. chunk \in Octets
      BY <1>1, <2>1, ChunksAre DEF q, Chunks
    <2>4. payloadType = IF sent = q THEN P1_LAST ELSE P1_ADD
      BY <1>2, <1>4, <1>6 DEF PayloadType
    <2>5. CASE sent = q
      <3>1. Fits(chunk) /\ Arrive(buffer \o chunk)
        BY <1>3, <2>4, <2>5 DEF Collect, P1_INIT, P1_ADD, P1_LAST
      <3>2. buffer' = buffer \o chunk
        BY <3>1 DEF Arrive, Parse
      <3>3. Len(buffer \o chunk) <= Capacity
        BY <2>2, <2>3, <3>1, JoinOctets DEF Fits
      <3> QED
        BY <1>2, <1>3, <1>4, <2>2, <2>5, <3>1, <3>2, <3>3
    <2>6. CASE sent # q
      <3>1. buffer' = buffer \o chunk /\ UNCHANGED <<offset, tx, pc, i, parses, reviewVars>>
        BY <1>3, <2>4, <2>6 DEF Collect, P1_INIT, P1_ADD, P1_LAST
      <3>2. sent' < Len(Chunks)
        BY <1>2, <1>3, <1>4, <2>6
      <3> QED
        BY <1>3, <1>4, <2>2, <3>1, <3>2
    <2> QED
      BY <2>5, <2>6
  <1> QED
    BY <1>5, <1>6

\* The steps of the app leave the buffer alone.
LEMMA AppKeepsBuffer ==
  ASSUME AppNext
  PROVE  buffer' = buffer
  BY DEF AppNext, ReadNext, Read, ReadField, ReadTagsCount, ReadTagKey, ReadTagValue,
         Validate, Approve, Reject, ToggleExpert, parserVars

LEMMA ChunksInit == TransferInit => ChunksInv
  <1> SUFFICES ASSUME TransferInit PROVE ChunksInv
    OBVIOUS
  <1>1. message \in Messages /\ sent = 0
    BY DEF TransferInit
  <1>2. Len(Chunks) \in Nat
    <2> DEFINE q == Quotient(Len(EncodeTx(message)))
    <2>1. q \in Nat /\ Len(Chunks) = q + 1
      BY <1>1, MessagesAssumption, ChunksAre DEF Chunks
    <2> QED
      BY <2>1
  <1>3. sent \in 0..(Len(Chunks) + 1) /\ sent \notin 1..Len(Chunks)
    BY <1>1, <1>2
  <1> QED
    BY <1>1, <1>3 DEF ChunksInv

LEMMA ChunksStep ==
  ASSUME ChunksInv, [TransferNext]_transferVars
  PROVE  ChunksInv'
  <1>0. Len(Chunks) \in Nat \ {0} /\ (message' \in Messages => Len(Chunks)' \in Nat \ {0})
    <2>1. ASSUME NEW m \in Messages PROVE Len(PrepareChunks(m)) \in Nat \ {0}
      <3> DEFINE q == Quotient(Len(EncodeTx(m)))
      <3>1. q \in Nat \ {0} /\ Len(PrepareChunks(m)) = q + 1
        BY MessagesAssumption, ChunksAre
      <3> QED
        BY <3>1
    <2> QED
      BY <2>1 DEF Chunks, ChunksInv
  <1>1. CASE SendChunk
    <2>1. /\ message' = message /\ sent' = sent + 1 /\ sent' \in 1..Len(Chunks)
          /\ buffer' = SentTo(message, sent)
      BY <1>1, SendChunkSends
    <2>2. Len(Chunks)' = Len(Chunks)
      BY <2>1 DEF Chunks
    <2>3. sent' - 1 = sent
      BY <2>1 DEF ChunksInv
    <2>4. SentTo(message, sent - 1)' = SentTo(message, sent)
      BY <2>1, <2>3 DEF SentTo
    <2>5. sent' \in 0..(Len(Chunks)' + 1)
      BY <1>0, <2>1, <2>2
    <2> QED
      BY <2>1, <2>4, <2>5 DEF ChunksInv
  <1>2. CASE Overflow
    <2>1. message' = message /\ sent' = Len(Chunks) + 1
      BY <1>2 DEF Overflow
    <2>2. Len(Chunks)' = Len(Chunks)
      BY <2>1 DEF Chunks
    <2>3. sent' \in 0..(Len(Chunks)' + 1) /\ sent' \notin 1..Len(Chunks)'
      BY <1>0, <2>1, <2>2
    <2> QED
      BY <2>1, <2>3 DEF ChunksInv
  <1>3. CASE SignAnother
    <2>1. message' \in Messages /\ sent' = 0
      BY <1>3 DEF SignAnother
    <2>2. sent' \in 0..(Len(Chunks)' + 1) /\ sent' \notin 1..Len(Chunks)'
      BY <1>0, <2>1
    <2> QED
      BY <2>1, <2>2 DEF ChunksInv
  <1>4. CASE (AppNext /\ UNCHANGED <<message, sent>>) \/ UNCHANGED transferVars
    <2>1. UNCHANGED <<message, sent, buffer>>
      BY <1>4, AppKeepsBuffer DEF transferVars, allVars, parserVars
    <2> QED
      BY <2>1 DEF ChunksInv, Chunks, SentTo
  <1> QED
    BY <1>1, <1>2, <1>3, <1>4 DEF TransferNext

\* Of every message, and whatever the size of a chunk: the chunks that the app
\* has joined when the last of them was sent are the encoding.
THEOREM ChunksAreJoined == TransferSpec => []ChunksJoin
  <1>1. TransferInit => ChunksInv
    BY ChunksInit
  <1>2. ChunksInv /\ [TransferNext]_transferVars => ChunksInv'
    BY ChunksStep
  <1>3. ChunksInv => ChunksJoin
    <2> SUFFICES ASSUME ChunksInv, Arrived PROVE buffer = EncodeTx(message)
      BY DEF ChunksJoin
    <2> DEFINE q == Quotient(Len(EncodeTx(message)))
    <2>1. message \in Transaction /\ sent = Len(Chunks)
      BY MessagesAssumption DEF ChunksInv, Arrived
    <2>2. q \in Nat \ {0} /\ Len(Chunks) = q + 1
      BY <2>1, ChunksAre DEF Chunks
    <2>3. sent \in 1..Len(Chunks) /\ sent - 1 = q
      BY <2>1, <2>2
    <2> QED
      BY <2>1, <2>3, SentEnds DEF ChunksInv
  <1> QED
    BY <1>1, <1>2, <1>3, PTL DEF TransferSpec
-----------------------------------------------------------------------------
(* What is reviewed is what was sent.                                      *)

\* A transaction that was parsed has no length but those of 16 bits.
LEMMA DecodedIsShort ==
  ASSUME TypeOK, tags_count <= MaxTags
  PROVE  Decoded \in WrittenTx /\ ShortTx(Decoded)
  <1> DEFINE t == Decoded
  <1>1. ASSUME NEW e \in Element
        PROVE  Bytes(e) \in Octets /\ Len(Bytes(e)) < U16
    <2>1. buffer \in Seq(Byte)
      BY DEF TypeOK
    <2>2. Bytes(e) \in Octets /\ Len(Bytes(e)) = e.len
      BY <2>1, BytesInSeq, BytesAreOctets
    <2>3. e.len < U16
      BY Words DEF Element, Word
    <2> QED
      BY <2>2, <2>3
  <1>2. ASSUME NEW f \in Fields
        PROVE  Bytes(element[f]) \in Octets /\ Len(Bytes(element[f])) < U16
    BY <1>1 DEF TypeOK
  <1>3. tags_count \in Nat /\ tags_count < U16 /\ MaxTags \in Nat
    BY Words, SizesAssumption DEF TypeOK, Word
  <1>4. ASSUME NEW n \in 1..tags_count
        PROVE  /\ Bytes(tagKey[n - 1]) \in Octets /\ Len(Bytes(tagKey[n - 1])) < U16
               /\ Bytes(tagValue[n - 1]) \in Octets /\ Len(Bytes(tagValue[n - 1])) < U16
    <2>1. n - 1 \in Tags
      BY <1>3 DEF Tags
    <2>2. tagKey[n - 1] \in Element /\ tagValue[n - 1] \in Element
      BY <2>1 DEF TypeOK
    <2> QED
      BY <1>1, <2>2
  <1>5. t.tags = [n \in 1..tags_count |-> [name |-> Bytes(tagKey[n - 1]),
                                           value |-> Bytes(tagValue[n - 1])]]
    BY DEF Decoded
  <1>6. t.tags \in Seq(Tagged) /\ Len(t.tags) = tags_count
    <2>1. t.tags \in [1..tags_count -> Tagged]
      BY <1>4, <1>5 DEF Tagged
    <2> QED
      BY <1>3, <2>1
  <1>7. Short(t.tags)
    <2> SUFFICES ASSUME NEW n \in 1..tags_count
                 PROVE  Len(t.tags[n].name) < U16 /\ Len(t.tags[n].value) < U16
      BY <1>6 DEF Short
    <2>1. t.tags[n] = [name |-> Bytes(tagKey[n - 1]), value |-> Bytes(tagValue[n - 1])]
      BY <1>5
    <2> HIDE DEF t
    <2> QED
      BY <1>4, <2>1
  <1>8. /\ t.format = Bytes(element["format"]) /\ t.owner = Bytes(element["owner"])
        /\ t.target = Bytes(element["target"]) /\ t.quantity = Bytes(element["quantity"])
        /\ t.reward = Bytes(element["reward"]) /\ t.last_tx = Bytes(element["last_tx"])
        /\ t.data_size = Bytes(element["data_size"])
        /\ t.data_root = Bytes(element["data_root"])
    BY DEF Decoded
  <1>9. t = [format |-> t.format, owner |-> t.owner, target |-> t.target,
             quantity |-> t.quantity, reward |-> t.reward, last_tx |-> t.last_tx,
             tags |-> t.tags, data_size |-> t.data_size, data_root |-> t.data_root]
    BY DEF Decoded
  <1> HIDE DEF t
  <1>10. /\ t.format \in Octets /\ t.owner \in Octets /\ t.target \in Octets
         /\ t.quantity \in Octets /\ t.reward \in Octets /\ t.last_tx \in Octets
         /\ t.data_size \in Octets /\ t.data_root \in Octets
    BY <1>2, <1>8 DEF Fields
  <1>11. \A f \in Texts : Len(t[f]) < U16
    BY <1>2, <1>8 DEF Fields, Texts
  <1>12. t \in WrittenTx
    BY <1>6, <1>9, <1>10 DEF WrittenTx
  <1> QED
    BY <1>3, <1>6, <1>7, <1>11, <1>12 DEF ShortTx, t

\* The invariant: a transaction is under way in the app only when its last chunk
\* was sent, and then the buffer, which was long enough, holds what was read.
TransferInv ==
    /\ TypeOK
    /\ ChunksInv
    /\ review \in {"shown", "signed"} => pc = "ok"
    /\ ~Arrived => ~Busy
    /\ Arrived => ParserInv /\ EncodedInv /\ Len(buffer) <= Capacity

LEMMA ChunksCount ==
  ASSUME NEW m \in Messages
  PROVE  Len(PrepareChunks(m)) \in Nat \ {0}
  <1> DEFINE q == Quotient(Len(EncodeTx(m)))
  <1>1. q \in Nat \ {0} /\ Len(PrepareChunks(m)) = q + 1
    BY MessagesAssumption, ChunksAre
  <1> QED
    BY <1>1

\* What is sent are bytes.
LEMMA SentBytes ==
  ASSUME ByteSize = 256, NEW m \in Transaction, NEW n \in 0..Quotient(Len(EncodeTx(m)))
  PROVE  SentTo(m, n) \in Seq(Byte)
  <1> DEFINE q == Quotient(Len(EncodeTx(m)))
  <1>1. Octets = Seq(Byte)
    <2>1. Octet = Byte
      BY DEF Octet, Byte
    <2> QED
      BY <2>1 DEF Octets
  <1>2. q \in Nat \ {0}
    BY ChunksAre
  <1> HIDE DEF q
  <1>3. CASE n = q
    BY <1>1, <1>3, ChunksAre, SentEnds DEF q
  <1>4. CASE n # q
    <2>1. n + 1 \in 1..q /\ (n + 1) - 1 = n
      BY <1>2, <1>4 DEF q
    <2>2. SentTo(m, (n + 1) - 1) \in Octets
      BY <2>1, ChunkAdds DEF q
    <2> QED
      BY <1>1, <2>1, <2>2
  <1> QED
    BY <1>3, <1>4

LEMMA SendChunkInv ==
  ASSUME ByteSize = 256, TransferInv, SendChunk
  PROVE  TransferInv'
  <1> DEFINE b == SentTo(message, sent)
             q == Quotient(Len(EncodeTx(message)))
  <1>1. TypeOK /\ ChunksInv /\ (review \in {"shown", "signed"} => pc = "ok")
    BY DEF TransferInv
  <1>2. ChunksInv'
    BY <1>1, ChunksStep DEF TransferNext
  <1>3. /\ ~Busy /\ message' = message /\ sent' = sent + 1 /\ sent' \in 1..Len(Chunks)
        /\ buffer' = b
        /\ \/ sent' < Len(Chunks) /\ UNCHANGED <<offset, tx, pc, i, parses, reviewVars>>
           \/ /\ sent' = Len(Chunks) /\ Arrive(b) /\ Len(b) <= Capacity
    BY <1>1, SendChunkSends
  <1>4. b \in Seq(Byte)
    <2>1. message \in Transaction
      BY <1>1, MessagesAssumption DEF ChunksInv
    <2>2. Len(Chunks) = q + 1 /\ q \in Nat
      BY <2>1, ChunksAre DEF Chunks
    <2> HIDE DEF q
    <2>3. sent \in 0..q
      BY <1>1, <1>3, <2>2 DEF ChunksInv
    <2> QED
      BY <2>1, <2>3, SentBytes DEF q
  <1> HIDE DEF b
  <1>5. Len(Chunks)' = Len(Chunks) /\ Len(Chunks) \in Nat
    BY <1>1, <1>3, ChunksCount DEF Chunks, ChunksInv
  <1>6. CASE sent' < Len(Chunks) /\ UNCHANGED <<offset, tx, pc, i, parses, reviewVars>>
    <2>1. ~Arrived'
      BY <1>3, <1>5, <1>6 DEF Arrived
    <2>2. ~Busy' /\ (review' \in {"shown", "signed"} => pc' = "ok")
      BY <1>1, <1>3, <1>6 DEF Busy, reviewVars
    <2>3. TypeOK'
      BY <1>1, <1>3, <1>4, <1>6 DEF TypeOK, tx
    <2> QED
      BY <1>2, <2>1, <2>2, <2>3 DEF TransferInv
  <1>7. CASE sent' = Len(Chunks) /\ Arrive(b) /\ Len(b) <= Capacity
    <2>1. Parse(b) /\ review' = "none"
      BY <1>7 DEF Arrive
    <2>2. ParserInv' /\ EncodedInv'
      BY <1>1, <1>4, <2>1, ParseInv, ParseEncoded
    <2>3. Arrived' /\ Len(buffer') <= Capacity
      BY <1>3, <1>5, <1>7 DEF Arrived
    <2> QED
      BY <1>2, <2>1, <2>2, <2>3 DEF TransferInv, ParserInv
  <1> QED
    BY <1>3, <1>6, <1>7

LEMMA AppStepInv ==
  ASSUME ByteSize = 256, TransferInv, AppNext \/ UNCHANGED allVars,
         UNCHANGED <<message, sent>>
  PROVE  TransferInv'
  <1>1. TypeOK /\ ChunksInv /\ (review \in {"shown", "signed"} => pc = "ok")
    BY DEF TransferInv
  <1>2. ChunksInv'
    BY <1>1, ChunksStep DEF TransferNext, transferVars
  <1>3. Arrived' = Arrived
    BY DEF Arrived, Chunks
  <1>4. CASE Arrived
    <2>1. ParserInv /\ EncodedInv /\ Len(buffer) <= Capacity
      BY <1>4 DEF TransferInv
    <2>2. ParserInv'
      BY <2>1, ReviewStepInv DEF ReviewNext
    <2>3. EncodedInv'
      BY <2>1, AppEncoded
    <2>4. buffer' = buffer
      BY AppKeepsBuffer DEF allVars, parserVars
    <2>5. review' \in {"shown", "signed"} => pc' = "ok"
      <3>1. CASE ReadNext
        BY <1>1, <3>1, ReadIsUnderWay DEF ReadNext, reviewVars
      <3>2. CASE Validate \/ Approve \/ Reject \/ ToggleExpert \/ UNCHANGED allVars
        BY <1>1, <3>2 DEF Validate, Approve, Reject, ToggleExpert, allVars, parserVars,
                          reviewVars
      <3> QED
        BY <3>1, <3>2 DEF AppNext
    <2> QED
      BY <1>2, <1>3, <1>4, <2>1, <2>2, <2>3, <2>4, <2>5 DEF TransferInv, ParserInv
  <1>5. CASE ~Arrived
    <2>1. ~Busy
      BY <1>5 DEF TransferInv
    <2>2. UNCHANGED parserVars /\ review' = review
      <3>1. ~ReadNext
        BY <2>1, ReadIsUnderWay DEF ReadNext, Busy
      <3>2. ~Validate /\ ~Approve /\ ~Reject
        BY <1>1, <2>1 DEF Validate, Approve, Reject, Busy
      <3> QED
        BY <3>1, <3>2 DEF AppNext, ToggleExpert, allVars, reviewVars
    <2>3. TypeOK'
      BY <1>1, <2>2 DEF TypeOK, parserVars, tx
    <2>4. ~Busy' /\ (review' \in {"shown", "signed"} => pc' = "ok")
      BY <1>1, <2>1, <2>2 DEF Busy, parserVars
    <2> QED
      BY <1>2, <1>3, <1>5, <2>3, <2>4 DEF TransferInv
  <1> QED
    BY <1>4, <1>5

LEMMA TransferStep ==
  ASSUME ByteSize = 256, TransferInv, [TransferNext]_transferVars
  PROVE  TransferInv'
  <1>1. TypeOK /\ ChunksInv /\ (review \in {"shown", "signed"} => pc = "ok")
    BY DEF TransferInv
  <1>2. ChunksInv'
    BY <1>1, ChunksStep
  <1>3. Len(Chunks)' \in Nat \ {0}
    BY <1>2, ChunksCount DEF ChunksInv, Chunks
  <1>4. CASE Overflow \/ SignAnother
    <2>1. ~Busy /\ UNCHANGED allVars
      BY <1>4 DEF Overflow, SignAnother
    <2>2. ~Arrived'
      <3>1. CASE Overflow
        <4>1. sent' = Len(Chunks) + 1 /\ Len(Chunks)' = Len(Chunks)
          BY <3>1 DEF Overflow, Chunks
        <4> QED
          BY <1>3, <4>1 DEF Arrived
      <3>2. CASE SignAnother
        BY <1>3, <3>2 DEF SignAnother, Arrived
      <3> QED
        BY <1>4, <3>1, <3>2
    <2>3. TypeOK'
      BY <1>1, <2>1 DEF TypeOK, allVars, parserVars, tx
    <2>4. ~Busy' /\ (review' \in {"shown", "signed"} => pc' = "ok")
      BY <1>1, <2>1 DEF Busy, allVars, parserVars, reviewVars
    <2> QED
      BY <1>2, <2>2, <2>3, <2>4 DEF TransferInv
  <1> QED
    BY <1>4, SendChunkInv, AppStepInv DEF TransferNext, transferVars

\* With the bytes of the code, and for every message: the transaction that the
\* user reviews and signs is the argument of sign(), field by field and tag by
\* tag.  A field whose length does not fit 16 bits has no room in the buffer, so
\* that no message is ever taken for another.
THEOREM ReviewsTheMessage ==
  ASSUME ByteSize = 256
  PROVE  TransferSpec => []MessageIsReviewed
  <1>1. TransferInit => TransferInv
    <2> SUFFICES ASSUME TransferInit PROVE TransferInv
      OBVIOUS
    <2>1. ChunksInv
      BY ChunksInit
    <2>2. TypeOK /\ pc = "idle" /\ review = "none"
      BY InitInv DEF TransferInit, ReviewInit, Init, ParserInv
    <2>3. ~Arrived
      BY <2>1, ChunksCount DEF ChunksInv, Chunks, Arrived, TransferInit
    <2> QED
      BY <2>1, <2>2, <2>3 DEF TransferInv, Busy
  <1>2. TransferInv /\ [TransferNext]_transferVars => TransferInv'
    BY TransferStep
  <1>3. TransferInv /\ ChunksJoin => MessageIsReviewed
    <2> SUFFICES ASSUME TransferInv, ChunksJoin, Arrived, review \in {"shown", "signed"}
                 PROVE  Decoded = message
      BY DEF MessageIsReviewed
    <2>1. /\ TypeOK /\ pc = "ok" /\ ParserInv /\ EncodedInv /\ Len(buffer) <= Capacity
          /\ message \in WrittenTx /\ buffer = EncodeTx(message)
      BY MessagesAssumption, TransactionsAreWritten DEF TransferInv, ChunksJoin, ChunksInv
    <2>2. EncodeTx(Decoded) = BufferTo(offset)
      BY <2>1, EncodedIsParsed
    <2>3. tags_count <= MaxTags
      BY <2>1, Ranks DEF ParserInv, TagsRead
    <2> DEFINE rest == SubSeq(buffer, offset + 1, Len(buffer))
    <2>4. buffer \in Seq(Byte) /\ offset \in Nat /\ offset <= Len(buffer)
          /\ Len(buffer) \in Nat
      <3>1. buffer \in Seq(Byte) /\ offset \in Nat /\ offset <= bufferLen
        BY <2>1, Words DEF TypeOK, ParserInv
      <3>2. Len(buffer) \in Nat
        BY <3>1
      <3>3. bufferLen \in Nat /\ bufferLen <= Len(buffer)
        BY <3>1, BufferLen, Words
      <3> QED
        BY <3>1, <3>2, <3>3
    <2>5. buffer = BufferTo(offset) \o rest /\ rest \in Octets
      <3>1. BufferTo(Len(buffer)) = BufferTo(offset) \o rest
        <4> DEFINE l == Len(buffer)
        <4>1. buffer \in Seq(Byte) /\ offset \in Nat /\ l \in Nat /\ offset <= l /\ l <= Len(buffer)
          BY <2>4
        <4>2. rest = SubSeq(buffer, offset + 1, l)
          OBVIOUS
        <4> HIDE DEF l, rest
        <4>3. BufferTo(l) = BufferTo(offset) \o rest
          BY <4>1, <4>2, BufferParts
        <4> QED
          BY <4>3 DEF l
      <3>2. BufferTo(Len(buffer)) = buffer
        BY <2>4 DEF BufferTo
      <3>3. rest \in Seq(Byte)
        BY <2>4
      <3> QED
        BY <3>1, <3>2, <3>3, BytesAreOctets
    <2> HIDE DEF rest
    <2>6. Leads(EncodeTx(Decoded), rest, buffer)
      BY <2>2, <2>5 DEF Leads
    <2>7. <<>> \in Octets /\ Leads(EncodeTx(message), <<>>, buffer)
      <3>1. EncodeTx(message) \in Octets
        BY <2>1, EncodingOctets
      <3>2. EncodeTx(message) \o <<>> = EncodeTx(message) /\ <<>> \in Octets
        BY <3>1, JoinOctets
      <3> QED
        BY <2>1, <3>2 DEF Leads
    <2>8. Len(buffer) < U16
      BY <2>1, <2>4, CapacityAssumption, Words
    <2>9. Decoded \in WrittenTx /\ ShortTx(Decoded)
      BY <2>1, <2>3, DecodedIsShort
    <2> QED
      BY <2>1, <2>5, <2>6, <2>7, <2>8, <2>9, SameTransaction
  <1> QED
    BY <1>1, <1>2, <1>3, ChunksAreJoined, PTL DEF TransferSpec
=============================================================================
