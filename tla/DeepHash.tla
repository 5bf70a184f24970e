------------------------------ MODULE DeepHash ------------------------------
(***************************************************************************)
(* The deep hash of Arweave, as its definition has it: a blob hashes to    *)
(* the hash of its tag and its content, a list to the hashes of its        *)
(* members folded into the hash of its tag.  It is what the code that      *)
(* verifies a signature computes, and the reference for the app's own      *)
(* parser_getDigest.                                                       *)
(*                                                                         *)
(* A hash is kept as the text that was hashed, between brackets: two       *)
(* hashes are equal when the texts are, as for a hash without collisions.  *)
(***************************************************************************)
EXTENDS Integers, Sequences

Open == 256
Close == 257

Hash(text) == <<Open>> \o text \o <<Close>>

\* The tags "blob<n>" and "list<n>", hashed.
Blob == 258
List == 259
HashTag(kind, n) == Hash(<<kind, n>>)

BlobHash(bytes) == Hash(HashTag(Blob, Len(bytes)) \o Hash(bytes))

\* The deep hash of a list whose members have these.
ListHash(hashes) ==
    LET acc[n \in 0..Len(hashes)] ==
          IF n = 0 THEN HashTag(List, Len(hashes)) ELSE Hash(acc[n - 1] \o hashes[n])
    IN acc[Len(hashes)]

\* The list that a transaction of format 2 is signed as, and its hash.
PairHash(tag) == ListHash(<<BlobHash(tag.name), BlobHash(tag.value)>>)

DeepHashOf(t) ==
    ListHash(<<BlobHash(t.format), BlobHash(t.owner), BlobHash(t.target), BlobHash(t.quantity),
               BlobHash(t.reward), BlobHash(t.last_tx),
               ListHash([n \in DOMAIN t.tags |-> PairHash(t.tags[n])]),
               BlobHash(t.data_size), BlobHash(t.data_root)>>)
=============================================================================
