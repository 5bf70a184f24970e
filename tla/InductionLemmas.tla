-------------------------- MODULE InductionLemmas ---------------------------
(***************************************************************************)
(* Induction and recursion over the natural numbers, stated of sets and    *)
(* functions so that no lemma has an operator for a parameter, and what    *)
(* they give for FlattenSeq, which joins chunks, pages and encoded tags.   *)
(***************************************************************************)
EXTENDS Integers, SequencesExt, SequenceTheorems, FiniteSetTheorems, TLAPS

-----------------------------------------------------------------------------
(* Numbers.                                                                *)

\* A set of natural numbers has a least one: the intervals 0..n, for n in the
\* set, are finite sets, which inclusion orders without infinite descent.
LEMMA LeastNumber ==
  ASSUME NEW T \in SUBSET Nat, T # {}
  PROVE  \E n \in T : \A m \in T : n <= m
  <1> DEFINE Below == {0..n : n \in T}
  <1>1. Below \subseteq FiniteSubsetsOf(Nat)
    <2>1. \A n \in T : IsFiniteSet(0..n) /\ 0..n \subseteq Nat
      BY FS_Interval
    <2> QED
      BY <2>1 DEF FiniteSubsetsOf
  <1>2. Below # {}
    OBVIOUS
  <1>3. IsWellFoundedOn(StrictSubsetOrdering(Nat), FiniteSubsetsOf(Nat))
    BY FS_StrictSubsetOrderingWellFounded
  <1> HIDE DEF Below
  <1>4. PICK x \in Below : \A y \in Below : ~(<<y, x>> \in StrictSubsetOrdering(Nat))
    BY <1>1, <1>2, <1>3, WFMin
  <1>5. PICK n \in T : x = 0..n
    BY <1>4 DEF Below
  <1>6. ASSUME NEW m \in T, m < n PROVE FALSE
    <2>1. 0..m \in Below
      BY DEF Below
    <2>2. 0..m \subseteq 0..n /\ 0..m # 0..n /\ 0..n \subseteq Nat
      BY <1>6
    <2> QED
      BY <1>4, <1>5, <2>1, <2>2 DEF StrictSubsetOrdering
  <1> QED
    BY <1>5, <1>6

\* Induction: a set that has 0 and the successor of each of its numbers has all.
LEMMA Induction ==
  ASSUME NEW S, 0 \in S, \A n \in Nat : n \in S => n + 1 \in S
  PROVE  Nat \subseteq S
  <1> SUFFICES ASSUME Nat \ S # {} PROVE FALSE
    OBVIOUS
  <1> DEFINE T == Nat \ S
  <1>1. T \in SUBSET Nat /\ T # {}
    OBVIOUS
  <1> HIDE DEF T
  <1>2. PICK n \in T : \A m \in T : n <= m
    BY <1>1, LeastNumber
  <1>3. n \in Nat /\ n \notin S /\ n # 0
    BY DEF T
  <1>4. n - 1 \in Nat /\ n - 1 \notin T
    BY <1>2, <1>3, <1>1
  <1>5. n - 1 \in S
    BY <1>4 DEF T
  <1> QED
    BY <1>3, <1>4, <1>5

\* f has N values in V after its first, each computed from the one before.
IsRecursion(f, V, N, first, next) ==
    /\ f \in [0..N -> V]
    /\ f[0] = first
    /\ \A n \in 1..N : f[n] = next[n][f[n - 1]]

\* Recursion: there is such a function, whatever the first value and the rule.
LEMMA Recursion ==
  ASSUME NEW V, NEW N \in Nat, NEW first \in V, NEW next \in [1..N -> [V -> V]]
  PROVE  \E f : IsRecursion(f, V, N, first, next)
  <1> DEFINE S == {m \in Nat : m <= N =>
                     \E f \in [0..m -> V] :
                        f[0] = first /\ \A n \in 1..m : f[n] = next[n][f[n - 1]]}
  <1>1. 0 \in S
    <2> DEFINE f == [n \in 0..0 |-> first]
    <2>1. f \in [0..0 -> V] /\ f[0] = first /\ 1..0 = {}
      OBVIOUS
    <2> QED
      BY <2>1
  <1>2. ASSUME NEW m \in Nat, m \in S, m + 1 <= N PROVE m + 1 \in S
    <2>1. PICK f \in [0..m -> V] :
             f[0] = first /\ \A n \in 1..m : f[n] = next[n][f[n - 1]]
      BY <1>2
    <2> DEFINE g == [n \in 0..(m + 1) |-> IF n = m + 1 THEN next[m + 1][f[m]] ELSE f[n]]
    <2>2. next[m + 1] \in [V -> V] /\ f[m] \in V
      BY <1>2, <2>1
    <2>3. g \in [0..(m + 1) -> V]
      BY <1>2, <2>1, <2>2
    <2>4. \A n \in 0..m : g[n] = f[n]
      OBVIOUS
    <2>6. g[m + 1] = next[m + 1][g[m]]
      OBVIOUS
    <2>7. ASSUME NEW n \in 1..(m + 1) PROVE g[n] = next[n][g[n - 1]]
      <3>1. CASE n = m + 1
        BY <2>6, <3>1
      <3>2. CASE n # m + 1
        <4>1. n \in 1..m /\ n \in 0..m /\ n - 1 \in 0..m
          BY <3>2
        <4> QED
          BY <2>1, <2>4, <4>1
      <3> QED
        BY <3>1, <3>2
    <2>8. g[0] = first
      BY <2>1, <2>4
    <2> HIDE DEF g
    <2>9. \E h \in [0..(m + 1) -> V] :
             h[0] = first /\ \A n \in 1..(m + 1) : h[n] = next[n][h[n - 1]]
      BY <2>3, <2>7, <2>8, Zenon
    <2>10. m + 1 \in Nat
      OBVIOUS
    <2> QED
      BY <2>9, <2>10, Zenon
  <1>3. \A m \in Nat : m \in S => m + 1 \in S
    <2> SUFFICES ASSUME NEW m \in Nat, m \in S PROVE m + 1 \in S
      OBVIOUS
    <2>1. CASE m + 1 <= N
      BY <1>2, <2>1
    <2>2. CASE ~(m + 1 <= N)
      BY <2>2
    <2> QED
      BY <2>1, <2>2
  <1> HIDE DEF S
  <1>4. N \in S
    BY <1>1, <1>3, Induction
  <1> QED
    BY <1>4 DEF S, IsRecursion

-----------------------------------------------------------------------------
(* Joining two sequences.                                                  *)

\* The members of a \o b.
LEMMA Concat ==
  ASSUME NEW V, NEW a \in Seq(V), NEW b \in Seq(V)
  PROVE  /\ a \o b \in Seq(V) /\ Len(a \o b) = Len(a) + Len(b)
         /\ \A n \in 1..Len(a) : (a \o b)[n] = a[n]
         /\ \A n \in 1..Len(b) : (a \o b)[Len(a) + n] = b[n]
  OBVIOUS

\* A sequence that has these is a \o b.
LEMMA IsConcat ==
  ASSUME NEW V, NEW a \in Seq(V), NEW b \in Seq(V), NEW s \in Seq(V),
         Len(s) = Len(a) + Len(b),
         \A n \in 1..Len(a) : s[n] = a[n],
         \A n \in 1..Len(b) : s[Len(a) + n] = b[n]
  PROVE  s = a \o b
  <1> DEFINE c == a \o b
  <1>1. /\ Len(a) \in Nat /\ Len(b) \in Nat /\ c \in Seq(V) /\ Len(c) = Len(a) + Len(b)
        /\ \A n \in 1..Len(a) : c[n] = a[n]
        /\ \A n \in 1..Len(b) : c[Len(a) + n] = b[n]
    BY Concat
  <1> HIDE DEF c
  <1>2. ASSUME NEW n \in 1..Len(s) PROVE s[n] = c[n]
    <2>1. CASE n <= Len(a)
      <3>1. n \in 1..Len(a)
        BY <1>1, <2>1
      <3> QED
        BY <1>1, <3>1
    <2>2. CASE ~(n <= Len(a))
      <3>1. n - Len(a) \in 1..Len(b) /\ Len(a) + (n - Len(a)) = n
        BY <1>1, <2>2
      <3>2. s[Len(a) + (n - Len(a))] = b[n - Len(a)]
        BY <3>1
      <3>3. c[Len(a) + (n - Len(a))] = b[n - Len(a)]
        BY <1>1, <3>1
      <3> QED
        BY <3>1, <3>2, <3>3
    <2> QED
      BY <2>1, <2>2
  <1>3. s = c
    BY <1>1, <1>2, SeqEqual
  <1> QED
    BY <1>3 DEF c

-----------------------------------------------------------------------------
(* FlattenSeq.                                                             *)

JoinAssociates(D) == \A a, b, c \in Seq(D) : (a \o b) \o c = a \o (b \o c)

\* Three sequences join into one, whichever two are joined first.
LEMMA Associativity ==
  ASSUME NEW D
  PROVE  JoinAssociates(D)
  BY DEF JoinAssociates

\* f[n] is the first n members of s, one after the other.
IsJoin(f, D, s) ==
    /\ f \in [0..Len(s) -> Seq(D)]
    /\ f[0] = <<>>
    /\ \A n \in 1..Len(s) : f[n] = f[n - 1] \o s[n]

\* FlattenSeq joins the members one after the other.
LEMMA Flatten ==
  ASSUME NEW D, NEW s \in Seq(Seq(D))
  PROVE  \E f : IsJoin(f, D, s) /\ FlattenSeq(s) = f[Len(s)]
  <1> DEFINE N == Len(s)
             V == Seq(D)
             next == [n \in 1..N |-> [v \in V |-> v \o s[n]]]
  <1>1. N \in Nat
    OBVIOUS
  <1>2. <<>> \in V /\ \A n \in 1..N : s[n] \in V
    BY ElementOfSeq
  <1>3. next \in [1..N -> [V -> V]]
    BY <1>2
  <1> HIDE DEF next
  <1>4. PICK f : IsRecursion(f, V, N, <<>>, next)
    BY <1>1, <1>2, <1>3, Recursion
  <1>5. f \in [0..N -> V] /\ f[0] = <<>> /\ \A n \in 1..N : f[n] = next[n][f[n - 1]]
    BY <1>4 DEF IsRecursion
  <1>6. \A n \in 1..N : f[n] = f[n - 1] \o s[n]
    <2> TAKE n \in 1..N
    <2>1. n - 1 \in 0..N
      BY <1>1
    <2>2. f[n - 1] \in V
      BY <1>5, <2>1
    <2>3. next[n] = [v \in V |-> v \o s[n]]
      BY DEF next
    <2> QED
      BY <1>5, <2>2, <2>3
  <1> HIDE DEF V, N
  <1>7. CASE N = 0
    <2>1. s = <<>>
      BY <1>7 DEF N
    <2>2. FlattenSeq(s) = f[N]
      BY <1>5, <1>7, <2>1 DEF FlattenSeq
    <2> QED
      BY <1>5, <1>6, <2>2 DEF IsJoin, N, V
  <1>8. CASE N # 0
    <2> DEFINE P(g) == g = [n \in 1..N |-> IF n = 1 THEN s[n] ELSE g[n - 1] \o s[n]]
               g0 == [n \in 1..N |-> f[n]]
               flatten == CHOOSE g : P(g)
    <2>1. P(g0)
      <3> SUFFICES ASSUME NEW n \in 1..N
                   PROVE  f[n] = IF n = 1 THEN s[n] ELSE g0[n - 1] \o s[n]
        OBVIOUS
      <3>1. CASE n = 1
        <4>1. f[n] = f[n - 1] \o s[n]
          BY <1>6
        <4>2. n - 1 = 0
          BY <3>1
        <4>3. <<>> \o s[n] = s[n] /\ f[0] = <<>>
          BY <1>2, <1>5, ConcatEmptySeq DEF V
        <4> QED
          BY <3>1, <4>1, <4>2, <4>3
      <3>2. CASE n # 1
        <4>1. n - 1 \in 1..N
          BY <1>1, <3>2
        <4> QED
          BY <1>6, <3>2, <4>1
      <3> QED
        BY <3>1, <3>2
    <2>2. P(flatten)
      <3> HIDE DEF P, g0
      <3> QED
        BY <2>1
    <2>3. FlattenSeq(s) = flatten[N]
      BY <1>8 DEF FlattenSeq, N
    <2> HIDE DEF flatten
    <2>4. flatten = [n \in 1..N |-> IF n = 1 THEN s[n] ELSE flatten[n - 1] \o s[n]]
      BY <2>2
    <2>5. \A n \in 1..N : flatten[n] = IF n = 1 THEN s[n] ELSE flatten[n - 1] \o s[n]
      BY <2>4
    <2> HIDE DEF P, g0
    <2> DEFINE S == {n \in Nat : n \in 1..N => flatten[n] = f[n]}
    <2>6. 0 \in S
      OBVIOUS
    <2>7. ASSUME NEW n \in Nat, n \in S, n + 1 \in 1..N PROVE flatten[n + 1] = f[n + 1]
      <3>1. CASE n = 0
        <4>1. f[n + 1] = f[(n + 1) - 1] \o s[n + 1]
          BY <1>6, <2>7
        <4>2. n + 1 = 1 /\ (n + 1) - 1 = 0
          BY <3>1
        <4>3. flatten[n + 1] = s[n + 1]
          BY <2>5, <2>7, <4>2
        <4>4. <<>> \o s[n + 1] = s[n + 1] /\ f[0] = <<>>
          BY <1>2, <1>5, <2>7, ConcatEmptySeq DEF V
        <4> QED
          BY <4>1, <4>2, <4>3, <4>4
      <3>2. CASE n # 0
        <4>1. n \in 1..N /\ n + 1 # 1 /\ (n + 1) - 1 = n
          BY <1>1, <2>7, <3>2
        <4>2. flatten[n + 1] = flatten[n] \o s[n + 1] /\ f[n + 1] = f[n] \o s[n + 1]
          BY <1>6, <2>5, <2>7, <4>1
        <4> QED
          BY <2>7, <4>1, <4>2
      <3> QED
        BY <3>1, <3>2
    <2>8. \A n \in Nat : n \in S => n + 1 \in S
      BY <2>7
    <2> HIDE DEF S
    <2>9. N \in S
      BY <1>1, <2>6, <2>8, Induction
    <2>10. flatten[N] = f[N]
      BY <1>1, <1>8, <2>9 DEF S
    <2> QED
      BY <1>5, <1>6, <2>3, <2>10 DEF IsJoin, N, V
  <1> QED
    BY <1>7, <1>8

\* What it joins of members over D is over D; of none, nothing.
LEMMA FlattenInSeq ==
  ASSUME NEW D, NEW s \in Seq(Seq(D))
  PROVE  FlattenSeq(s) \in Seq(D) /\ (s = <<>> => FlattenSeq(s) = <<>>)
  <1>1. PICK f : IsJoin(f, D, s) /\ FlattenSeq(s) = f[Len(s)]
    BY Flatten
  <1>2. Len(s) \in 0..Len(s) /\ (s = <<>> => Len(s) = 0)
    OBVIOUS
  <1> QED
    BY <1>1, <1>2 DEF IsJoin

\* A member behind the others is joined last.
LEMMA FlattenLast ==
  ASSUME NEW D, NEW s \in Seq(Seq(D)), NEW t \in Seq(Seq(D)),
         Len(t) = Len(s) + 1, \A k \in 1..Len(s) : t[k] = s[k]
  PROVE  FlattenSeq(t) = FlattenSeq(s) \o t[Len(t)]
  <1>1. PICK f : IsJoin(f, D, s) /\ FlattenSeq(s) = f[Len(s)]
    BY Flatten
  <1>2. PICK g : IsJoin(g, D, t) /\ FlattenSeq(t) = g[Len(t)]
    BY Flatten
  <1> DEFINE N == Len(s)
             S == {n \in Nat : n \in 0..N => g[n] = f[n]}
  <1>3. N \in Nat /\ Len(t) = N + 1
    OBVIOUS
  <1> HIDE DEF N
  <1>4. f[0] = <<>> /\ \A n \in 1..N : f[n] = f[n - 1] \o s[n]
    BY <1>1 DEF IsJoin, N
  <1>5. g[0] = <<>> /\ \A n \in 1..(N + 1) : g[n] = g[n - 1] \o t[n]
    BY <1>2, <1>3 DEF IsJoin
  <1>6. 0 \in S
    BY <1>4, <1>5
  <1>7. ASSUME NEW n \in Nat, n \in S, n + 1 \in 0..N PROVE g[n + 1] = f[n + 1]
    <2>1. n \in 0..N /\ n + 1 \in 1..N /\ n + 1 \in 1..(N + 1) /\ (n + 1) - 1 = n
      BY <1>3, <1>7
    <2>2. g[n] = f[n] /\ t[n + 1] = s[n + 1]
      BY <1>7, <2>1 DEF N
    <2> QED
      BY <1>4, <1>5, <2>1, <2>2
  <1>8. \A n \in Nat : n \in S => n + 1 \in S
    BY <1>7
  <1> HIDE DEF S
  <1>9. N \in S
    BY <1>3, <1>6, <1>8, Induction
  <1>10. g[N] = f[N] /\ N + 1 \in 1..(N + 1) /\ (N + 1) - 1 = N
    BY <1>3, <1>9 DEF S
  <1>11. g[N + 1] = g[(N + 1) - 1] \o t[N + 1]
    BY <1>5, <1>10
  <1> QED
    BY <1>1, <1>2, <1>3, <1>10, <1>11 DEF N

\* A member before the others is joined first.
LEMMA FlattenFirst ==
  ASSUME NEW D, NEW s \in Seq(Seq(D)), NEW t \in Seq(Seq(D)),
         Len(t) = Len(s) + 1, \A k \in 1..Len(s) : t[k + 1] = s[k]
  PROVE  FlattenSeq(t) = t[1] \o FlattenSeq(s)
  <1>1. PICK f : IsJoin(f, D, s) /\ FlattenSeq(s) = f[Len(s)]
    BY Flatten
  <1>2. PICK g : IsJoin(g, D, t) /\ FlattenSeq(t) = g[Len(t)]
    BY Flatten
  <1> DEFINE N == Len(s)
             G == {n \in 0..N : g[n + 1] = t[1] \o f[n]}
             S == {n \in Nat : n \in 0..N => n \in G}
  <1>3. N \in Nat /\ Len(t) = N + 1 /\ t[1] \in Seq(D) /\ \A n \in 1..N : s[n] \in Seq(D)
    BY ElementOfSeq
  <1> HIDE DEF N
  <1>4. f \in [0..N -> Seq(D)] /\ f[0] = <<>> /\ \A n \in 1..N : f[n] = f[n - 1] \o s[n]
    BY <1>1 DEF IsJoin, N
  <1>5. g[0] = <<>> /\ \A n \in 1..(N + 1) : g[n] = g[n - 1] \o t[n]
    BY <1>2, <1>3 DEF IsJoin
  <1>6. 0 \in S
    <2>1. 0 + 1 \in 1..(N + 1) /\ (0 + 1) - 1 = 0 /\ 0 + 1 = 1
      BY <1>3
    <2>2. g[0 + 1] = g[(0 + 1) - 1] \o t[0 + 1]
      BY <1>5, <2>1
    <2>3. g[0 + 1] = <<>> \o t[1]
      BY <1>5, <2>1, <2>2
    <2>4. <<>> \o t[1] = t[1] /\ t[1] \o <<>> = t[1]
      BY <1>3, ConcatEmptySeq
    <2> QED
      BY <1>4, <2>3, <2>4
  <1>7. ASSUME NEW n \in Nat, n \in S, n + 1 \in 0..N PROVE n + 1 \in G
    <2>1. /\ n \in 0..N /\ n + 1 \in 1..N /\ (n + 1) + 1 \in 1..(N + 1)
          /\ ((n + 1) + 1) - 1 = n + 1 /\ (n + 1) - 1 = n
      BY <1>3, <1>7
    <2>2. g[n + 1] = t[1] \o f[n] /\ t[(n + 1) + 1] = s[n + 1]
      BY <1>7, <2>1 DEF N
    <2>3. g[(n + 1) + 1] = g[((n + 1) + 1) - 1] \o t[(n + 1) + 1]
      BY <1>5, <2>1
    <2>4. f[n + 1] = f[(n + 1) - 1] \o s[n + 1]
      BY <1>4, <2>1
    <2>5. t[1] \in Seq(D) /\ f[n] \in Seq(D) /\ s[n + 1] \in Seq(D)
      BY <1>3, <1>4, <2>1
    <2>6. JoinAssociates(D)
      BY Associativity
    <2>7. (t[1] \o f[n]) \o s[n + 1] = t[1] \o (f[n] \o s[n + 1])
      BY <2>5, <2>6 DEF JoinAssociates
    <2> QED
      BY <1>7, <2>1, <2>2, <2>3, <2>4, <2>7
  <1>8. \A n \in Nat : n \in S => n + 1 \in S
    <2> HIDE DEF G
    <2> QED
      BY <1>7
  <1> HIDE DEF S, G
  <1>9. N \in S
    BY <1>3, <1>6, <1>8, Induction
  <1>10. g[N + 1] = t[1] \o f[N]
    <2>1. N \in G
      BY <1>3, <1>9 DEF S
    <2> QED
      BY <2>1 DEF G
  <1> QED
    BY <1>1, <1>2, <1>3, <1>10 DEF N

\* Strings that are not empty join into one that is at least as long as they
\* are many.
LEMMA FlattenLength ==
  ASSUME NEW D, NEW s \in Seq(Seq(D)), \A n \in 1..Len(s) : Len(s[n]) >= 1
  PROVE  Len(FlattenSeq(s)) >= Len(s)
  <1>1. PICK f : IsJoin(f, D, s) /\ FlattenSeq(s) = f[Len(s)]
    BY Flatten
  <1> DEFINE N == Len(s)
             G == {n \in 0..N : Len(f[n]) >= n}
             S == {n \in Nat : n \in 0..N => n \in G}
  <1>2. N \in Nat /\ \A n \in 1..N : s[n] \in Seq(D) /\ Len(s[n]) >= 1
    BY ElementOfSeq
  <1> HIDE DEF N
  <1>3. f \in [0..N -> Seq(D)] /\ f[0] = <<>> /\ \A n \in 1..N : f[n] = f[n - 1] \o s[n]
    BY <1>1 DEF IsJoin, N
  <1>4. 0 \in S
    BY <1>3
  <1>5. ASSUME NEW n \in Nat, n \in S, n + 1 \in 0..N PROVE n + 1 \in G
    <2>1. n \in 0..N /\ n + 1 \in 1..N /\ (n + 1) - 1 = n
      BY <1>2, <1>5
    <2>2. f[n + 1] = f[n] \o s[n + 1] /\ Len(f[n]) >= n
      BY <1>3, <1>5, <2>1
    <2>3. f[n] \in Seq(D) /\ s[n + 1] \in Seq(D) /\ Len(s[n + 1]) >= 1
      BY <1>2, <1>3, <2>1
    <2> DEFINE k == Len(f[n])
               l == Len(s[n + 1])
    <2>4. Len(f[n + 1]) = k + l
      BY <2>2, <2>3
    <2>5. k \in Nat /\ l \in Nat /\ k >= n /\ l >= 1
      BY <2>2, <2>3
    <2> HIDE DEF k, l
    <2>6. Len(f[n + 1]) >= n + 1
      BY <2>4, <2>5
    <2> QED
      BY <1>5, <2>6
  <1>6. \A n \in Nat : n \in S => n + 1 \in S
    <2> HIDE DEF G
    <2> QED
      BY <1>5
  <1> HIDE DEF S, G
  <1>7. N \in S
    BY <1>2, <1>4, <1>6, Induction
  <1>8. Len(f[N]) >= N
    <2>1. N \in G
      BY <1>2, <1>7 DEF S
    <2> QED
      BY <2>1 DEF G
  <1> QED
    BY <1>1, <1>8 DEF N
=============================================================================
