---------------------------- MODULE RecursionProofs ----------------------------
(***************************************************************************)
(* Lemmas about sequences and recursive functions that the proofs of the   *)
(* other modules share: what holds upwards or backwards from an end, that  *)
(* a function defined turn by turn exists, and what FlattenSeq returns.    *)
(***************************************************************************)
EXTENDS SequencesExt, SequenceTheorems, WellFoundedInduction, TLAPS

\* A set of numbers that is not empty has a least member.
LEMMA LeastOf ==
  ASSUME NEW T \in SUBSET Nat, T # {}
  PROVE  \E n \in T : \A k \in T : n <= k
<1>1. PICK n \in T : \A k \in T : <<k, n>> \notin OpToRel(<, Nat)
  BY WFMin, NatLessThanWellFounded, Zenon
<1>2. \A k \in T : ~(k < n)
  BY <1>1, Zenon DEF OpToRel
<1>. QED BY <1>2

\* c is the m items of s and then the n items of t.
IsJoin(s, t, m, n, c) ==
  /\ Len(c) = m + n
  /\ \A i \in 1..(m + n) : c[i] = IF i <= m THEN s[i] ELSE t[i - m]

LEMMA Joined ==
  ASSUME NEW S, NEW s \in Seq(S), NEW t \in Seq(S), NEW m \in Nat, NEW n \in Nat,
         Len(s) = m, Len(t) = n, NEW c, c = s \o t
  PROVE  c \in Seq(S) /\ IsJoin(s, t, m, n, c)
<1>1. /\ c \in Seq(S) /\ Len(c) = m + n
      /\ \A i \in 1..(m + n) : c[i] = IF i <= m THEN s[i] ELSE t[i - m]
  BY ConcatProperties
<1>. QED BY <1>1, Zenon DEF IsJoin

------------------------------------------------------------------------------
(* Recursion over numbers, and over a sequence from its end.               *)

\* What holds of nothing and of one more holds of all.
LEMMA Upwards ==
  ASSUME NEW n \in Nat, NEW P, 0 \in P, \A k \in 1..n : k - 1 \in P => k \in P
  PROVE  \A k \in 0..n : k \in P
<1> DEFINE T == {k \in 0..n : k \notin P}
<1>1. CASE T # {}
  <2>1. T \in SUBSET Nat
    OBVIOUS
  <2>2. PICK m \in T : \A k \in T : m <= k
    <3>. HIDE DEF T
    <3>. QED BY <1>1, <2>1, LeastOf
  <2>3. m \in 1..n /\ m \notin P /\ m - 1 \in 0..n /\ ~(m <= m - 1)
    BY <2>2
  <2>4. m - 1 \in P
    BY <2>2, <2>3
  <2>. QED BY <2>3, <2>4
<1>2. CASE T = {}
  BY <1>2
<1>. QED BY <1>1, <1>2

\* What holds wherever it holds of all that comes later holds everywhere.
LEMMA Backwards ==
  ASSUME NEW n \in Nat, NEW P,
         \A i \in 1..n : (\A j \in (i + 1)..n : j \in P) => i \in P
  PROVE  \A i \in 1..n : i \in P
<1> DEFINE T == {k \in 0..n : k < n /\ n - k \notin P}
<1>1. CASE T # {}
  <2>1. T \in SUBSET Nat
    OBVIOUS
  <2>2. PICK m \in T : \A k \in T : m <= k
    <3>. HIDE DEF T
    <3>. QED BY <1>1, <2>1, LeastOf
  <2>3. m \in 0..n /\ n - m \in 1..n /\ n - m \notin P
    BY <2>2
  <2>4. \A j \in (n - m + 1)..n : j \in P
    <3> TAKE j \in (n - m + 1)..n
    <3>1. n - j \in 0..n /\ n - j < n /\ n - j < m /\ n - (n - j) = j
      BY <2>3
    <3>2. n - j \notin T
      BY <2>2, <2>3, <3>1
    <3>. QED BY <3>1, <3>2
  <2>. QED BY <2>3, <2>4
<1>2. CASE T = {}
  <2> TAKE i \in 1..n
  <2>1. n - i \in 0..n /\ n - i < n /\ n - (n - i) = i
    OBVIOUS
  <2>. QED BY <1>2, <2>1
<1>. QED BY <1>1, <1>2

\* A value after each of n turns.
Turns(n, G, e, f) ==
  /\ f[0] = e
  /\ \A k \in 1..n : f[k] = G[k][f[k - 1]]

LEMMA TurnsExist ==
  ASSUME NEW n \in Nat, NEW V, NEW e \in V, NEW G \in [1..n -> [V -> V]]
  PROVE  \E f \in [0..n -> V] : Turns(n, G, e, f)
<1> DEFINE P == {m \in 0..n : \E f \in [0..m -> V] : Turns(m, G, e, f)}
<1>1. 0 \in P
  <2> DEFINE f == [k \in 0..0 |-> e]
  <2>1. f \in [0..0 -> V] /\ Turns(0, G, e, f)
    BY DEF Turns
  <2>. QED BY <2>1
<1>2. ASSUME NEW m \in 1..n, m - 1 \in P
      PROVE  m \in P
  <2>1. PICK g \in [0..(m - 1) -> V] : Turns(m - 1, G, e, g)
    BY <1>2
  <2> DEFINE f == [k \in 0..m |-> IF k = m THEN G[m][g[m - 1]] ELSE g[k]]
  <2>2. g[m - 1] \in V /\ G[m] \in [V -> V] /\ G[m][g[m - 1]] \in V
    BY <2>1
  <2>3. f \in [0..m -> V]
    <3>1. ASSUME NEW k \in 0..m PROVE f[k] \in V
      <4>1. k = m \/ k \in 0..(m - 1)
        OBVIOUS
      <4>. QED BY <2>1, <2>2, <4>1
    <3>. QED BY <3>1
  <2>4. \A k \in 0..(m - 1) : f[k] = g[k]
    OBVIOUS
  <2>5. f[m] = G[m][g[m - 1]]
    OBVIOUS
  <2>. HIDE DEF f
  <2>6. Turns(m, G, e, f)
    <3>1. f[0] = e
      BY <2>1, <2>4 DEF Turns
    <3>2. ASSUME NEW k \in 1..m PROVE f[k] = G[k][f[k - 1]]
      <4>1. CASE k = m
        BY <2>4, <2>5, <4>1
      <4>2. CASE k # m
        <5>1. k \in 1..(m - 1) /\ k \in 0..(m - 1) /\ k - 1 \in 0..(m - 1)
          BY <4>2
        <5>. QED BY <2>1, <2>4, <5>1 DEF Turns
      <4>. QED BY <4>1, <4>2
    <3>. QED BY <3>1, <3>2 DEF Turns
  <2>. QED BY <2>3, <2>6
<1>3. n \in P
  <2>. HIDE DEF P
  <2>1. \A k \in 1..n : k - 1 \in P => k \in P
    BY <1>2
  <2>2. \A k \in 0..n : k \in P
    BY <1>1, <2>1, Upwards
  <2>. QED BY <2>2
<1>. QED BY <1>3

\* A value at each of the places from which jumps lead on to a later one.
Jumps(n, N, G, e, f) ==
  \A i \in 1..(n + 1) : f[i] = IF i > n THEN e ELSE G[i][f[N[i]]]

LEMMA JumpsExist ==
  ASSUME NEW n \in Nat, NEW V, NEW e \in V, NEW G \in [1..n -> [V -> V]],
         NEW N \in [1..n -> 1..(n + 1)], \A i \in 1..n : i < N[i]
  PROVE  \E f \in [1..(n + 1) -> V] : Jumps(n, N, G, e, f)
<1> DEFINE From(m, f) ==
             \A i \in (n + 1 - m)..(n + 1) : f[i] = IF i > n THEN e ELSE G[i][f[N[i]]]
           P == {m \in 0..n : \E f \in [(n + 1 - m)..(n + 1) -> V] : From(m, f)}
<1>1. 0 \in P
  <2> DEFINE f == [i \in (n + 1)..(n + 1) |-> e]
  <2>1. f \in [(n + 1 - 0)..(n + 1) -> V]
    OBVIOUS
  <2>2. From(0, f)
    OBVIOUS
  <2>3. 0 \in 0..n
    OBVIOUS
  <2>. HIDE DEF f, From
  <2>. QED BY <2>1, <2>2, <2>3
<1>2. ASSUME NEW m \in 1..n, m - 1 \in P
      PROVE  m \in P
  <2> DEFINE k == n + 1 - m
  <2>1. k \in 1..n /\ n + 1 - (m - 1) = k + 1
    OBVIOUS
  <2>2. PICK g \in [(k + 1)..(n + 1) -> V] : From(m - 1, g)
    BY <1>2, <2>1
  <2>3. \A i \in (k + 1)..(n + 1) : g[i] = IF i > n THEN e ELSE G[i][g[N[i]]]
    BY <2>1, <2>2
  <2>. HIDE DEF k, From
  <2> DEFINE f == [i \in k..(n + 1) |-> IF i = k THEN G[k][g[N[k]]] ELSE g[i]]
  <2>4. N[k] \in (k + 1)..(n + 1) /\ g[N[k]] \in V /\ G[k][g[N[k]]] \in V
    <3>1. N[k] \in 1..(n + 1) /\ k < N[k] /\ G[k] \in [V -> V]
      BY <2>1
    <3>2. N[k] \in (k + 1)..(n + 1)
      BY <2>1, <3>1
    <3>3. g[N[k]] \in V
      BY <2>2, <3>2
    <3>. QED BY <3>1, <3>2, <3>3
  <2>5. f \in [k..(n + 1) -> V]
    <3>1. ASSUME NEW i \in k..(n + 1) PROVE f[i] \in V
      <4>1. i = k \/ i \in (k + 1)..(n + 1)
        BY <2>1
      <4>. QED BY <2>2, <2>4, <4>1
    <3>. QED BY <3>1
  <2>6. \A i \in (k + 1)..(n + 1) : f[i] = g[i]
    BY <2>1
  <2>7. f[k] = G[k][g[N[k]]]
    BY <2>1
  <2>. HIDE DEF f
  <2>8. ASSUME NEW i \in k..(n + 1) PROVE f[i] = IF i > n THEN e ELSE G[i][f[N[i]]]
    <3>1. CASE i = k
      <4>1. ~(i > n)
        BY <2>1, <3>1
      <4>. QED BY <2>4, <2>6, <2>7, <3>1, <4>1
    <3>2. CASE i # k
      <4>1. i \in (k + 1)..(n + 1)
        BY <2>1, <3>2
      <4>2. ~(i > n) => N[i] \in (k + 1)..(n + 1)
        <5>1. ~(i > n) => i \in 1..n
          BY <2>1, <4>1
        <5>2. ~(i > n) => N[i] \in 1..(n + 1) /\ i < N[i]
          BY <5>1
        <5>. QED BY <2>1, <4>1, <5>2
      <4>. QED BY <2>3, <2>6, <4>1, <4>2
    <3>. QED BY <3>1, <3>2
  <2>9. From(m, f)
    BY <2>8 DEF From, k
  <2>. QED BY <2>5, <2>9 DEF k
<1>3. n \in P
  <2>. HIDE DEF P
  <2>1. \A k \in 1..n : k - 1 \in P => k \in P
    BY <1>2
  <2>2. \A k \in 0..n : k \in P
    BY <1>1, <2>1, Upwards
  <2>. QED BY <2>2
<1>4. n + 1 - n = 1
  OBVIOUS
<1>. QED BY <1>3, <1>4 DEF Jumps

\* FlattenSeq(c), one sequence after the other.
Flat(c, n, f) ==
  /\ f[0] = << >>
  /\ \A k \in 1..n : f[k] = f[k - 1] \o c[k]

LEMMA FlattenIs ==
  ASSUME NEW S, NEW n \in Nat, NEW c \in [1..n -> Seq(S)]
  PROVE  \E f \in [0..n -> Seq(S)] : Flat(c, n, f) /\ f[n] = FlattenSeq(c)
<1>1. Len(c) = n /\ c \in Seq(Seq(S))
  OBVIOUS
<1> DEFINE G == [k \in 1..n |-> [x \in Seq(S) |-> x \o c[k]]]
<1>2. G \in [1..n -> [Seq(S) -> Seq(S)]]
  <2>1. ASSUME NEW k \in 1..n PROVE G[k] \in [Seq(S) -> Seq(S)]
    <3>1. ASSUME NEW x \in Seq(S) PROVE x \o c[k] \in Seq(S)
      BY ConcatProperties
    <3>. QED BY <3>1
  <2>. QED BY <2>1
<1>3. << >> \in Seq(S)
  OBVIOUS
<1>4. PICK f \in [0..n -> Seq(S)] : Turns(n, G, << >>, f)
  <2>. HIDE DEF G
  <2>. QED BY <1>2, <1>3, TurnsExist
<1>5. Flat(c, n, f)
  <2>1. ASSUME NEW k \in 1..n PROVE f[k] = f[k - 1] \o c[k]
    <3>1. f[k - 1] \in Seq(S)
      OBVIOUS
    <3>2. f[k] = G[k][f[k - 1]]
      BY <1>4 DEF Turns
    <3>. QED BY <3>1, <3>2
  <2>. QED BY <1>4, <2>1 DEF Flat, Turns
<1>6. CASE n = 0
  <2>1. FlattenSeq(c) = c /\ c = << >>
    BY <1>1, <1>6, EmptySeq DEF FlattenSeq
  <2>. QED BY <1>5, <1>6, <2>1 DEF Flat
<1>7. CASE n # 0
  <2> DEFINE Step(g, i) == IF i = 1 THEN c[i] ELSE g[i - 1] \o c[i]
             h == CHOOSE g : g = [i \in 1..n |-> Step(g, i)]
             r == [i \in 1..n |-> f[i]]
  <2>1. FlattenSeq(c) = h[n]
    BY <1>1, <1>7 DEF FlattenSeq
  <2>2. r = [i \in 1..n |-> Step(r, i)]
    <3>1. ASSUME NEW i \in 1..n PROVE r[i] = Step(r, i)
      <4>1. CASE i = 1
        <5>1. f[1] = f[0] \o c[1] /\ f[0] = << >> /\ c[1] \in Seq(S)
          <6>1. 1 \in 1..n /\ 1 - 1 = 0
            BY <4>1
          <6>. QED BY <1>5, <6>1 DEF Flat
        <5>. QED BY <4>1, <5>1, ConcatEmptySeq
      <4>2. CASE i # 1
        <5>1. i - 1 \in 1..n
          BY <4>2
        <5>. QED BY <1>5, <4>2, <5>1 DEF Flat
      <4>. QED BY <4>1, <4>2
    <3>. QED BY <3>1
  <2>3. h = [i \in 1..n |-> Step(h, i)]
    BY <2>2
  <2>4. \A i \in 1..n : h[i] = Step(h, i) /\ r[i] = Step(r, i)
    <3>. HIDE DEF h, r
    <3>. QED BY <2>2, <2>3
  <2> DEFINE P == {k \in 0..n : k = 0 \/ h[k] = r[k]}
  <2>5. 0 \in P
    OBVIOUS
  <2>6. ASSUME NEW k \in 1..n, k - 1 \in P PROVE k \in P
    <3>. HIDE DEF h, r
    <3>1. k # 1 => h[k - 1] = r[k - 1]
      BY <2>6
    <3>2. h[k] = r[k]
      BY <2>4, <3>1
    <3>. QED BY <3>2
  <2>7. n \in P
    <3>. HIDE DEF P
    <3>1. \A k \in 1..n : k - 1 \in P => k \in P
      BY <2>6
    <3>2. \A k \in 0..n : k \in P
      BY <2>5, <3>1, Upwards
    <3>. QED BY <3>2
  <2>8. h[n] = r[n]
    <3>. HIDE DEF h, r
    <3>. QED BY <1>7, <2>7
  <2>9. r[n] = f[n]
    BY <1>7
  <2>. QED BY <1>5, <2>1, <2>8, <2>9
<1>. QED BY <1>6, <1>7

LEMMA FlattenType ==
  ASSUME NEW S, NEW n \in Nat, NEW c \in [1..n -> Seq(S)]
  PROVE  FlattenSeq(c) \in Seq(S)
<1>1. PICK f \in [0..n -> Seq(S)] : Flat(c, n, f) /\ f[n] = FlattenSeq(c)
  BY FlattenIs
<1>. QED BY <1>1

\* Joining three sequences in either order.
Regrouped(x, y, z) == (x \o y) \o z = x \o (y \o z)

LEMMA Regroups ==
  ASSUME NEW S, NEW x \in Seq(S), NEW y \in Seq(S), NEW z \in Seq(S)
  PROVE  Regrouped(x, y, z)
BY ConcatAssociative DEF Regrouped

\* d has one sequence before those of c.
OneMore(c, n, d) == \A k \in 1..n : d[k + 1] = c[k]

\* It comes first.
LEMMA FlattenFirst ==
  ASSUME NEW S, NEW n \in Nat, NEW c \in [1..n -> Seq(S)],
         NEW d \in [1..(n + 1) -> Seq(S)], OneMore(c, n, d)
  PROVE  FlattenSeq(d) = d[1] \o FlattenSeq(c)
<1>1. PICK f \in [0..n -> Seq(S)] : Flat(c, n, f) /\ f[n] = FlattenSeq(c)
  BY FlattenIs
<1>2. PICK m \in Nat : m = n + 1
  OBVIOUS
<1>3. PICK g \in [0..m -> Seq(S)] : Flat(d, m, g) /\ g[m] = FlattenSeq(d)
  BY <1>2, FlattenIs
<1>4. PICK x \in Seq(S) : x = d[1]
  OBVIOUS
<1> DEFINE P == {k \in 0..n : g[k + 1] = x \o f[k]}
<1>5. 0 \in P
  <2>1. 1 \in 1..m /\ 1 - 1 = 0
    BY <1>2
  <2>2. g[1] = g[0] \o d[1] /\ g[0] = << >> /\ f[0] = << >>
    BY <1>1, <1>3, <2>1 DEF Flat
  <2>3. << >> \o x = x /\ x \o << >> = x
    BY ConcatEmptySeq
  <2>4. 0 \in 0..n /\ 0 + 1 = 1
    OBVIOUS
  <2>. QED BY <1>4, <2>2, <2>3, <2>4
<1>6. ASSUME NEW k \in 1..n, k - 1 \in P PROVE k \in P
  <2>1. g[k] = x \o f[k - 1]
    <3>1. k - 1 + 1 = k
      OBVIOUS
    <3>. QED BY <1>6, <3>1
  <2>2. k + 1 \in 1..m /\ k + 1 - 1 = k /\ k - 1 \in 0..n /\ k \in 0..n
    BY <1>2
  <2>3. g[k + 1] = g[k] \o d[k + 1] /\ d[k + 1] = c[k]
    <3>1. PICK j \in 1..m : j = k + 1 /\ j - 1 = k
      BY <2>2
    <3>2. g[j] = g[j - 1] \o d[j]
      BY <1>3 DEF Flat
    <3>3. d[j] = c[k]
      BY <3>1 DEF OneMore
    <3>. QED BY <3>1, <3>2, <3>3
  <2>4. f[k] = f[k - 1] \o c[k]
    BY <1>1 DEF Flat
  <2>5. (x \o f[k - 1]) \o c[k] = x \o (f[k - 1] \o c[k])
    <3>1. PICK u \in Seq(S), v \in Seq(S) : u = f[k - 1] /\ v = c[k]
      BY <2>2
    <3>2. Regrouped(x, u, v)
      BY Regroups, Zenon
    <3>. QED BY <3>1, <3>2 DEF Regrouped
  <2>. QED BY <2>1, <2>2, <2>3, <2>4, <2>5
<1>7. n \in P
  <2>. HIDE DEF P
  <2>1. \A k \in 1..n : k - 1 \in P => k \in P
    BY <1>6
  <2>2. \A k \in 0..n : k \in P
    BY <1>5, <2>1, Upwards
  <2>. QED BY <2>2
<1>. QED BY <1>1, <1>2, <1>3, <1>4, <1>7
==============================================================================
