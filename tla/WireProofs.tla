------------------------------- MODULE WireProofs -------------------------------
(***************************************************************************)
(* Proofs about the bytes of transactions and of signatures, for every     *)
(* radix, widths, sizes and tags, and whoever carries them.                *)
(*                                                                         *)
(* Everything that parse reads is read by a reader: what it takes is       *)
(* written again as no more bytes, the same if as many, and what is        *)
(* written is read back, whatever follows.  Readers are put one after the  *)
(* other into fields, lists, witnesses and at last a whole transaction,    *)
(* and at each turn stay readers.  A signature is compared with the bytes  *)
(* that its two numbers are written as, place by place.                    *)
(***************************************************************************)
EXTENDS Wire, RecursionProofs

------------------------------------------------------------------------------
(* Bytes, and division by the number of their values.                      *)

Byte == 0..(RADIX - 1)

LEMMA ByteStrings == ByteString = Seq(Byte)
BY DEF ByteString, Byte

\* Division by the number of values of a byte.
LEMMA Divides ==
  ASSUME NEW n \in Nat, NEW d \in Nat, d > 0
  PROVE  /\ n \div d \in Nat /\ n % d \in 0..(d - 1)
         /\ n = d * (n \div d) + (n % d)
BY SMTT(20)

LEMMA TimesLeast ==
  ASSUME NEW d \in Nat, NEW x \in Nat, NEW y \in Nat, x < y
  PROVE  d * x + d <= d * y
<1>1. PICK z \in Nat : y = x + 1 + z
  <2>1. y - x - 1 \in Nat /\ y = x + 1 + (y - x - 1)
    OBVIOUS
  <2>. QED BY <2>1
<1>2. d * y = d * x + d + d * z
  BY <1>1, SMTT(20)
<1>3. d * z \in Nat /\ d * x \in Nat
  BY SMTT(20)
<1>. QED BY <1>2, <1>3

LEMMA DividesOnce ==
  ASSUME NEW d \in Nat, NEW q \in Nat, NEW r \in Nat, r < d
  PROVE  (d * q + r) \div d = q /\ (d * q + r) % d = r
<1>1. PICK n \in Nat : n = d * q + r
  <2>1. d * q \in Nat
    BY SMTT(20)
  <2>. QED BY <2>1
<1>2. PICK x \in Nat, y \in Nat : x = n \div d /\ y = n % d /\ y < d /\ n = d * x + y
  BY Divides
<1>3. x = q
  <2>1. CASE x < q
    <3>1. d * x + d <= d * q
      BY <2>1, TimesLeast
    <3>2. d * x \in Nat /\ d * q \in Nat
      BY SMTT(20)
    <3>. QED BY <1>1, <1>2, <3>1, <3>2
  <2>2. CASE q < x
    <3>1. d * q + d <= d * x
      BY <2>2, TimesLeast
    <3>2. d * x \in Nat /\ d * q \in Nat
      BY SMTT(20)
    <3>. QED BY <1>1, <1>2, <3>1, <3>2
  <2>. QED BY <2>1, <2>2
<1>4. y = r
  <2>1. d * q \in Nat
    BY SMTT(20)
  <2>. QED BY <1>1, <1>2, <1>3, <2>1
<1>. QED BY <1>1, <1>2, <1>3, <1>4

\* Dividing twice.
LEMMA DividesTwice ==
  ASSUME NEW n \in Nat, NEW d \in Nat, NEW e \in Nat, d > 0, e > 0
  PROVE  (n \div d) \div e = n \div (e * d)
<1>1. PICK q \in Nat, r \in Nat : q = n \div d /\ r < d /\ n = d * q + r
  BY Divides
<1>2. PICK t \in Nat, u \in Nat : t = q \div e /\ u < e /\ q = e * t + u
  BY Divides
<1>3. PICK f \in Nat : f = e * d
  <2>1. e * d \in Nat
    BY SMTT(20)
  <2>. QED BY <2>1
<1>4. PICK v \in Nat : v = d * u + r
  <2>1. d * u \in Nat
    BY SMTT(20)
  <2>. QED BY <2>1
<1>5. v < f
  <2>1. d * u + d <= d * e
    BY <1>2, TimesLeast
  <2>2. d * e = f /\ d * u \in Nat
    BY <1>3, SMTT(20)
  <2>. QED BY <1>1, <1>4, <2>1, <2>2
<1>6. n = f * t + v
  <2>1. d * (e * t + u) = (e * d) * t + d * u
    BY SMTT(20)
  <2>2. d * q = f * t + d * u
    BY <1>2, <1>3, <2>1
  <2>3. f * t \in Nat /\ d * u \in Nat
    BY SMTT(20)
  <2>. QED BY <1>1, <1>4, <2>2, <2>3
<1>7. n \div f = t
  BY <1>5, <1>6, DividesOnce
<1>. QED BY <1>1, <1>2, <1>3, <1>7

------------------------------------------------------------------------------
(* Powers.                                                                 *)

IsPower(f, n) == f[0] = 1 /\ \A k \in 1..n : f[k] = RADIX * f[k - 1]

LEMMA PowersExist ==
  ASSUME NEW n \in Nat
  PROVE  \E f \in [0..n -> Nat] : IsPower(f, n)
<1>1. PICK R \in Nat : R = RADIX
  BY SerializeAssumption
<1> DEFINE G == [k \in 1..n |-> [x \in Nat |-> R * x]]
<1>2. \A x \in Nat : R * x \in Nat
  BY SMTT(20)
<1>3. G \in [1..n -> [Nat -> Nat]]
  <2>1. ASSUME NEW k \in 1..n PROVE G[k] \in [Nat -> Nat]
    BY <1>2
  <2>. QED BY <2>1
<1>4. PICK f \in [0..n -> Nat] : Turns(n, G, 1, f)
  <2>. HIDE DEF G
  <2>. QED BY <1>3, TurnsExist
<1>5. ASSUME NEW k \in 1..n PROVE f[k] = R * f[k - 1]
  <2>1. k - 1 \in 0..n /\ f[k - 1] \in Nat
    OBVIOUS
  <2>2. f[k] = G[k][f[k - 1]]
    BY <1>4 DEF Turns
  <2>. QED BY <2>1, <2>2
<1>6. f[0] = 1
  BY <1>4 DEF Turns
<1>. QED BY <1>1, <1>5, <1>6 DEF IsPower

\* One chain of powers goes on where another ends.
LEMMA PowersAgree ==
  ASSUME NEW m \in Nat, NEW n \in Nat, NEW f, NEW g, IsPower(f, m), IsPower(g, n), m <= n
  PROVE  f[m] = g[m]
<1> DEFINE P == {k \in 0..m : f[k] = g[k]}
<1>1. 0 \in P
  BY DEF IsPower
<1>2. \A k \in 1..m : k - 1 \in P => k \in P
  <2> SUFFICES ASSUME NEW k \in 1..m, k - 1 \in P PROVE k \in P
    OBVIOUS
  <2>1. k \in 1..n /\ k \in 0..m
    OBVIOUS
  <2>2. f[k] = RADIX * f[k - 1] /\ g[k] = RADIX * g[k - 1]
    BY <2>1 DEF IsPower
  <2>. QED BY <2>1, <2>2
<1>3. m \in P
  <2>. HIDE DEF P
  <2>1. \A k \in 0..m : k \in P
    BY <1>1, <1>2, Upwards
  <2>. QED BY <2>1
<1>. QED BY <1>3

LEMMA PowerIs ==
  /\ Power[0] = 1
  /\ \A n \in Nat : Power[n] \in Nat /\ Power[n + 1] = RADIX * Power[n]
<1> DEFINE Chain(n) == CHOOSE f \in [0..n -> Nat] : IsPower(f, n)
           p == [n \in Nat |-> Chain(n)[n]]
<1>1. ASSUME NEW n \in Nat PROVE Chain(n) \in [0..n -> Nat] /\ IsPower(Chain(n), n)
  BY PowersExist
<1>2. ASSUME NEW n \in Nat
      PROVE  p[n] \in Nat /\ p[n + 1] = RADIX * p[n]
  <2>1. PICK m \in Nat : m = n + 1
    OBVIOUS
  <2>2. PICK f, g : f = Chain(n) /\ g = Chain(m)
    OBVIOUS
  <2>3. f \in [0..n -> Nat] /\ IsPower(f, n) /\ IsPower(g, m)
    BY <1>1, <2>2
  <2>4. p[n] = f[n] /\ p[m] = g[m]
    BY <2>2
  <2>5. f[n] = g[n]
    BY <2>1, <2>3, PowersAgree
  <2>6. g[m] = RADIX * g[m - 1] /\ m - 1 = n
    BY <2>1, <2>3 DEF IsPower
  <2>. QED BY <2>1, <2>3, <2>4, <2>5, <2>6
<1>3. p[0] = 1
  <2>1. IsPower(Chain(0), 0)
    BY <1>1
  <2>2. Chain(0)[0] = 1
    BY <2>1 DEF IsPower
  <2>. QED BY <2>2
<1> DEFINE Step(f, n) == IF n = 0 THEN 1 ELSE RADIX * f[n - 1]
           h == CHOOSE f : f = [n \in Nat |-> Step(f, n)]
<1>4. Power = h
  BY DEF Power
<1>5. p = [n \in Nat |-> Step(p, n)]
  <2>1. ASSUME NEW n \in Nat PROVE p[n] = Step(p, n)
    <3>1. CASE n = 0
      BY <1>3, <3>1
    <3>2. CASE n # 0
      <4>1. PICK m \in Nat : n = m + 1 /\ n - 1 = m
        <5>1. n - 1 \in Nat /\ n = n - 1 + 1
          BY <3>2
        <5>. QED BY <5>1
      <4>2. p[m + 1] = RADIX * p[m]
        BY <1>2
      <4>. HIDE DEF p
      <4>. QED BY <3>2, <4>1, <4>2
    <3>. QED BY <3>1, <3>2
  <2>2. p = [n \in Nat |-> p[n]]
    OBVIOUS
  <2>. HIDE DEF p, Step
  <2>. QED BY <2>1, <2>2
<1>6. h = [n \in Nat |-> Step(h, n)]
  <2>. HIDE DEF p, Step
  <2>. QED BY <1>5
<1>. HIDE DEF p, h
<1>7. \A n \in Nat : h[n] = Step(h, n)
  <2>. HIDE DEF Step
  <2>. QED BY <1>6
<1>8. h[0] = 1
  BY <1>7
<1>9. \A n \in Nat : h[n + 1] = RADIX * h[n]
  <2> TAKE n \in Nat
  <2>1. n + 1 \in Nat /\ n + 1 # 0 /\ n + 1 - 1 = n
    OBVIOUS
  <2>. QED BY <1>7, <2>1
<1>10. ASSUME NEW n \in Nat PROVE h[n] = p[n]
  <2> DEFINE P == {k \in 0..n : h[k] = p[k]}
  <2>1. 0 \in P
    BY <1>3, <1>8
  <2>2. \A k \in 1..n : k - 1 \in P => k \in P
    <3> SUFFICES ASSUME NEW k \in 1..n, k - 1 \in P PROVE k \in P
      OBVIOUS
    <3>1. PICK m \in Nat : m = k - 1 /\ k = m + 1
      OBVIOUS
    <3>2. h[m + 1] = RADIX * h[m] /\ p[m + 1] = RADIX * p[m] /\ h[m] = p[m]
      BY <1>2, <1>9, <3>1
    <3>. QED BY <3>1, <3>2
  <2>3. n \in P
    <3>. HIDE DEF P
    <3>1. \A k \in 0..n : k \in P
      BY <2>1, <2>2, Upwards
    <3>. QED BY <3>1
  <2>. QED BY <2>3
<1>. QED BY <1>2, <1>4, <1>8, <1>9, <1>10

LEMMA PowerPositive ==
  ASSUME NEW n \in Nat
  PROVE  Power[n] \in Nat /\ Power[n] > 0
<1> DEFINE P == {k \in 0..n : Power[k] > 0}
<1>1. 0 \in P
  BY PowerIs
<1>2. \A k \in 1..n : k - 1 \in P => k \in P
  <2> SUFFICES ASSUME NEW k \in 1..n, k - 1 \in P PROVE k \in P
    OBVIOUS
  <2>1. PICK m \in Nat : m = k - 1 /\ k = m + 1
    OBVIOUS
  <2>2. PICK x \in Nat, R \in Nat : x = Power[m] /\ x > 0 /\ R = RADIX /\ R > 0
    BY <2>1, PowerIs, SerializeAssumption
  <2>3. Power[k] = R * x
    BY <2>1, <2>2, PowerIs
  <2>4. R * x > 0
    BY <2>2, SMTT(20)
  <2>. QED BY <2>3, <2>4
<1>3. n \in P
  <2>. HIDE DEF P
  <2>1. \A k \in 0..n : k \in P
    BY <1>1, <1>2, Upwards
  <2>. QED BY <2>1
<1>. QED BY <1>3, PowerIs

------------------------------------------------------------------------------
(* Numbers as bytes.                                                       *)

\* f[k] is the number in the last bytes of b, from the k-th of w on.
IsValue(f, b, w) ==
  f[w + 1] = 0 /\ \A k \in 1..w : f[k] = b[k] + RADIX * f[k + 1]

LEMMA ValueExists ==
  ASSUME NEW w \in Nat, NEW b \in [1..w -> Byte]
  PROVE  \E f \in [1..(w + 1) -> Nat] : IsValue(f, b, w)
<1>1. PICK R \in Nat : R = RADIX
  BY SerializeAssumption
<1> DEFINE G == [k \in 1..w |-> [x \in Nat |-> b[k] + R * x]]
           N == [k \in 1..w |-> k + 1]
<1>2. G \in [1..w -> [Nat -> Nat]]
  <2>1. ASSUME NEW k \in 1..w PROVE G[k] \in [Nat -> Nat]
    <3>1. b[k] \in Nat
      BY <1>1 DEF Byte
    <3>2. ASSUME NEW x \in Nat PROVE b[k] + R * x \in Nat
      <4>1. R * x \in Nat
        BY SMTT(20)
      <4>. QED BY <3>1, <4>1
    <3>. QED BY <3>2
  <2>. QED BY <2>1
<1>3. N \in [1..w -> 1..(w + 1)] /\ \A i \in 1..w : i < N[i]
  OBVIOUS
<1>4. PICK f \in [1..(w + 1) -> Nat] : Jumps(w, N, G, 0, f)
  <2>. HIDE DEF G, N
  <2>1. 0 \in Nat
    OBVIOUS
  <2>. QED BY <1>2, <1>3, <2>1, JumpsExist
<1>5. f[w + 1] = 0
  <2>1. w + 1 \in 1..(w + 1) /\ w + 1 > w
    OBVIOUS
  <2>. QED BY <1>4, <2>1 DEF Jumps
<1>6. ASSUME NEW k \in 1..w PROVE f[k] = b[k] + R * f[k + 1]
  <2>1. k \in 1..(w + 1) /\ k + 1 \in 1..(w + 1) /\ ~(k > w) /\ N[k] = k + 1
    OBVIOUS
  <2>2. f[k] = G[k][f[N[k]]]
    <3>. HIDE DEF G, N
    <3>. QED BY <1>4, <2>1 DEF Jumps
  <2>3. f[k + 1] \in Nat
    BY <2>1
  <2>4. G[k][f[k + 1]] = b[k] + R * f[k + 1]
    BY <2>3
  <2>. HIDE DEF G, N
  <2>. QED BY <2>1, <2>2, <2>4
<1>. QED BY <1>1, <1>5, <1>6 DEF IsValue

LEMMA FromBytesIs ==
  ASSUME NEW w \in Nat, NEW b \in [1..w -> Byte]
  PROVE  \E f \in [1..(w + 1) -> Nat] : IsValue(f, b, w) /\ from_bytes(b) = f[1]
<1>1. PICK f \in [1..(w + 1) -> Nat] : IsValue(f, b, w)
  BY ValueExists
<1>2. Len(b) = w
  OBVIOUS
<1> DEFINE Step(g, k) == IF k > w THEN 0 ELSE b[k] + RADIX * g[k + 1]
           h == CHOOSE g : g = [k \in 1..(w + 1) |-> Step(g, k)]
<1>3. from_bytes(b) = h[1]
  BY <1>2 DEF from_bytes
<1>4. f = [k \in 1..(w + 1) |-> Step(f, k)]
  <2>1. ASSUME NEW k \in 1..(w + 1) PROVE f[k] = Step(f, k)
    <3>1. (k \in 1..w /\ ~(k > w)) \/ (k = w + 1 /\ k > w)
      OBVIOUS
    <3>. QED BY <1>1, <3>1 DEF IsValue
  <2>2. f = [k \in 1..(w + 1) |-> f[k]]
    OBVIOUS
  <2>. HIDE DEF Step
  <2>. QED BY <2>1, <2>2
<1>5. h = [k \in 1..(w + 1) |-> Step(h, k)]
  <2>. HIDE DEF Step
  <2>. QED BY <1>4
<1>. HIDE DEF h
<1>6. \A k \in 1..(w + 1) : h[k] = Step(h, k) /\ f[k] = Step(f, k)
  <2>. HIDE DEF Step
  <2>. QED BY <1>4, <1>5
<1> DEFINE P == {k \in 1..(w + 1) : h[k] = f[k]}
<1>7. \A i \in 1..(w + 1) : (\A j \in (i + 1)..(w + 1) : j \in P) => i \in P
  <2> SUFFICES ASSUME NEW i \in 1..(w + 1), \A j \in (i + 1)..(w + 1) : j \in P
               PROVE  i \in P
    OBVIOUS
  <2>1. CASE i > w
    BY <1>6, <2>1
  <2>2. CASE ~(i > w)
    <3>1. i + 1 \in (i + 1)..(w + 1)
      BY <2>2
    <3>2. h[i + 1] = f[i + 1]
      BY <3>1
    <3>. QED BY <1>6, <2>2, <3>2
  <2>. QED BY <2>1, <2>2
<1>8. h[1] = f[1]
  <2>. HIDE DEF P
  <2>1. w + 1 \in Nat /\ 1 \in 1..(w + 1)
    OBVIOUS
  <2>2. \A i \in 1..(w + 1) : i \in P
    BY <1>7, <2>1, Backwards
  <2>3. 1 \in P
    BY <2>1, <2>2
  <2>. QED BY <2>3 DEF P
<1>. QED BY <1>1, <1>3, <1>8

LEMMA ToBytesType ==
  ASSUME NEW n \in Nat, NEW w \in Nat
  PROVE  /\ to_bytes(n, w) \in [1..w -> Byte] /\ to_bytes(n, w) \in Seq(Byte)
         /\ Len(to_bytes(n, w)) = w
<1>1. ASSUME NEW k \in 1..w PROVE (n \div Power[k - 1]) % RADIX \in Byte
  <2>1. PICK p \in Nat, R \in Nat : p = Power[k - 1] /\ R = RADIX /\ p > 0 /\ R > 0
    BY PowerPositive, SerializeAssumption
  <2>2. PICK q \in Nat : q = n \div p
    BY <2>1, Divides
  <2>3. q % R \in 0..(R - 1)
    BY <2>1, <2>2, Divides
  <2>. QED BY <2>1, <2>2, <2>3 DEF Byte
<1>2. to_bytes(n, w) \in [1..w -> Byte]
  BY <1>1 DEF to_bytes
<1>. QED BY <1>2

LEMMA PowerDivides ==
  ASSUME NEW n \in Nat, NEW k \in Nat
  PROVE  /\ n \div Power[k] \in Nat
         /\ (n \div Power[k]) \div RADIX = n \div Power[k + 1]
         /\ (n \div Power[k]) % RADIX \in Byte
         /\ n \div Power[k]
              = ((n \div Power[k]) % RADIX) + RADIX * (n \div Power[k + 1])
<1>1. PICK p \in Nat, R \in Nat : p = Power[k] /\ R = RADIX /\ p > 0 /\ R > 0
  BY PowerPositive, SerializeAssumption
<1>2. PICK q \in Nat : q = n \div p
  BY <1>1, Divides
<1>3. (n \div p) \div R = n \div (R * p) /\ Power[k + 1] = R * p
  <2>1. (n \div p) \div R = n \div (R * p)
    BY <1>1, DividesTwice
  <2>2. Power[k + 1] = R * p
    BY <1>1, PowerIs
  <2>. QED BY <2>1, <2>2
<1>4. PICK t \in Nat, u \in 0..(R - 1) : t = q \div R /\ u = q % R /\ q = R * t + u
  BY <1>1, Divides
<1>5. R * t \in Nat
  BY SMTT(20)
<1>. QED BY <1>1, <1>2, <1>3, <1>4, <1>5 DEF Byte

\* Numbers that fit are read back from their bytes.
LEMMA NumberOfBytes ==
  ASSUME NEW n \in Nat, NEW w \in Nat, n < Power[w]
  PROVE  from_bytes(to_bytes(n, w)) = n
<1>1. PICK b \in [1..w -> Byte] : b = to_bytes(n, w)
  BY ToBytesType
<1>2. PICK f \in [1..(w + 1) -> Nat] : IsValue(f, b, w) /\ from_bytes(b) = f[1]
  BY FromBytesIs
<1> DEFINE Q(k) == n \div Power[k - 1]
           P == {k \in 1..(w + 1) : f[k] = Q(k)}
<1>3. Q(w + 1) = 0
  <2>1. PICK p \in Nat : p = Power[w] /\ p > 0
    BY PowerPositive
  <2>2. n = p * 0 + n
    BY <2>1, SMTT(20)
  <2>3. n \div p = 0
    BY <2>1, <2>2, DividesOnce
  <2>4. w + 1 - 1 = w
    OBVIOUS
  <2>. QED BY <2>1, <2>3, <2>4
<1>4. \A i \in 1..(w + 1) : (\A j \in (i + 1)..(w + 1) : j \in P) => i \in P
  <2> SUFFICES ASSUME NEW i \in 1..(w + 1), \A j \in (i + 1)..(w + 1) : j \in P
               PROVE  i \in P
    OBVIOUS
  <2>1. CASE i > w
    <3>1. i = w + 1
      BY <2>1
    <3>. HIDE DEF Q
    <3>. QED BY <1>2, <1>3, <3>1 DEF IsValue
  <2>2. CASE ~(i > w)
    <3>1. i + 1 \in (i + 1)..(w + 1) /\ i \in 1..w
      BY <2>2
    <3>2. f[i + 1] = Q(i + 1)
      BY <3>1
    <3>3. PICK k \in Nat : k = i - 1 /\ i = k + 1 /\ i + 1 - 1 = k + 1
      OBVIOUS
    <3>4. b[i] = (n \div Power[k]) % RADIX
      BY <1>1, <3>1, <3>3 DEF to_bytes
    <3>5. f[i] = b[i] + RADIX * f[i + 1]
      BY <1>2, <3>1 DEF IsValue
    <3>6. f[i + 1] = n \div Power[k + 1]
      BY <3>2, <3>3
    <3>7. n \div Power[k] = ((n \div Power[k]) % RADIX) + RADIX * (n \div Power[k + 1])
      BY PowerDivides
    <3>8. f[i] = n \div Power[k]
      BY <3>4, <3>5, <3>6, <3>7
    <3>. QED BY <3>3, <3>8
  <2>. QED BY <2>1, <2>2
<1>5. f[1] = Q(1)
  <2>. HIDE DEF P
  <2>1. w + 1 \in Nat /\ 1 \in 1..(w + 1)
    OBVIOUS
  <2>2. \A i \in 1..(w + 1) : i \in P
    BY <1>4, <2>1, Backwards
  <2>3. 1 \in P
    BY <2>1, <2>2
  <2>. QED BY <2>3 DEF P
<1>6. Q(1) = n
  <2>1. Q(1) = n \div 1
    <3>1. 1 - 1 = 0
      OBVIOUS
    <3>. QED BY <3>1, PowerIs
  <2>2. n = 1 * n + 0
    OBVIOUS
  <2>3. (1 * n + 0) \div 1 = n
    BY DividesOnce
  <2>. QED BY <2>1, <2>2, <2>3
<1>. QED BY <1>1, <1>2, <1>5, <1>6

\* Bytes are those of the number they are read as, in their width.
LEMMA BytesOfNumber ==
  ASSUME NEW w \in Nat, NEW b \in [1..w -> Byte]
  PROVE  /\ from_bytes(b) \in Nat /\ from_bytes(b) < Power[w]
         /\ to_bytes(from_bytes(b), w) = b
<1>1. PICK f \in [1..(w + 1) -> Nat] : IsValue(f, b, w) /\ from_bytes(b) = f[1]
  BY FromBytesIs
<1>2. PICK n \in Nat : n = from_bytes(b) /\ n = f[1]
  <2>1. 1 \in 1..(w + 1)
    OBVIOUS
  <2>2. f[1] \in Nat
    BY <2>1
  <2>. QED BY <1>1, <2>2
<1>3. PICK R \in Nat : R = RADIX /\ R > 0
  BY SerializeAssumption
<1>4. ASSUME NEW k \in 1..w
      PROVE  f[k] \div R = f[k + 1] /\ f[k] % R = b[k]
  <2>1. PICK x \in Nat, y \in Nat, d \in Nat :
          x = f[k] /\ y = f[k + 1] /\ d = b[k] /\ d < R
    <3>1. k \in 1..(w + 1) /\ k + 1 \in 1..(w + 1)
      OBVIOUS
    <3>. QED BY <1>3, <3>1 DEF Byte
  <2>2. x = d + R * y
    BY <1>1, <1>3, <2>1 DEF IsValue
  <2>3. R * y \in Nat
    BY SMTT(20)
  <2>4. x = R * y + d
    BY <2>2, <2>3
  <2>5. (R * y + d) \div R = y /\ (R * y + d) % R = d
    BY <2>1, DividesOnce
  <2>. QED BY <2>1, <2>4, <2>5
<1> DEFINE P == {k \in 0..w : f[k + 1] = n \div Power[k]}
<1>5. 0 \in P
  <2>1. n = 1 * n + 0
    OBVIOUS
  <2>2. (1 * n + 0) \div 1 = n
    BY DividesOnce
  <2>3. n \div Power[0] = n
    BY <2>1, <2>2, PowerIs
  <2>. QED BY <1>2, <2>3
<1>6. \A k \in 1..w : k - 1 \in P => k \in P
  <2> SUFFICES ASSUME NEW k \in 1..w, k - 1 \in P PROVE k \in P
    OBVIOUS
  <2>1. PICK m \in Nat : m = k - 1 /\ k = m + 1
    OBVIOUS
  <2>2. f[k] = n \div Power[m]
    BY <2>1
  <2>3. (n \div Power[m]) \div R = n \div Power[k]
    BY <1>3, <2>1, PowerDivides
  <2>. QED BY <1>4, <2>2, <2>3
<1>7. \A k \in 0..w : f[k + 1] = n \div Power[k]
  <2>. HIDE DEF P
  <2>1. \A k \in 0..w : k \in P
    BY <1>5, <1>6, Upwards
  <2>. QED BY <2>1 DEF P
<1>8. n < Power[w]
  <2>1. PICK p \in Nat : p = Power[w] /\ p > 0
    BY PowerPositive
  <2>2. n \div p = 0
    <3>1. w \in 0..w
      OBVIOUS
    <3>. QED BY <1>1, <1>7, <2>1, <3>1 DEF IsValue
  <2>3. n = p * 0 + (n % p) /\ n % p \in 0..(p - 1)
    BY <2>1, <2>2, Divides
  <2>4. p * 0 = 0
    OBVIOUS
  <2>. QED BY <2>1, <2>3, <2>4
<1>9. ASSUME NEW k \in 1..w PROVE to_bytes(n, w)[k] = b[k]
  <2>1. to_bytes(n, w)[k] = (n \div Power[k - 1]) % RADIX
    BY DEF to_bytes
  <2>2. k - 1 \in 0..w /\ k - 1 + 1 = k
    OBVIOUS
  <2>3. f[k] = n \div Power[k - 1]
    BY <1>7, <2>2
  <2>. QED BY <1>3, <1>4, <2>1, <2>3
<1>10. to_bytes(n, w) \in [1..w -> Byte]
  BY ToBytesType
<1>11. to_bytes(n, w) = b
  BY <1>9, <1>10
<1>. QED BY <1>2, <1>8, <1>11

------------------------------------------------------------------------------
(* Bytes one after the other, and readers.                                 *)

Bytestring == Seq(Byte)

Cat(x, y) == x \o y

LEMMA CatType ==
  ASSUME NEW x \in Bytestring, NEW y \in Bytestring
  PROVE  /\ Cat(x, y) \in Bytestring /\ Len(Cat(x, y)) = Len(x) + Len(y)
         /\ Len(x) \in Nat /\ Len(y) \in Nat
BY ConcatProperties, LenProperties DEF Cat, Bytestring

LEMMA CatEmpty ==
  ASSUME NEW x \in Bytestring
  PROVE  Cat(x, << >>) = x /\ Cat(<< >>, x) = x
BY ConcatEmptySeq DEF Cat, Bytestring

LEMMA CatThree ==
  ASSUME NEW x \in Bytestring, NEW y \in Bytestring, NEW z \in Bytestring
  PROVE  Cat(Cat(x, y), z) = Cat(x, Cat(y, z))
BY ConcatAssociative DEF Cat, Bytestring

LEMMA NoBytes == << >> \in Bytestring /\ Len(<< >>) = 0
BY DEF Bytestring

\* c is the m bytes of x and then the n of y.
IsCat(x, y, m, n, c) ==
  /\ Len(c) = m + n
  /\ \A i \in 1..m : c[i] = x[i]
  /\ \A i \in 1..n : c[m + i] = y[i]

LEMMA CatAt ==
  ASSUME NEW x \in Bytestring, NEW y \in Bytestring, NEW m \in Nat, NEW n \in Nat,
         m = Len(x), n = Len(y)
  PROVE  IsCat(x, y, m, n, Cat(x, y))
<1>1. PICK c : c = x \o y
  OBVIOUS
<1>2. IsJoin(x, y, m, n, c)
  BY <1>1, Joined, Zenon DEF Bytestring
<1>3. \A i \in 1..m : c[i] = x[i]
  <2> TAKE i \in 1..m
  <2>1. i \in 1..(m + n) /\ i <= m
    OBVIOUS
  <2>. QED BY <1>2, <2>1 DEF IsJoin
<1>4. \A i \in 1..n : c[m + i] = y[i]
  <2> TAKE i \in 1..n
  <2>1. PICK j \in 1..(m + n) : j = m + i /\ ~(j <= m) /\ j - m = i
    <3>1. m + i \in 1..(m + n) /\ ~(m + i <= m) /\ m + i - m = i
      OBVIOUS
    <3>. QED BY <3>1
  <2>. QED BY <1>2, <2>1 DEF IsJoin
<1>. QED BY <1>1, <1>2, <1>3, <1>4 DEF Cat, IsCat, IsJoin

LEMMA CatPrefix ==
  ASSUME NEW x \in Bytestring, NEW y \in Bytestring
  PROVE  /\ SubSeq(Cat(x, y), 1, Len(x)) = x
         /\ SubSeq(Cat(x, y), Len(x) + 1, Len(Cat(x, y))) = y
<1>1. PICK m \in Nat, n \in Nat : m = Len(x) /\ n = Len(y)
  BY CatType
<1>2. PICK c \in Bytestring : c = Cat(x, y)
  BY CatType
<1>3. /\ Len(c) = m + n /\ \A i \in 1..m : c[i] = x[i]
      /\ \A i \in 1..n : c[m + i] = y[i]
  <2>1. IsCat(x, y, m, n, Cat(x, y))
    BY <1>1, CatAt
  <2>. QED BY <1>2, <2>1 DEF IsCat
<1>4. \A i \in 1..(m + n) : c[i] \in Byte
  BY <1>2, <1>3 DEF Bytestring
<1>. HIDE DEF Byte
<1>5. SubSeq(c, 1, m) = x
  <2>1. \A i \in 1..m : c[i] \in Byte
    BY <1>4
  <2>2. PICK d : d = SubSeq(c, 1, m)
    OBVIOUS
  <2>3. /\ d \in Seq(Byte) /\ Len(d) = IF 1 <= m THEN m - 1 + 1 ELSE 0
        /\ \A i \in 1..(m - 1 + 1) : d[i] = c[1 + i - 1]
    <3>1. 1 \in Int /\ m \in Int
      OBVIOUS
    <3>. QED BY <2>1, <2>2, <3>1, SubSeqProperties
  <2>4. Len(d) = m
    BY <2>3
  <2>5. \A i \in 1..m : d[i] = x[i]
    <3> TAKE i \in 1..m
    <3>1. i \in 1..(m - 1 + 1) /\ 1 + i - 1 = i
      OBVIOUS
    <3>. QED BY <1>3, <2>3, <3>1
  <2>. QED BY <1>1, <2>2, <2>3, <2>4, <2>5, SeqEqual DEF Bytestring
<1>6. SubSeq(c, m + 1, m + n) = y
  <2>1. \A i \in (m + 1)..(m + n) : c[i] \in Byte
    BY <1>4
  <2>2. PICK a \in Int, e \in Int : a = m + 1 /\ e = m + n
    OBVIOUS
  <2>. DEFINE d == SubSeq(c, a, e)
  <2>3. /\ d \in Seq(Byte) /\ Len(d) = IF a <= e THEN e - a + 1 ELSE 0
        /\ \A i \in 1..(e - a + 1) : d[i] = c[a + i - 1]
    BY <2>1, <2>2, SubSeqProperties
  <2>4. Len(d) = n
    BY <2>2, <2>3
  <2>5. \A i \in 1..n : d[i] = y[i]
    <3> TAKE i \in 1..n
    <3>1. i \in 1..(e - a + 1) /\ a + i - 1 = m + i
      BY <2>2
    <3>. QED BY <1>3, <2>3, <3>1
  <2>. QED BY <1>1, <2>2, <2>3, <2>4, <2>5, SeqEqual DEF Bytestring
<1>. QED BY <1>1, <1>2, <1>3, <1>5, <1>6

LEMMA SplitAt ==
  ASSUME NEW b \in Bytestring, NEW n \in 0..Len(b)
  PROVE  /\ SubSeq(b, 1, n) \in Bytestring /\ Len(SubSeq(b, 1, n)) = n
         /\ SubSeq(b, n + 1, Len(b)) \in Bytestring
         /\ b = Cat(SubSeq(b, 1, n), SubSeq(b, n + 1, Len(b)))
<1>1. PICK m \in Nat : m = Len(b) /\ n \in Nat /\ n <= m
  BY LenProperties DEF Bytestring
<1>2. \A i \in 1..m : b[i] \in Byte
  BY <1>1 DEF Bytestring
<1>. HIDE DEF Byte
<1>3. SubSeq(b, 1, n) \in Bytestring /\ Len(SubSeq(b, 1, n)) = n
  <2>1. \A i \in 1..n : b[i] \in Byte
    BY <1>1, <1>2
  <2>2. 1 \in Int /\ n \in Int
    OBVIOUS
  <2>3. /\ SubSeq(b, 1, n) \in Seq(Byte) /\ Len(SubSeq(b, 1, n)) = IF 1 <= n THEN n - 1 + 1 ELSE 0
    BY <2>1, <2>2, SubSeqProperties
  <2>. QED BY <1>1, <2>3 DEF Bytestring
<1>4. SubSeq(b, n + 1, m) \in Bytestring
  <2>1. \A i \in (n + 1)..m : b[i] \in Byte
    BY <1>1, <1>2
  <2>2. n + 1 \in Int /\ m \in Int
    OBVIOUS
  <2>. QED BY <2>1, <2>2, SubSeqProperties DEF Bytestring
<1>5. SubSeq(b, 1, n) \o SubSeq(b, n + 1, m) = SubSeq(b, 1, m)
  <2>1. 1 \in 1..(Len(b) + 1) /\ n \in (1 - 1)..Len(b) /\ m \in n..Len(b)
    BY <1>1
  <2>. QED BY <2>1, ConcatAdjacentSubSeq DEF Bytestring
<1>6. SubSeq(b, 1, m) = b
  BY <1>1, SubSeqFull DEF Bytestring
<1>. QED BY <1>1, <1>3, <1>4, <1>5, <1>6 DEF Cat

\* What is read, and what is left.
Outcome(U) == [value : U, rest : Bytestring]

\* w is written for the bytes of b that were read, up to rest: not longer than
\* they are, and the same when it is as long.
Kept(b, rest, w) ==
  \E x \in Bytestring :
    b = Cat(x, rest) /\ Len(w) <= Len(x) /\ (Len(w) = Len(x) => w = x)

LEMMA KeptTwice ==
  ASSUME NEW b \in Bytestring, NEW c \in Bytestring, NEW d \in Bytestring,
         NEW v \in Bytestring, NEW w \in Bytestring, Kept(b, c, v), Kept(c, d, w)
  PROVE  Kept(b, d, Cat(v, w))
<1>1. PICK x \in Bytestring :
        b = Cat(x, c) /\ Len(v) <= Len(x) /\ (Len(v) = Len(x) => v = x)
  BY DEF Kept
<1>2. PICK y \in Bytestring :
        c = Cat(y, d) /\ Len(w) <= Len(y) /\ (Len(w) = Len(y) => w = y)
  BY DEF Kept
<1>3. b = Cat(Cat(x, y), d)
  BY <1>1, <1>2, CatThree
<1>4. /\ Cat(x, y) \in Bytestring /\ Len(Cat(x, y)) = Len(x) + Len(y)
      /\ Len(Cat(v, w)) = Len(v) + Len(w)
      /\ Len(x) \in Nat /\ Len(y) \in Nat /\ Len(v) \in Nat /\ Len(w) \in Nat
  BY CatType
<1>5. Len(Cat(v, w)) <= Len(Cat(x, y))
  BY <1>1, <1>2, <1>4
<1>6. Len(Cat(v, w)) = Len(Cat(x, y)) => Len(v) = Len(x) /\ Len(w) = Len(y)
  BY <1>1, <1>2, <1>4
<1>7. Len(Cat(v, w)) = Len(Cat(x, y)) => Cat(v, w) = Cat(x, y)
  BY <1>1, <1>2, <1>6
<1>. QED BY <1>3, <1>4, <1>5, <1>7 DEF Kept

LEMMA KeptNothing == ASSUME NEW b \in Bytestring PROVE Kept(b, b, << >>)
BY CatEmpty, NoBytes DEF Kept

\* W writes the values of U for the reader R: what was written is read back, and
\* what was read is written without growing.
ReadsBack(U, R, W) ==
  \A v \in U, z \in Bytestring : R[Cat(W[v], z)] = {[value |-> v, rest |-> z]}

WritesBack(R, W) == \A b \in Bytestring : \A c \in R[b] : Kept(b, c.rest, W[c.value])

IsReader(U, R, W) ==
  /\ R \in [Bytestring -> SUBSET Outcome(U)]
  /\ W \in [U -> Bytestring]
  /\ ReadsBack(U, R, W)
  /\ WritesBack(R, W)

LEMMA ReadIs ==
  ASSUME NEW b \in Bytestring, NEW n \in Nat, NEW c \in Read(b, n)
  PROVE  /\ n <= Len(b) /\ c = [value |-> c.value, rest |-> c.rest]
         /\ c.value \in Bytestring /\ Len(c.value) = n /\ c.rest \in Bytestring
         /\ b = Cat(c.value, c.rest)
<1>1. Len(b) \in Nat
  BY LenProperties DEF Bytestring
<1>2. n <= Len(b) /\ c = [value |-> SubSeq(b, 1, n), rest |-> SubSeq(b, n + 1, Len(b))]
  BY <1>1 DEF Read
<1>3. n \in 0..Len(b)
  BY <1>1, <1>2
<1>4. c.value = SubSeq(b, 1, n) /\ c.rest = SubSeq(b, n + 1, Len(b))
  BY <1>2
<1>. QED BY <1>2, <1>3, <1>4, SplitAt

LEMMA ReadAgain ==
  ASSUME NEW x \in Bytestring, NEW z \in Bytestring, NEW n, n = Len(x)
  PROVE  Read(Cat(x, z), n) = {[value |-> x, rest |-> z]}
<1>1. /\ SubSeq(Cat(x, z), 1, Len(x)) = x
      /\ SubSeq(Cat(x, z), Len(x) + 1, Len(Cat(x, z))) = z
  BY CatPrefix
<1>2. ~(Len(x) > Len(Cat(x, z)))
  BY CatType
<1>. QED BY <1>1, <1>2 DEF Read

\* Bytes of a length.
Strings(n) == {x \in Bytestring : Len(x) = n}
Plain(n) == [b \in Bytestring |-> Read(b, n)]
Same(U) == [v \in U |-> v]

LEMMA StringReader ==
  ASSUME NEW n \in Nat
  PROVE  IsReader(Strings(n), Plain(n), Same(Strings(n)))
<1>1. ASSUME NEW b \in Bytestring, NEW c \in Read(b, n)
      PROVE  c \in Outcome(Strings(n)) /\ Kept(b, c.rest, c.value)
  <2>1. /\ c = [value |-> c.value, rest |-> c.rest]
        /\ c.value \in Bytestring /\ Len(c.value) = n /\ c.rest \in Bytestring
        /\ b = Cat(c.value, c.rest)
    BY ReadIs
  <2>2. c \in Outcome(Strings(n))
    BY <2>1, Zenon DEF Outcome, Strings
  <2>3. Len(c.value) <= Len(c.value)
    BY <2>1
  <2>. QED BY <2>1, <2>2, <2>3 DEF Kept
<1>2. Plain(n) \in [Bytestring -> SUBSET Outcome(Strings(n))]
  BY <1>1 DEF Plain
<1>3. Same(Strings(n)) \in [Strings(n) -> Bytestring]
  BY DEF Same, Strings
<1>4. ReadsBack(Strings(n), Plain(n), Same(Strings(n)))
  <2>1. ASSUME NEW v \in Strings(n), NEW z \in Bytestring
        PROVE  Plain(n)[Cat(Same(Strings(n))[v], z)] = {[value |-> v, rest |-> z]}
    <3>1. v \in Bytestring /\ Len(v) = n
      BY DEF Strings
    <3>2. Read(Cat(v, z), n) = {[value |-> v, rest |-> z]}
      BY <3>1, ReadAgain
    <3>3. Cat(v, z) \in Bytestring /\ Same(Strings(n))[v] = v
      BY <3>1, CatType DEF Same
    <3>. QED BY <3>2, <3>3 DEF Plain
  <2>. QED BY <2>1 DEF ReadsBack
<1>5. WritesBack(Plain(n), Same(Strings(n)))
  <2>1. ASSUME NEW b \in Bytestring, NEW c \in Plain(n)[b]
        PROVE  Kept(b, c.rest, Same(Strings(n))[c.value])
    <3>1. c \in Read(b, n)
      BY DEF Plain
    <3>2. Kept(b, c.rest, c.value) /\ c.value \in Strings(n)
      BY <1>1, <3>1 DEF Outcome
    <3>. QED BY <3>2 DEF Same
  <2>. QED BY <2>1 DEF WritesBack
<1>. QED BY <1>2, <1>3, <1>4, <1>5 DEF IsReader

\* Numbers of a width.
Numbers(w) == {n \in Nat : n < Power[w]}
IntBytes(w) == [n \in Numbers(w) |-> to_bytes(n, w)]
ReadsInt(w) == [b \in Bytestring |-> ReadInt(b, w)]

LEMMA ReadIntIs ==
  ASSUME NEW b \in Bytestring, NEW w \in Nat, NEW c \in ReadInt(b, w)
  PROVE  /\ c \in Outcome(Numbers(w)) /\ to_bytes(c.value, w) \in Bytestring
         /\ Len(to_bytes(c.value, w)) = w
         /\ b = Cat(to_bytes(c.value, w), c.rest)
<1>1. PICK d \in Read(b, w) : c = [d EXCEPT !.value = from_bytes(@)]
  BY DEF ReadInt
<1>2. /\ d = [value |-> d.value, rest |-> d.rest]
      /\ d.value \in Bytestring /\ Len(d.value) = w /\ d.rest \in Bytestring
      /\ b = Cat(d.value, d.rest)
  BY ReadIs
<1>3. PICK x \in Bytestring, r \in Bytestring :
        x = d.value /\ r = d.rest /\ Len(x) = w /\ d = [value |-> x, rest |-> r] /\ b = Cat(x, r)
  BY <1>2
<1>4. c = [value |-> from_bytes(x), rest |-> r]
  BY <1>1, <1>3
<1>5. x \in [1..w -> Byte]
  BY <1>3 DEF Bytestring
<1>6. /\ from_bytes(x) \in Nat /\ from_bytes(x) < Power[w]
      /\ to_bytes(from_bytes(x), w) = x
  BY <1>5, BytesOfNumber
<1>. QED BY <1>3, <1>4, <1>6 DEF Outcome, Numbers

LEMMA ReadIntAgain ==
  ASSUME NEW w \in Nat, NEW n \in Numbers(w), NEW z \in Bytestring
  PROVE  ReadInt(Cat(to_bytes(n, w), z), w) = {[value |-> n, rest |-> z]}
<1>1. n \in Nat /\ n < Power[w]
  BY DEF Numbers
<1>2. PICK x \in Bytestring : x = to_bytes(n, w) /\ Len(x) = w
  BY <1>1, ToBytesType DEF Bytestring
<1>3. from_bytes(x) = n
  BY <1>1, <1>2, NumberOfBytes
<1>4. Read(Cat(x, z), w) = {[value |-> x, rest |-> z]}
  BY <1>2, ReadAgain
<1>. QED BY <1>2, <1>3, <1>4 DEF ReadInt

LEMMA IntReader ==
  ASSUME NEW w \in Nat
  PROVE  IsReader(Numbers(w), ReadsInt(w), IntBytes(w))
<1>1. ReadsInt(w) \in [Bytestring -> SUBSET Outcome(Numbers(w))]
  BY ReadIntIs DEF ReadsInt
<1>2. IntBytes(w) \in [Numbers(w) -> Bytestring]
  BY ToBytesType DEF IntBytes, Numbers, Bytestring
<1>3. ReadsBack(Numbers(w), ReadsInt(w), IntBytes(w))
  <2>1. ASSUME NEW n \in Numbers(w), NEW z \in Bytestring
        PROVE  ReadsInt(w)[Cat(IntBytes(w)[n], z)] = {[value |-> n, rest |-> z]}
    <3>1. IntBytes(w)[n] = to_bytes(n, w) /\ IntBytes(w)[n] \in Bytestring
      BY <1>2 DEF IntBytes
    <3>2. Cat(IntBytes(w)[n], z) \in Bytestring
      BY <3>1, CatType
    <3>. QED BY <3>1, <3>2, ReadIntAgain DEF ReadsInt
  <2>. QED BY <2>1 DEF ReadsBack
<1>4. WritesBack(ReadsInt(w), IntBytes(w))
  <2>1. ASSUME NEW b \in Bytestring, NEW c \in ReadsInt(w)[b]
        PROVE  Kept(b, c.rest, IntBytes(w)[c.value])
    <3>1. c \in ReadInt(b, w)
      BY DEF ReadsInt
    <3>2. /\ c \in Outcome(Numbers(w)) /\ to_bytes(c.value, w) \in Bytestring
          /\ Len(to_bytes(c.value, w)) = w
          /\ b = Cat(to_bytes(c.value, w), c.rest)
      BY <3>1, ReadIntIs
    <3>3. IntBytes(w)[c.value] = to_bytes(c.value, w)
      BY <3>2 DEF IntBytes, Outcome
    <3>4. w <= w
      OBVIOUS
    <3>. QED BY <3>2, <3>3, <3>4 DEF Kept
  <2>. QED BY <2>1 DEF WritesBack
<1>. QED BY <1>1, <1>2, <1>3, <1>4 DEF IsReader

------------------------------------------------------------------------------
(* Compact sizes and byte vectors.                                         *)

LEMMA PowerGrows ==
  ASSUME NEW m \in Nat, NEW n \in Nat, m <= n
  PROVE  Power[m] <= Power[n]
<1> DEFINE P == {k \in 0..n : k < m \/ Power[m] <= Power[k]}
<1>1. 0 \in P
  <2>1. Power[0] \in Nat
    BY PowerPositive
  <2>2. 0 \in 0..n /\ (0 < m \/ m = 0)
    OBVIOUS
  <2>. QED BY <2>1, <2>2
<1>2. \A k \in 1..n : k - 1 \in P => k \in P
  <2> SUFFICES ASSUME NEW k \in 1..n, k - 1 \in P, ~(k < m) PROVE Power[m] <= Power[k]
    OBVIOUS
  <2>1. CASE k = m
    <3>1. Power[m] \in Nat
      BY PowerPositive
    <3>. QED BY <2>1, <3>1
  <2>2. CASE k # m
    <3>1. PICK j \in Nat : j = k - 1 /\ k = j + 1 /\ ~(j < m)
      BY <2>2
    <3>2. PICK x \in Nat, y \in Nat, R \in Nat :
            x = Power[m] /\ y = Power[j] /\ R = RADIX /\ R > 0
      BY <3>1, PowerPositive, SerializeAssumption
    <3>3. x <= y /\ Power[k] = R * y
      BY <3>1, <3>2, PowerIs
    <3>4. y <= R * y
      <4>1. PICK r \in Nat : R = r + 1
        <5>1. R - 1 \in Nat /\ R = R - 1 + 1
          BY <3>2
        <5>. QED BY <5>1
      <4>2. R * y = r * y + y /\ r * y \in Nat
        BY <4>1, SMTT(20)
      <4>. QED BY <4>2
    <3>5. R * y \in Nat
      BY SMTT(20)
    <3>. QED BY <3>2, <3>3, <3>4, <3>5
  <2>. QED BY <2>1, <2>2
<1>3. n \in P
  <2>. HIDE DEF P
  <2>1. \A k \in 0..n : k \in P
    BY <1>1, <1>2, Upwards
  <2>. QED BY <2>1
<1>. QED BY <1>3

LEMMA PowerOne == Power[1] = RADIX
<1>1. Power[0] = 1 /\ Power[0 + 1] = RADIX * Power[0]
  BY PowerIs
<1>. QED BY <1>1, SerializeAssumption

\* A byte is an integer of width 1.
LEMMA OneByteIs ==
  ASSUME NEW v \in Byte
  PROVE  /\ v \in Nat /\ v \in Numbers(1) /\ to_bytes(v, 1) = <<v>>
         /\ <<v>> \in Bytestring /\ Len(<<v>>) = 1 /\ <<v>>[1] = v
<1>1. PICK R \in Nat : R = RADIX /\ R > 3
  BY SerializeAssumption
<1>2. v \in Nat /\ v < R
  BY <1>1 DEF Byte
<1>3. v = 1 * v + 0 /\ v = R * 0 + v
  BY <1>2
<1>4. v \div 1 = v
  <2>1. (1 * v + 0) \div 1 = v
    BY <1>2, DividesOnce
  <2>. QED BY <1>3, <2>1
<1>5. v % R = v
  <2>1. (R * 0 + v) % R = v
    BY <1>2, DividesOnce
  <2>. QED BY <1>3, <2>1
<1>6. to_bytes(v, 1)[1] = v
  <2>1. 1 \in 1..1 /\ 1 - 1 = 0
    OBVIOUS
  <2>2. to_bytes(v, 1)[1] = (v \div Power[0]) % RADIX
    BY <2>1 DEF to_bytes
  <2>. QED BY <1>1, <1>4, <1>5, <2>2, PowerIs
<1>7. to_bytes(v, 1) \in [1..1 -> Byte]
  BY <1>2, ToBytesType
<1>8. to_bytes(v, 1) = <<v>>
  BY <1>6, <1>7
<1>9. <<v>> \in Bytestring /\ Len(<<v>>) = 1 /\ <<v>>[1] = v
  BY DEF Bytestring
<1>. QED BY <1>1, <1>2, <1>8, <1>9, PowerOne DEF Numbers

LEMMA ReadByteIs ==
  ASSUME NEW b \in Bytestring, NEW c \in ReadInt(b, 1)
  PROVE  /\ c \in Outcome(Byte) /\ <<c.value>> \in Bytestring /\ Len(<<c.value>>) = 1
         /\ b = Cat(<<c.value>>, c.rest)
<1>1. c \in Outcome(Numbers(1)) /\ b = Cat(to_bytes(c.value, 1), c.rest)
  BY ReadIntIs
<1>2. Numbers(1) = Byte
  <2>1. PICK R \in Nat : R = RADIX /\ R > 0
    BY SerializeAssumption
  <2>2. \A n : n \in Nat /\ n < R <=> n \in 0..(R - 1)
    BY <2>1
  <2>. QED BY <2>1, <2>2, PowerOne DEF Numbers, Byte
<1>3. c.value \in Byte
  BY <1>1, <1>2 DEF Outcome
<1>. QED BY <1>1, <1>2, <1>3, OneByteIs

LEMMA ReadByteAgain ==
  ASSUME NEW v \in Byte, NEW z \in Bytestring
  PROVE  ReadInt(Cat(<<v>>, z), 1) = {[value |-> v, rest |-> z]}
<1>1. v \in Numbers(1) /\ to_bytes(v, 1) = <<v>> /\ 1 \in Nat
  BY OneByteIs
<1>. QED BY <1>1, ReadIntAgain

\* The width that a marker announces.
Width(m) == CASE m = Marker -> SHORT [] m = Marker + 1 -> INT [] OTHER -> LONG

LEMMA MarkersAre ==
  /\ Marker \in Nat /\ Marker > 0 /\ RADIX \in Nat
  /\ {Marker, Marker + 1, Marker + 2} \subseteq Byte
  /\ \A v \in Byte : v \in Nat /\ (v < Marker \/ v \in {Marker, Marker + 1, Marker + 2})
  /\ Width(Marker) = SHORT /\ Width(Marker + 1) = INT /\ Width(Marker + 2) = LONG
  /\ SHORT \in Nat /\ INT \in Nat /\ LONG \in Nat /\ 0 < SHORT /\ SHORT < INT /\ INT < LONG
<1>1. PICK R \in Nat : R = RADIX /\ R > 3
  BY SerializeAssumption
<1>2. PICK m \in Nat : m = Marker /\ R = m + 3 /\ m > 0
  <2>1. R - 3 \in Nat /\ R = R - 3 + 3 /\ R - 3 > 0
    BY <1>1
  <2>. QED BY <1>1, <2>1 DEF Marker
<1>3. Byte = 0..(m + 2)
  BY <1>1, <1>2 DEF Byte
<1>4. m # m + 1 /\ m # m + 2 /\ m + 1 # m + 2
  OBVIOUS
<1>5. Width(m) = SHORT /\ Width(m + 1) = INT /\ Width(m + 2) = LONG
  BY <1>2, <1>4 DEF Width
<1>. QED BY <1>1, <1>2, <1>3, <1>5, SerializeAssumption

LEMMA ReadSizeTurn ==
  ASSUME NEW b
  PROVE  ReadCompactSize(b) =
           UNION {IF c.value < Marker THEN {c}
                  ELSE ReadInt(c.rest, Width(c.value)) : c \in ReadInt(b, 1)}
BY DEF ReadCompactSize, Width

Sizes == Numbers(LONG)
SizeBytes == [n \in Sizes |-> encode_compact_size(n)]
ReadsSize == [b \in Bytestring |-> ReadCompactSize(b)]

\* A marker and an integer.
Marked(m, n) == Cat(<<m>>, to_bytes(n, Width(m)))

LEMMA MarkedIs ==
  ASSUME NEW m \in Byte, NEW n \in Nat
  PROVE  /\ Marked(m, n) \in Bytestring /\ Len(Marked(m, n)) = 1 + Width(m)
         /\ Width(m) \in {SHORT, INT, LONG} /\ Width(m) \in Nat /\ Width(m) > 0
<1>1. Width(m) \in {SHORT, INT, LONG} /\ Width(m) \in Nat /\ Width(m) > 0
  <2>1. Width(m) \in {SHORT, INT, LONG}
    BY DEF Width
  <2>. QED BY <2>1, MarkersAre
<1>2. to_bytes(n, Width(m)) \in Bytestring /\ Len(to_bytes(n, Width(m))) = Width(m)
  BY <1>1, ToBytesType DEF Bytestring
<1>3. <<m>> \in Bytestring /\ Len(<<m>>) = 1
  BY OneByteIs
<1>. QED BY <1>1, <1>2, <1>3, CatType DEF Marked

LEMMA MarkedSizes ==
  ASSUME NEW n \in Nat
  PROVE  /\ Len(Marked(Marker, n)) = 1 + SHORT
         /\ Len(Marked(Marker + 1, n)) = 1 + INT
<1>1. Marker \in Byte /\ Marker + 1 \in Byte
  BY MarkersAre
<1>2. Len(Marked(Marker, n)) = 1 + Width(Marker)
  BY <1>1, MarkedIs
<1>3. Len(Marked(Marker + 1, n)) = 1 + Width(Marker + 1)
  BY <1>1, MarkedIs
<1>. QED BY <1>2, <1>3, MarkersAre

LEMMA MarkedAgain ==
  ASSUME NEW m \in {Marker, Marker + 1, Marker + 2}, NEW n \in Numbers(Width(m)),
         NEW z \in Bytestring
  PROVE  ReadCompactSize(Cat(Marked(m, n), z)) = {[value |-> n, rest |-> z]}
<1>1. m \in Byte /\ ~(m < Marker) /\ Width(m) \in Nat /\ n \in Nat
  <2>1. m \in Byte
    BY MarkersAre
  <2>. QED BY <2>1, MarkedIs, MarkersAre DEF Numbers
<1>2. PICK t \in Bytestring : t = to_bytes(n, Width(m))
  BY <1>1, ToBytesType DEF Bytestring
<1>3. Cat(Marked(m, n), z) = Cat(<<m>>, Cat(t, z)) /\ Cat(t, z) \in Bytestring
  BY <1>1, <1>2, OneByteIs, CatThree, CatType DEF Marked
<1>4. ReadInt(Cat(Marked(m, n), z), 1) = {[value |-> m, rest |-> Cat(t, z)]}
  BY <1>1, <1>3, ReadByteAgain
<1>5. ReadInt(Cat(t, z), Width(m)) = {[value |-> n, rest |-> z]}
  BY <1>1, <1>2, ReadIntAgain
<1> DEFINE d == [value |-> m, rest |-> Cat(t, z)]
           F(c) == IF c.value < Marker THEN {c} ELSE ReadInt(c.rest, Width(c.value))
<1>6. F(d) = {[value |-> n, rest |-> z]}
  BY <1>1, <1>5
<1>7. ReadCompactSize(Cat(Marked(m, n), z)) = UNION {F(c) : c \in {d}}
  BY <1>4, ReadSizeTurn
<1>. HIDE DEF d, F
<1>8. UNION {F(c) : c \in {d}} = F(d)
  OBVIOUS
<1>. QED BY <1>6, <1>7, <1>8

\* A size is written in the first of the four ways that it fits.
LEMMA SizeBytesAre ==
  ASSUME NEW n \in Nat
  PROVE  /\ n < Marker => encode_compact_size(n) = <<n>> /\ n \in Byte
         /\ ~(n < Marker) /\ n < Power[SHORT] => encode_compact_size(n) = Marked(Marker, n)
         /\ ~(n < Marker) /\ ~(n < Power[SHORT]) /\ n < Power[INT] =>
              encode_compact_size(n) = Marked(Marker + 1, n)
         /\ ~(n < Marker) /\ ~(n < Power[SHORT]) /\ ~(n < Power[INT]) =>
              encode_compact_size(n) = Marked(Marker + 2, n)
<1>1. /\ Marked(Marker, n) = <<Marker>> \o to_bytes(n, SHORT)
      /\ Marked(Marker + 1, n) = <<Marker + 1>> \o to_bytes(n, INT)
      /\ Marked(Marker + 2, n) = <<Marker + 2>> \o to_bytes(n, LONG)
  BY MarkersAre, Zenon DEF Marked, Cat
<1>2. n < Marker => n \in Byte
  BY SerializeAssumption DEF Marker, Byte
<1>. QED BY <1>1, <1>2, Zenon DEF encode_compact_size

LEMMA SizeAgain ==
  ASSUME NEW n \in Sizes, NEW z \in Bytestring
  PROVE  /\ encode_compact_size(n) \in Bytestring /\ Len(encode_compact_size(n)) \in Nat
         /\ Len(encode_compact_size(n)) >= 1
         /\ n > 0 => encode_compact_size(n)[1] # 0
         /\ ReadCompactSize(Cat(encode_compact_size(n), z)) = {[value |-> n, rest |-> z]}
<1>1. n \in Nat /\ n < Power[LONG]
  BY DEF Sizes, Numbers
<1>2. CASE n < Marker
  <2>1. encode_compact_size(n) = <<n>> /\ n \in Byte
    BY <1>1, <1>2, SizeBytesAre
  <2>2. ReadInt(Cat(<<n>>, z), 1) = {[value |-> n, rest |-> z]}
    BY <2>1, ReadByteAgain
  <2>3. ReadCompactSize(Cat(<<n>>, z)) = {[value |-> n, rest |-> z]}
    BY <1>2, <2>2, ReadSizeTurn
  <2>. QED BY <1>1, <2>1, <2>3, OneByteIs
<1>3. CASE ~(n < Marker)
  <2>1. PICK m \in {Marker, Marker + 1, Marker + 2} :
          encode_compact_size(n) = Marked(m, n) /\ n \in Numbers(Width(m))
    <3>1. \/ encode_compact_size(n) = Marked(Marker, n) /\ n < Power[Width(Marker)]
          \/ encode_compact_size(n) = Marked(Marker + 1, n) /\ n < Power[Width(Marker + 1)]
          \/ encode_compact_size(n) = Marked(Marker + 2, n) /\ n < Power[Width(Marker + 2)]
      BY <1>1, <1>3, SizeBytesAre, MarkersAre, Zenon
    <3>. QED BY <1>1, <3>1 DEF Numbers
  <2>2. m \in Byte /\ m \in Nat /\ m > 0
    BY MarkersAre
  <2>3. PICK t \in Bytestring : t = to_bytes(n, Width(m))
    BY <1>1, <2>2, MarkedIs, ToBytesType DEF Bytestring
  <2>4. PICK w \in Nat : w = Len(t)
    BY CatType
  <2>5. /\ Marked(m, n) = Cat(<<m>>, t) /\ <<m>> \in Bytestring
        /\ 1 = Len(<<m>>) /\ <<m>>[1] = m
    BY <2>2, <2>3, OneByteIs DEF Marked
  <2>6. IsCat(<<m>>, t, 1, w, Marked(m, n))
    <3>1. 1 \in Nat
      OBVIOUS
    <3>. QED BY <2>4, <2>5, <3>1, CatAt
  <2>7. Marked(m, n)[1] = m /\ Len(Marked(m, n)) = 1 + w
    <3>1. 1 \in 1..1
      OBVIOUS
    <3>. QED BY <2>5, <2>6, <3>1 DEF IsCat
  <2>. QED BY <2>1, <2>2, <2>4, <2>7, <1>1, MarkedIs, MarkedAgain
<1>. QED BY <1>2, <1>3

LEMMA SizeKept ==
  ASSUME NEW b \in Bytestring, NEW c \in ReadCompactSize(b)
  PROVE  c \in Outcome(Sizes) /\ Kept(b, c.rest, encode_compact_size(c.value))
<1>1. PICK d \in ReadInt(b, 1) :
        c \in (IF d.value < Marker THEN {d} ELSE ReadInt(d.rest, Width(d.value)))
  BY ReadSizeTurn
<1>2. PICK m \in Byte, r \in Bytestring :
        /\ d = [value |-> m, rest |-> r] /\ m = d.value /\ r = d.rest
        /\ <<m>> \in Bytestring /\ Len(<<m>>) = 1 /\ b = Cat(<<m>>, r)
  <2>1. /\ d \in Outcome(Byte) /\ <<d.value>> \in Bytestring /\ Len(<<d.value>>) = 1
        /\ b = Cat(<<d.value>>, d.rest)
    BY ReadByteIs
  <2>2. /\ d.value \in Byte /\ d.rest \in Bytestring
        /\ d = [value |-> d.value, rest |-> d.rest]
    BY <2>1, Zenon DEF Outcome
  <2>. QED BY <2>1, <2>2, Zenon
<1>3. CASE m < Marker
  <2>1. c = [value |-> m, rest |-> r] /\ c.value = m /\ c.rest = r
    BY <1>1, <1>2, <1>3
  <2>2. encode_compact_size(m) = <<m>>
    BY <1>3, MarkersAre, SizeBytesAre
  <2>3. Kept(b, r, <<m>>)
    <3>1. 1 <= 1
      OBVIOUS
    <3>. QED BY <1>2, <3>1 DEF Kept
  <2>4. m \in Sizes
    <3>1. m \in Numbers(1)
      BY OneByteIs
    <3>2. PICK x \in Nat, y \in Nat : x = Power[1] /\ y = Power[LONG] /\ x <= y
      <4>1. 1 \in Nat /\ 1 <= LONG /\ LONG \in Nat
        BY MarkersAre
      <4>. QED BY <4>1, PowerGrows, PowerPositive
    <3>. QED BY <3>1, <3>2 DEF Sizes, Numbers
  <2>. QED BY <2>1, <2>2, <2>3, <2>4 DEF Outcome
<1>4. CASE ~(m < Marker)
  <2>1. m \in {Marker, Marker + 1, Marker + 2} /\ Width(m) \in Nat
    BY <1>4, MarkersAre, MarkedIs
  <2>2. c \in ReadInt(r, Width(m))
    BY <1>1, <1>2, <1>4
  <2>3. PICK n \in Numbers(Width(m)), z \in Bytestring :
          /\ c = [value |-> n, rest |-> z] /\ n = c.value /\ z = c.rest
          /\ r = Cat(to_bytes(n, Width(m)), z)
    BY <2>1, <2>2, ReadIntIs DEF Outcome
  <2>4. n \in Nat /\ n < Power[Width(m)]
    BY <2>3 DEF Numbers
  <2>5. to_bytes(n, Width(m)) \in Bytestring
    BY <2>1, <2>4, ToBytesType DEF Bytestring
  <2>6. b = Cat(Marked(m, n), z)
    BY <1>2, <2>3, <2>5, CatThree DEF Marked
  <2>7. PICK s \in Nat, i \in Nat, l \in Nat :
          /\ s = Power[SHORT] /\ i = Power[INT] /\ l = Power[LONG] /\ s <= i /\ i <= l
    <3>1. Power[SHORT] \in Nat /\ Power[INT] \in Nat /\ Power[LONG] \in Nat
      BY MarkersAre, PowerPositive
    <3>2. SHORT <= INT /\ INT <= LONG
      BY MarkersAre
    <3>3. Power[SHORT] <= Power[INT] /\ Power[INT] <= Power[LONG]
      BY <3>2, MarkersAre, PowerGrows
    <3>. QED BY <3>1, <3>3
  <2>8. n \in Sizes
    <3>1. Width(m) \in {SHORT, INT, LONG}
      BY MarkedIs
    <3>2. n < l
      BY <2>4, <2>7, <3>1
    <3>. QED BY <2>4, <2>7, <3>2 DEF Sizes, Numbers
  <2>9. PICK w \in Bytestring, h \in Nat, g \in Nat, x \in Bytestring :
          /\ w = encode_compact_size(n) /\ h = Len(w) /\ x = Marked(m, n) /\ g = Len(x)
          /\ g = 1 + Width(m)
    <3>1. encode_compact_size(n) \in Bytestring /\ Len(encode_compact_size(n)) \in Nat
      BY <2>8, NoBytes, SizeAgain
    <3>2. /\ Marked(m, n) \in Bytestring /\ Len(Marked(m, n)) = 1 + Width(m)
          /\ 1 + Width(m) \in Nat
      BY <2>1, <2>4, MarkedIs
    <3>. QED BY <3>1, <3>2
  <2>10. h <= g /\ (h = g => w = x)
    <3>1. CASE n < Marker
      <4>1. w = <<n>> /\ h = 1
        <5>1. w = <<n>> /\ n \in Byte
          BY <2>4, <2>9, <3>1, SizeBytesAre
        <5>. QED BY <2>9, <5>1, OneByteIs
      <4>2. g > 1
        BY <2>1, <2>9, MarkedIs, MarkersAre
      <4>. QED BY <4>1, <4>2
    <3>2. CASE ~(n < Marker) /\ n < s
      <4>1. w = Marked(Marker, n) /\ h = 1 + SHORT
        BY <2>4, <2>7, <2>9, <3>2, SizeBytesAre, MarkedSizes
      <4>2. m = Marker \/ g > h
        BY <2>1, <2>9, <4>1, MarkersAre
      <4>. QED BY <2>9, <4>1, <4>2, MarkersAre
    <3>3. CASE ~(n < Marker) /\ ~(n < s) /\ n < i
      <4>1. w = Marked(Marker + 1, n) /\ h = 1 + INT
        BY <2>4, <2>7, <2>9, <3>3, SizeBytesAre, MarkedSizes
      <4>2. m # Marker
        BY <2>4, <2>7, <3>3, MarkersAre
      <4>3. m = Marker + 1 \/ g > h
        BY <2>1, <2>9, <4>1, <4>2, MarkersAre
      <4>4. m = Marker + 1 => w = x
        BY <2>9, <4>1
      <4>5. w = x => h = g
        BY <2>9
      <4>. QED BY <2>9, <4>3, <4>4, <4>5
    <3>4. CASE ~(n < Marker) /\ ~(n < s) /\ ~(n < i)
      <4>1. w = Marked(Marker + 2, n)
        BY <2>4, <2>7, <2>9, <3>4, SizeBytesAre
      <4>2. m # Marker /\ m # Marker + 1
        BY <2>4, <2>7, <3>4, MarkersAre
      <4>3. w = x
        BY <2>1, <2>9, <4>1, <4>2
      <4>4. w = x => h = g
        BY <2>9
      <4>. QED BY <4>3, <4>4
    <3>. QED BY <3>1, <3>2, <3>3, <3>4
  <2>11. Kept(b, z, w)
    BY <2>6, <2>9, <2>10 DEF Kept
  <2>. QED BY <2>3, <2>8, <2>9, <2>11 DEF Outcome
<1>. QED BY <1>3, <1>4

\* Byte vectors with their size before them.
Vectors == {x \in Bytestring : Len(x) \in Sizes}
VectorBytes == [x \in Vectors |-> VarBytes(x)]
ReadsVector == [b \in Bytestring |-> ReadVarBytes(b)]

LEMMA VarBytesIs ==
  ASSUME NEW x \in Vectors
  PROVE  /\ VarBytes(x) = Cat(encode_compact_size(Len(x)), x)
         /\ encode_compact_size(Len(x)) \in Bytestring /\ x \in Bytestring
         /\ VarBytes(x) \in Bytestring /\ Len(VarBytes(x)) \in Nat /\ Len(VarBytes(x)) >= 1
<1>1. x \in Bytestring /\ Len(x) \in Sizes
  BY DEF Vectors
<1>2. VarBytes(x) = Cat(encode_compact_size(Len(x)), x)
  BY DEF VarBytes, Cat
<1>3. /\ encode_compact_size(Len(x)) \in Bytestring
      /\ Len(encode_compact_size(Len(x))) \in Nat /\ Len(encode_compact_size(Len(x))) >= 1
  BY <1>1, NoBytes, SizeAgain
<1>4. PICK s \in Bytestring : s = encode_compact_size(Len(x)) /\ Len(s) >= 1
  BY <1>3
<1>5. /\ Cat(s, x) \in Bytestring /\ Len(Cat(s, x)) = Len(s) + Len(x)
      /\ Len(s) \in Nat /\ Len(x) \in Nat
  BY <1>1, CatType
<1>6. Len(Cat(s, x)) \in Nat /\ Len(Cat(s, x)) >= 1
  BY <1>4, <1>5
<1>. QED BY <1>1, <1>2, <1>4, <1>5, <1>6

LEMMA VectorReader == IsReader(Vectors, ReadsVector, VectorBytes)
<1>1. ASSUME NEW b \in Bytestring, NEW c \in ReadVarBytes(b)
      PROVE  /\ c \in Outcome(Vectors)
             /\ Kept(b, c.rest, VarBytes(c.value))
  <2>1. PICK d \in ReadCompactSize(b) : c \in Read(d.rest, d.value)
    BY DEF ReadVarBytes
  <2>2. d \in Outcome(Sizes) /\ Kept(b, d.rest, encode_compact_size(d.value))
    BY SizeKept
  <2>3. PICK n \in Sizes, r \in Bytestring : n = d.value /\ r = d.rest
    BY <2>2 DEF Outcome
  <2>4. n \in Nat /\ encode_compact_size(n) \in Bytestring
    BY NoBytes, SizeAgain DEF Sizes, Numbers
  <2>5. /\ c = [value |-> c.value, rest |-> c.rest]
        /\ c.value \in Bytestring /\ Len(c.value) = n /\ c.rest \in Bytestring
        /\ r = Cat(c.value, c.rest)
    BY <2>1, <2>3, <2>4, ReadIs
  <2>6. PICK x \in Bytestring, z \in Bytestring :
          x = c.value /\ z = c.rest /\ Len(x) = n /\ r = Cat(x, z)
    BY <2>5
  <2>7. x \in Vectors
    BY <2>6 DEF Vectors
  <2>8. Kept(r, z, x)
    <3>1. Len(x) <= Len(x)
      BY <2>4, <2>6
    <3>. QED BY <2>6, <3>1 DEF Kept
  <2>9. Kept(b, z, Cat(encode_compact_size(n), x))
    BY <2>2, <2>3, <2>4, <2>8, KeptTwice
  <2>10. VarBytes(x) = Cat(encode_compact_size(n), x)
    BY <2>6, <2>7, VarBytesIs
  <2>. QED BY <2>5, <2>6, <2>7, <2>9, <2>10 DEF Outcome
<1>2. ReadsVector \in [Bytestring -> SUBSET Outcome(Vectors)]
  BY <1>1 DEF ReadsVector
<1>3. VectorBytes \in [Vectors -> Bytestring]
  BY VarBytesIs DEF VectorBytes
<1>4. ReadsBack(Vectors, ReadsVector, VectorBytes)
  <2>1. ASSUME NEW x \in Vectors, NEW z \in Bytestring
        PROVE  ReadsVector[Cat(VectorBytes[x], z)] = {[value |-> x, rest |-> z]}
    <3>1. x \in Bytestring /\ Len(x) \in Sizes
      BY DEF Vectors
    <3>2. PICK s \in Bytestring, n \in Sizes :
            n = Len(x) /\ s = encode_compact_size(n) /\ VarBytes(x) = Cat(s, x)
      BY <3>1, VarBytesIs
    <3>3. PICK t \in Bytestring : t = Cat(x, z)
      BY <3>1, CatType
    <3>4. VectorBytes[x] = VarBytes(x) /\ Cat(VarBytes(x), z) = Cat(s, t)
      BY <3>1, <3>2, <3>3, CatThree DEF VectorBytes
    <3>5. ReadCompactSize(Cat(s, t)) = {[value |-> n, rest |-> t]}
      BY <3>2, SizeAgain
    <3>6. Read(t, n) = {[value |-> x, rest |-> z]}
      BY <3>1, <3>2, <3>3, ReadAgain
    <3>7. ReadVarBytes(Cat(s, t)) = {[value |-> x, rest |-> z]}
      BY <3>5, <3>6 DEF ReadVarBytes
    <3>8. Cat(s, t) \in Bytestring
      BY CatType
    <3>. QED BY <3>4, <3>7, <3>8 DEF ReadsVector
  <2>. QED BY <2>1 DEF ReadsBack
<1>5. WritesBack(ReadsVector, VectorBytes)
  <2>1. ASSUME NEW b \in Bytestring, NEW c \in ReadsVector[b]
        PROVE  Kept(b, c.rest, VectorBytes[c.value])
    <3>1. c \in ReadVarBytes(b)
      BY DEF ReadsVector
    <3>2. c \in Outcome(Vectors) /\ Kept(b, c.rest, VarBytes(c.value))
      BY <1>1, <3>1
    <3>. QED BY <3>2 DEF VectorBytes, Outcome
  <2>. QED BY <2>1 DEF WritesBack
<1>. QED BY <1>2, <1>3, <1>4, <1>5 DEF IsReader

------------------------------------------------------------------------------
(* Readings one after the other.                                           *)

Start(b) == [value |-> << >>, rest |-> b]

\* f[k] is what the first k of the readers R make of b.
Chained(n, R, b, f) ==
  /\ f[0] = {Start(b)}
  /\ \A k \in 1..n : f[k] = UNION {Also(c, R[k][c.rest]) : c \in f[k - 1]}

\* The k-th of n readers R, for values in D[k], and what writes them.
Readers(n, U, D, R, W) ==
  \A k \in 1..n : D[k] \subseteq U /\ IsReader(D[k], R[k], W[k])

\* k values written out, one after the other.
Pieces(W, v, k) == FlattenSeq([i \in 1..k |-> W[i][v[i]]])

LEMMA OutcomeIs ==
  ASSUME NEW U, NEW c \in Outcome(U)
  PROVE  c.value \in U /\ c.rest \in Bytestring /\ c = [value |-> c.value, rest |-> c.rest]
BY Zenon DEF Outcome

LEMMA AlsoIs ==
  ASSUME NEW U, NEW R \in [Bytestring -> SUBSET Outcome(U)],
         NEW c \in Outcome(Seq(U)), NEW d \in Also(c, R[c.rest])
  PROVE  /\ d \in Outcome(Seq(U))
         /\ \E e \in R[c.rest] :
              d = [value |-> Append(c.value, e.value), rest |-> e.rest]
<1>1. c.value \in Seq(U) /\ c.rest \in Bytestring
  BY OutcomeIs
<1>2. PICK e \in R[c.rest] : d = [value |-> Append(c.value, e.value), rest |-> e.rest]
  BY DEF Also
<1>3. e \in Outcome(U)
  BY <1>1
<1>4. e.value \in U /\ e.rest \in Bytestring
  BY <1>3, OutcomeIs
<1>5. Append(c.value, e.value) \in Seq(U)
  BY <1>1, <1>4, AppendProperties
<1>. QED BY <1>2, <1>4, <1>5 DEF Outcome

LEMMA ReaderType ==
  ASSUME NEW U, NEW D, D \subseteq U, NEW R, NEW W, IsReader(D, R, W)
  PROVE  R \in [Bytestring -> SUBSET Outcome(U)]
<1>1. R \in [Bytestring -> SUBSET Outcome(D)]
  BY DEF IsReader
<1>2. Outcome(D) \subseteq Outcome(U)
  BY DEF Outcome
<1>. QED BY <1>1, <1>2

LEMMA ChainExists ==
  ASSUME NEW n \in Nat, NEW U, NEW D, NEW R, NEW W, Readers(n, U, D, R, W),
         NEW b \in Bytestring
  PROVE  \E f \in [0..n -> SUBSET Outcome(Seq(U))] : Chained(n, R, b, f)
<1> DEFINE V == SUBSET Outcome(Seq(U))
           F(k, S) == UNION {Also(c, R[k][c.rest]) : c \in S}
           G == [k \in 1..n |-> [S \in V |-> F(k, S)]]
<1>1. ASSUME NEW k \in 1..n, NEW S \in V PROVE F(k, S) \in V
  <2>1. R[k] \in [Bytestring -> SUBSET Outcome(U)]
    BY ReaderType DEF Readers
  <2>2. ASSUME NEW d \in F(k, S) PROVE d \in Outcome(Seq(U))
    <3>1. PICK c \in S : d \in Also(c, R[k][c.rest])
      OBVIOUS
    <3>2. c \in Outcome(Seq(U))
      OBVIOUS
    <3>. QED BY <2>1, <3>1, <3>2, AlsoIs
  <2>. QED BY <2>2
<1>2. G \in [1..n -> [V -> V]]
  <2>. HIDE DEF F, V
  <2>. QED BY <1>1
<1>3. {Start(b)} \in V
  <2>1. << >> \in Seq(U)
    OBVIOUS
  <2>2. Start(b) \in Outcome(Seq(U))
    BY <2>1 DEF Start, Outcome
  <2>. QED BY <2>2
<1>4. PICK f \in [0..n -> V] : Turns(n, G, {Start(b)}, f)
  <2>. HIDE DEF G, V
  <2>. QED BY <1>2, <1>3, TurnsExist
<1>5. ASSUME NEW k \in 1..n PROVE f[k] = F(k, f[k - 1])
  <2>1. k - 1 \in 0..n
    OBVIOUS
  <2>. HIDE DEF F, V
  <2>2. f[k - 1] \in V
    BY <2>1
  <2>3. f[k] = G[k][f[k - 1]]
    BY <1>4 DEF Turns
  <2>. QED BY <2>2, <2>3
<1>. QED BY <1>4, <1>5 DEF Chained, Turns

\* Sequences are flattened from the front.
LEMMA FlattenLast ==
  ASSUME NEW S, NEW n \in Nat, NEW c \in [1..n -> Seq(S)],
         NEW d \in [1..(n + 1) -> Seq(S)], \A k \in 1..n : d[k] = c[k]
  PROVE  FlattenSeq(d) = FlattenSeq(c) \o d[n + 1]
<1>1. PICK f \in [0..n -> Seq(S)] : Flat(c, n, f) /\ f[n] = FlattenSeq(c)
  BY FlattenIs
<1>2. PICK m \in Nat : m = n + 1
  OBVIOUS
<1>3. PICK g \in [0..m -> Seq(S)] : Flat(d, m, g) /\ g[m] = FlattenSeq(d)
  BY <1>2, FlattenIs
<1> DEFINE P == {k \in 0..n : g[k] = f[k]}
<1>4. 0 \in P
  BY <1>1, <1>3 DEF Flat
<1>5. \A k \in 1..n : k - 1 \in P => k \in P
  <2> SUFFICES ASSUME NEW k \in 1..n, k - 1 \in P PROVE k \in P
    OBVIOUS
  <2>1. k \in 1..m /\ k \in 0..n
    BY <1>2
  <2>2. g[k] = g[k - 1] \o d[k] /\ f[k] = f[k - 1] \o c[k]
    BY <1>1, <1>3, <2>1 DEF Flat
  <2>3. g[k - 1] = f[k - 1] /\ d[k] = c[k]
    OBVIOUS
  <2>. QED BY <2>1, <2>2, <2>3
<1>6. g[n] = f[n]
  <2>. HIDE DEF P
  <2>1. \A k \in 0..n : k \in P
    BY <1>4, <1>5, Upwards
  <2>. QED BY <2>1 DEF P
<1>7. g[m] = g[m - 1] \o d[m] /\ m - 1 = n
  <2>1. m \in 1..m /\ m - 1 = n
    BY <1>2
  <2>. QED BY <1>3, <2>1 DEF Flat
<1>. QED BY <1>1, <1>2, <1>3, <1>6, <1>7

Writes(W, v, k) == \A i \in 1..k : W[i][v[i]] \in Bytestring
Alike(u, v, k) == \A i \in 1..k : u[i] = v[i]

LEMMA PiecesType ==
  ASSUME NEW W, NEW v, NEW k \in Nat, Writes(W, v, k)
  PROVE  Pieces(W, v, k) \in Bytestring
<1>1. [i \in 1..k |-> W[i][v[i]]] \in [1..k -> Seq(Byte)]
  BY DEF Bytestring, Writes
<1>. QED BY <1>1, FlattenType DEF Pieces, Bytestring

LEMMA PiecesNone == ASSUME NEW W, NEW v PROVE Pieces(W, v, 0) = << >>
<1>1. [i \in 1..0 |-> W[i][v[i]]] = << >> /\ Len(<< >>) = 0
  OBVIOUS
<1>2. FlattenSeq(<< >>) = << >>
  BY <1>1 DEF FlattenSeq
<1>. QED BY <1>1, <1>2 DEF Pieces

LEMMA PiecesLast ==
  ASSUME NEW W, NEW v, NEW u, NEW k \in Nat, Writes(W, v, k), Alike(u, v, k),
         W[k + 1][u[k + 1]] \in Bytestring
  PROVE  Pieces(W, u, k + 1) = Cat(Pieces(W, v, k), W[k + 1][u[k + 1]])
<1> DEFINE c == [i \in 1..k |-> W[i][v[i]]]
           d == [i \in 1..(k + 1) |-> W[i][u[i]]]
<1>1. c \in [1..k -> Seq(Byte)]
  BY DEF Bytestring, Writes
<1>2. d \in [1..(k + 1) -> Seq(Byte)]
  <2>1. ASSUME NEW i \in 1..(k + 1) PROVE W[i][u[i]] \in Bytestring
    <3>1. i = k + 1 \/ i \in 1..k
      OBVIOUS
    <3>. QED BY <3>1 DEF Writes, Alike
  <2>. QED BY <2>1 DEF Bytestring
<1>3. \A i \in 1..k : d[i] = c[i]
  <2> TAKE i \in 1..k
  <2>1. i \in 1..(k + 1)
    OBVIOUS
  <2>. QED BY <2>1 DEF Alike
<1>4. d[k + 1] = W[k + 1][u[k + 1]]
  <2>1. k + 1 \in 1..(k + 1)
    OBVIOUS
  <2>. QED BY <2>1
<1>5. Pieces(W, v, k) = FlattenSeq(c) /\ Pieces(W, u, k + 1) = FlattenSeq(d)
  BY DEF Pieces
<1>. HIDE DEF c, d
<1>6. FlattenSeq(d) = FlattenSeq(c) \o d[k + 1]
  BY <1>1, <1>2, <1>3, FlattenLast
<1>. QED BY <1>4, <1>5, <1>6 DEF Cat

\* What k readings leave.
IsResult(U, D, W, b, k, c) ==
  /\ c \in Outcome(Seq(U)) /\ Len(c.value) = k
  /\ \A i \in 1..k : c.value[i] \in D[i]
  /\ Kept(b, c.rest, Pieces(W, c.value, k))

Writers(n, U, D, W) ==
  \A i \in 1..n : D[i] \subseteq U /\ W[i] \in [D[i] -> Bytestring]

\* The reading e after those of c.
Extended(c, e) == [value |-> Append(c.value, e.value), rest |-> e.rest]

LEMMA ChainStep ==
  ASSUME NEW U, NEW D, NEW W, NEW b \in Bytestring, NEW m \in Nat, NEW n \in Nat, n = m + 1,
         NEW c, IsResult(U, D, W, b, m, c),
         Writers(n, U, D, W),
         NEW e \in Outcome(D[n]), Kept(c.rest, e.rest, W[n][e.value]),
         NEW d, d = Extended(c, e)
  PROVE  IsResult(U, D, W, b, n, d)
<1>1. PICK v \in Seq(U), r \in Bytestring :
        /\ v = c.value /\ r = c.rest /\ Len(v) = m /\ \A i \in 1..m : v[i] \in D[i]
        /\ Kept(b, r, Pieces(W, v, m))
  BY OutcomeIs DEF IsResult
<1>2. D[n] \subseteq U /\ W[n] \in [D[n] -> Bytestring]
  <2>1. n \in 1..n
    OBVIOUS
  <2>. QED BY <2>1 DEF Writers
<1>3. PICK x \in D[n], z \in Bytestring : x = e.value /\ z = e.rest /\ x \in U
  BY <1>2, OutcomeIs
<1>4. PICK u \in Seq(U) : u = Append(v, x)
  BY <1>3, AppendProperties
<1>5. Len(u) = n /\ Alike(u, v, m) /\ u[n] = x
  <2>1. /\ Len(u) = Len(v) + 1
        /\ \A i \in 1..Len(v) : u[i] = v[i]
        /\ u[Len(v) + 1] = x
    BY <1>4, AppendProperties
  <2>. QED BY <1>1, <2>1 DEF Alike
<1>6. d.value = u /\ d.rest = z /\ d \in Outcome(Seq(U))
  BY <1>1, <1>3, <1>4 DEF Outcome, Extended
<1>7. Writes(W, v, m)
  <2>1. ASSUME NEW i \in 1..m PROVE W[i][v[i]] \in Bytestring
    <3>1. i \in 1..n /\ v[i] \in D[i]
      BY <1>1
    <3>. QED BY <3>1 DEF Writers
  <2>. QED BY <2>1 DEF Writes
<1>8. PICK p \in Bytestring, w \in Bytestring : p = Pieces(W, v, m) /\ w = W[n][x]
  BY <1>2, <1>7, PiecesType
<1>9. Pieces(W, u, n) = Cat(p, w)
  <2>1. W[m + 1][u[m + 1]] \in Bytestring
    BY <1>2, <1>5
  <2>2. Pieces(W, u, m + 1) = Cat(Pieces(W, v, m), W[m + 1][u[m + 1]])
    BY <1>5, <1>7, <2>1, PiecesLast
  <2>. QED BY <1>5, <1>8, <2>2
<1>10. Kept(b, z, Cat(p, w))
  BY <1>1, <1>3, <1>8, KeptTwice
<1>11. \A i \in 1..n : u[i] \in D[i]
  <2> TAKE i \in 1..n
  <2>1. i = n \/ i \in 1..m
    OBVIOUS
  <2>. QED BY <1>1, <1>5, <2>1 DEF Alike
<1>. QED BY <1>5, <1>6, <1>9, <1>10, <1>11 DEF IsResult

LEMMA ChainKept ==
  ASSUME NEW n \in Nat, NEW U, NEW D, NEW R, NEW W, Readers(n, U, D, R, W),
         NEW b \in Bytestring, NEW f, Chained(n, R, b, f)
  PROVE  \A k \in 0..n : \A c \in f[k] : IsResult(U, D, W, b, k, c)
<1> DEFINE P == {k \in 0..n : \A c \in f[k] : IsResult(U, D, W, b, k, c)}
<1>0. Writers(n, U, D, W)
  BY DEF Readers, IsReader, Writers
<1>1. 0 \in P
  <2>1. IsResult(U, D, W, b, 0, Start(b))
    <3>1. << >> \in Seq(U) /\ Len(<< >>) = 0
      OBVIOUS
    <3>2. Start(b) \in Outcome(Seq(U)) /\ Start(b).value = << >> /\ Start(b).rest = b
      BY <3>1 DEF Start, Outcome
    <3>3. Kept(b, b, Pieces(W, << >>, 0))
      BY PiecesNone, KeptNothing
    <3>. QED BY <3>1, <3>2, <3>3 DEF IsResult
  <2>2. f[0] = {Start(b)}
    BY DEF Chained
  <2>. QED BY <2>1, <2>2
<1>2. \A k \in 1..n : k - 1 \in P => k \in P
  <2> SUFFICES ASSUME NEW k \in 1..n, k - 1 \in P, NEW d \in f[k]
               PROVE  IsResult(U, D, W, b, k, d)
    OBVIOUS
  <2>1. PICK m \in Nat : m = k - 1 /\ k = m + 1
    OBVIOUS
  <2>2. PICK c \in f[m] : d \in Also(c, R[k][c.rest])
    BY <2>1 DEF Chained
  <2>3. IsResult(U, D, W, b, m, c)
    BY <2>1, <2>2
  <2>4. PICK e \in R[k][c.rest] : d = Extended(c, e)
    BY <2>2 DEF Also, Extended
  <2>5. IsReader(D[k], R[k], W[k])
    BY DEF Readers
  <2>6. c.rest \in Bytestring
    BY <2>3, OutcomeIs DEF IsResult
  <2>7. e \in Outcome(D[k]) /\ Kept(c.rest, e.rest, W[k][e.value])
    BY <2>4, <2>5, <2>6 DEF IsReader, WritesBack
  <2>8. Writers(k, U, D, W)
    <3>1. \A i \in 1..k : i \in 1..n
      OBVIOUS
    <3>. QED BY <1>0, <3>1 DEF Writers
  <2>9. k \in Nat
    OBVIOUS
  <2>. HIDE DEF P
  <2>. QED BY <2>1, <2>3, <2>4, <2>7, <2>8, <2>9, ChainStep, Zenon
<1>. QED
  <2>. HIDE DEF P
  <2>1. \A k \in 0..n : k \in P
    BY <1>1, <1>2, Upwards
  <2>. QED BY <2>1 DEF P

\* The values v, written out before z, from each of them on.
Tails(n, W, v, z, s) ==
  /\ s[n + 1] = z
  /\ \A k \in 1..n : s[k] = Cat(W[k][v[k]], s[k + 1])

LEMMA TailsExist ==
  ASSUME NEW n \in Nat, NEW W, NEW v, Writes(W, v, n), NEW z \in Bytestring
  PROVE  \E s \in [1..(n + 1) -> Bytestring] :
           Tails(n, W, v, z, s) /\ s[1] = Cat(Pieces(W, v, n), z)
<1> DEFINE G == [k \in 1..n |-> [x \in Bytestring |-> Cat(W[k][v[k]], x)]]
           N == [k \in 1..n |-> k + 1]
<1>1. G \in [1..n -> [Bytestring -> Bytestring]]
  <2>1. ASSUME NEW k \in 1..n PROVE G[k] \in [Bytestring -> Bytestring]
    BY CatType DEF Writes
  <2>. QED BY <2>1
<1>2. N \in [1..n -> 1..(n + 1)] /\ \A i \in 1..n : i < N[i]
  OBVIOUS
<1>3. PICK s \in [1..(n + 1) -> Bytestring] : Jumps(n, N, G, z, s)
  <2>. HIDE DEF G, N
  <2>. QED BY <1>1, <1>2, JumpsExist
<1>4. s[n + 1] = z
  <2>1. n + 1 \in 1..(n + 1) /\ n + 1 > n
    OBVIOUS
  <2>. QED BY <1>3, <2>1 DEF Jumps
<1>5. ASSUME NEW k \in 1..n PROVE s[k] = Cat(W[k][v[k]], s[k + 1])
  <2>1. k \in 1..(n + 1) /\ k + 1 \in 1..(n + 1) /\ ~(k > n) /\ N[k] = k + 1
    OBVIOUS
  <2>2. s[k] = G[k][s[N[k]]]
    <3>. HIDE DEF G, N
    <3>. QED BY <1>3, <2>1 DEF Jumps
  <2>3. s[k + 1] \in Bytestring
    BY <2>1
  <2>4. G[k][s[k + 1]] = Cat(W[k][v[k]], s[k + 1])
    BY <2>3
  <2>. HIDE DEF G, N
  <2>. QED BY <2>1, <2>2, <2>4
<1> DEFINE P == {k \in 0..n : Cat(Pieces(W, v, k), s[k + 1]) = s[1]}
<1>6. 0 \in P
  <2>1. 1 \in 1..(n + 1) /\ 0 + 1 = 1
    OBVIOUS
  <2>2. s[1] \in Bytestring
    BY <2>1
  <2>. QED BY <2>1, <2>2, PiecesNone, CatEmpty
<1>7. \A k \in 1..n : k - 1 \in P => k \in P
  <2> SUFFICES ASSUME NEW k \in 1..n, k - 1 \in P PROVE k \in P
    OBVIOUS
  <2>1. PICK m \in Nat : m = k - 1 /\ k = m + 1
    OBVIOUS
  <2>2. PICK x \in Bytestring, y \in Bytestring, t \in Bytestring :
          x = s[k] /\ y = s[k + 1] /\ t = W[k][v[k]] /\ x = Cat(t, y)
    <3>1. k \in 1..(n + 1) /\ k + 1 \in 1..(n + 1)
      OBVIOUS
    <3>. QED BY <1>5, <3>1 DEF Writes
  <2>3. Writes(W, v, m) /\ Alike(v, v, m)
    <3>1. \A i \in 1..m : i \in 1..n
      BY <2>1
    <3>. QED BY <3>1 DEF Writes, Alike
  <2>4. PICK p \in Bytestring : p = Pieces(W, v, m)
    BY <2>3, PiecesType
  <2>5. Pieces(W, v, k) = Cat(p, t)
    <3>1. W[m + 1][v[m + 1]] \in Bytestring
      BY <2>1, <2>2
    <3>2. Pieces(W, v, m + 1) = Cat(Pieces(W, v, m), W[m + 1][v[m + 1]])
      BY <2>3, <3>1, PiecesLast
    <3>. QED BY <2>1, <2>2, <2>4, <3>2
  <2>6. Cat(p, x) = s[1]
    BY <2>1, <2>2, <2>4
  <2>7. Cat(Cat(p, t), y) = Cat(p, x)
    BY <2>2, CatThree
  <2>. QED BY <2>2, <2>5, <2>6, <2>7
<1>8. Cat(Pieces(W, v, n), s[n + 1]) = s[1]
  <2>. HIDE DEF P
  <2>1. \A k \in 0..n : k \in P
    BY <1>6, <1>7, Upwards
  <2>2. n \in P
    BY <2>1
  <2>. QED BY <2>2 DEF P
<1>. QED BY <1>4, <1>5, <1>8 DEF Tails

LEMMA ChainReadsBack ==
  ASSUME NEW n \in Nat, NEW U, NEW D, NEW R, NEW W, Readers(n, U, D, R, W),
         NEW v \in Seq(U), Len(v) = n, \A k \in 1..n : v[k] \in D[k],
         NEW z \in Bytestring, NEW b \in Bytestring, b = Cat(Pieces(W, v, n), z),
         NEW f, Chained(n, R, b, f)
  PROVE  f[n] = {[value |-> v, rest |-> z]}
<1>1. Writes(W, v, n)
  BY DEF Readers, IsReader, Writes
<1>2. PICK s \in [1..(n + 1) -> Bytestring] : Tails(n, W, v, z, s) /\ s[1] = b
  BY <1>1, TailsExist
<1> DEFINE P == {k \in 0..n : f[k] = {[value |-> SubSeq(v, 1, k), rest |-> s[k + 1]]}}
<1>3. 0 \in P
  <2>1. SubSeq(v, 1, 0) = << >>
    BY SubSeqEmpty
  <2>2. 0 \in 0..n /\ 0 + 1 = 1
    OBVIOUS
  <2>. QED BY <1>2, <2>1, <2>2 DEF Chained, Start
<1>4. \A k \in 1..n : k - 1 \in P => k \in P
  <2> SUFFICES ASSUME NEW k \in 1..n, k - 1 \in P PROVE k \in P
    OBVIOUS
  <2>1. PICK m \in Nat : m = k - 1 /\ k = m + 1
    OBVIOUS
  <2>2. PICK x \in Bytestring, y \in Bytestring, t \in Bytestring :
          x = s[k] /\ y = s[k + 1] /\ t = W[k][v[k]] /\ x = Cat(t, y)
    <3>1. k \in 1..(n + 1) /\ k + 1 \in 1..(n + 1)
      OBVIOUS
    <3>. QED BY <1>1, <1>2, <3>1 DEF Tails, Writes
  <2>3. R[k][x] = {[value |-> v[k], rest |-> y]}
    BY <2>2 DEF Readers, IsReader, ReadsBack
  <2>4. PICK u : u = SubSeq(v, 1, m)
    OBVIOUS
  <2> DEFINE c == [value |-> u, rest |-> x]
             F(a) == Also(a, R[k][a.rest])
  <2>5. f[m] = {c}
    BY <2>1, <2>2, <2>4
  <2>6. F(c) = {[value |-> Append(u, v[k]), rest |-> y]}
    <3>1. c.rest = x /\ c.value = u
      OBVIOUS
    <3> DEFINE e == [value |-> v[k], rest |-> y]
    <3>2. F(c) = Also(c, {e})
      BY <2>3, <3>1
    <3>3. e.value = v[k] /\ e.rest = y
      OBVIOUS
    <3>. HIDE DEF c, e, F
    <3>. QED BY <3>1, <3>2, <3>3 DEF Also
  <2>7. f[k] = UNION {F(a) : a \in f[m]}
    BY <2>1 DEF Chained
  <2>8. UNION {F(a) : a \in {c}} = F(c)
    <3>. HIDE DEF F, c
    <3>. QED OBVIOUS
  <2>9. Append(u, v[k]) = SubSeq(v, 1, k)
    <3>1. 1 \in 1..Len(v) /\ k \in 1..Len(v)
      OBVIOUS
    <3>2. SubSeq(v, 1, k) = SubSeq(v, 1, k - 1) \o <<v[k]>>
      BY <3>1, SubSeqRecursiveSecond
    <3>3. u \in Seq(U) /\ v[k] \in U
      <4>1. 1 \in Int /\ m \in Int /\ \A i \in 1..m : v[i] \in U
        BY <2>1
      <4>. QED BY <2>4, <4>1, SubSeqProperties
    <3>4. Append(u, v[k]) = u \o <<v[k]>>
      BY <3>3, AppendIsConcat
    <3>. QED BY <2>1, <2>4, <3>2, <3>4
  <2>10. f[k] = F(c)
    <3>. HIDE DEF F, c
    <3>. QED BY <2>5, <2>7, <2>8
  <2>. QED BY <2>2, <2>6, <2>9, <2>10
<1>5. f[n] = {[value |-> SubSeq(v, 1, n), rest |-> s[n + 1]]}
  <2>. HIDE DEF P
  <2>1. \A k \in 0..n : k \in P
    BY <1>3, <1>4, Upwards
  <2>2. n \in P
    BY <2>1
  <2>. QED BY <2>2 DEF P
<1>6. SubSeq(v, 1, n) = v
  BY SubSeqFull
<1>. QED BY <1>2, <1>5, <1>6 DEF Tails

------------------------------------------------------------------------------
(* Fields.                                                                 *)

Kinds == {"txid", "uint32", "uint64", "bytes"}

FieldValues(kind) ==
  CASE kind = "txid" -> Strings(HASH_SIZE)
    [] kind = "uint32" -> Numbers(INT)
    [] kind = "uint64" -> Numbers(LONG)
    [] kind = "bytes" -> Vectors

FieldBytes(kind) ==
  CASE kind = "txid" -> Same(Strings(HASH_SIZE))
    [] kind = "uint32" -> IntBytes(INT)
    [] kind = "uint64" -> IntBytes(LONG)
    [] kind = "bytes" -> VectorBytes

AnyField == UNION {FieldValues(kind) : kind \in Kinds}
ReadsField(kind) == [b \in Bytestring |-> ReadField(kind, b)]

LEMMA FieldReader ==
  ASSUME NEW kind \in Kinds
  PROVE  /\ FieldValues(kind) \subseteq AnyField
         /\ IsReader(FieldValues(kind), ReadsField(kind), FieldBytes(kind))
<1>1. FieldValues(kind) \subseteq AnyField
  BY DEF AnyField
<1>2. INT \in Nat /\ LONG \in Nat /\ HASH_SIZE \in Nat
  BY MarkersAre, TransactionAssumption
<1>3. CASE kind = "txid"
  <2>1. ReadsField(kind) = Plain(HASH_SIZE)
    BY <1>3 DEF ReadsField, ReadField, Plain
  <2>2. FieldValues(kind) = Strings(HASH_SIZE) /\ FieldBytes(kind) = Same(Strings(HASH_SIZE))
    BY <1>3 DEF FieldValues, FieldBytes
  <2>. QED BY <1>1, <1>2, <2>1, <2>2, StringReader
<1>4. CASE kind = "uint32"
  <2>1. ReadsField(kind) = ReadsInt(INT)
    BY <1>4 DEF ReadsField, ReadField, ReadsInt
  <2>2. FieldValues(kind) = Numbers(INT) /\ FieldBytes(kind) = IntBytes(INT)
    BY <1>4 DEF FieldValues, FieldBytes
  <2>. QED BY <1>1, <1>2, <2>1, <2>2, IntReader
<1>5. CASE kind = "uint64"
  <2>1. ReadsField(kind) = ReadsInt(LONG)
    BY <1>5 DEF ReadsField, ReadField, ReadsInt
  <2>2. FieldValues(kind) = Numbers(LONG) /\ FieldBytes(kind) = IntBytes(LONG)
    BY <1>5 DEF FieldValues, FieldBytes
  <2>. QED BY <1>1, <1>2, <2>1, <2>2, IntReader
<1>6. CASE kind = "bytes"
  <2>1. ReadsField(kind) = ReadsVector
    BY <1>6 DEF ReadsField, ReadField, ReadsVector
  <2>2. FieldValues(kind) = Vectors /\ FieldBytes(kind) = VectorBytes
    BY <1>6 DEF FieldValues, FieldBytes
  <2>. QED BY <1>1, <2>1, <2>2, VectorReader
<1>. QED BY <1>3, <1>4, <1>5, <1>6 DEF Kinds

ReadsFields(kinds) == [k \in 1..Len(kinds) |-> ReadsField(kinds[k])]
FieldsValues(kinds) == [k \in 1..Len(kinds) |-> FieldValues(kinds[k])]
FieldsBytes(kinds) == [k \in 1..Len(kinds) |-> FieldBytes(kinds[k])]

LEMMA FieldsReaders ==
  ASSUME NEW kinds \in Seq(Kinds)
  PROVE  Readers(Len(kinds), AnyField, FieldsValues(kinds), ReadsFields(kinds), FieldsBytes(kinds))
<1>1. ASSUME NEW k \in 1..Len(kinds)
      PROVE  /\ FieldsValues(kinds)[k] \subseteq AnyField
             /\ IsReader(FieldsValues(kinds)[k], ReadsFields(kinds)[k], FieldsBytes(kinds)[k])
  <2>1. kinds[k] \in Kinds
    OBVIOUS
  <2>2. /\ FieldsValues(kinds)[k] = FieldValues(kinds[k])
        /\ ReadsFields(kinds)[k] = ReadsField(kinds[k])
        /\ FieldsBytes(kinds)[k] = FieldBytes(kinds[k])
    BY DEF FieldsValues, ReadsFields, FieldsBytes
  <2>. QED BY <2>1, <2>2, FieldReader
<1>. QED BY <1>1 DEF Readers

LEMMA FieldsAre ==
  ASSUME NEW kinds \in Seq(Kinds), NEW n \in Nat, n = Len(kinds), NEW b \in Bytestring
  PROVE  \E f : Chained(n, ReadsFields(kinds), b, f) /\ ReadFields(kinds, b) = f[n]
<1> DEFINE D == FieldsValues(kinds)
           R == ReadsFields(kinds)
           W == FieldsBytes(kinds)
<1>1. Readers(n, AnyField, D, R, W)
  BY FieldsReaders
<1>2. PICK f \in [0..n -> SUBSET Outcome(Seq(AnyField))] : Chained(n, R, b, f)
  <2>. HIDE DEF D, R, W
  <2>. QED BY <1>1, ChainExists
<1>3. \A k \in 0..n : \A c \in f[k] : IsResult(AnyField, D, W, b, k, c)
  <2>. HIDE DEF D, R, W
  <2>. QED BY <1>1, <1>2, ChainKept
<1> DEFINE Turn(c) == Also(c, ReadField(kinds[Len(c.value) + 1], c.rest))
           Step(g, k) == IF k = 0 THEN {[value |-> << >>, rest |-> b]}
                         ELSE UNION {Turn(c) : c \in g[k - 1]}
           h == CHOOSE g : g = [k \in 0..n |-> Step(g, k)]
<1>4. ReadFields(kinds, b) = h[n]
  BY DEF ReadFields, ReadAll
<1>5. ASSUME NEW k \in 1..n, NEW c \in f[k - 1] PROVE Turn(c) = Also(c, R[k][c.rest])
  <2>1. k - 1 \in 0..n /\ k - 1 + 1 = k
    OBVIOUS
  <2>2. IsResult(AnyField, D, W, b, k - 1, c)
    BY <1>3, <2>1
  <2>3. Len(c.value) = k - 1 /\ c.rest \in Bytestring
    BY <2>2, OutcomeIs DEF IsResult
  <2>4. R[k][c.rest] = ReadField(kinds[k], c.rest)
    BY <2>3 DEF ReadsFields, ReadsField
  <2>. QED BY <2>1, <2>3, <2>4
<1>. HIDE DEF D, R, W, Turn
<1>6. \A k \in 0..n : f[k] = Step(f, k)
  <2> TAKE k \in 0..n
  <2>1. CASE k = 0
    BY <1>2, <2>1 DEF Chained, Start
  <2>2. CASE k # 0
    <3>1. k \in 1..n
      BY <2>2
    <3>2. f[k] = UNION {Also(c, R[k][c.rest]) : c \in f[k - 1]}
      BY <1>2, <3>1 DEF Chained
    <3>3. {Also(c, R[k][c.rest]) : c \in f[k - 1]} = {Turn(c) : c \in f[k - 1]}
      BY <1>5, <3>1
    <3>. QED BY <2>2, <3>2, <3>3
  <2>. QED BY <2>1, <2>2
<1>7. f = [k \in 0..n |-> Step(f, k)]
  <2>1. f = [k \in 0..n |-> f[k]]
    OBVIOUS
  <2>. HIDE DEF Step
  <2>. QED BY <1>6, <2>1
<1>8. h = [k \in 0..n |-> Step(h, k)]
  <2>. HIDE DEF Step
  <2>. QED BY <1>7
<1>. HIDE DEF h
<1>9. \A k \in 0..n : h[k] = Step(h, k)
  <2>. HIDE DEF Step
  <2>. QED BY <1>8
<1> DEFINE P == {k \in 0..n : h[k] = f[k]}
<1>10. 0 \in P
  <2>1. 0 \in 0..n
    OBVIOUS
  <2>2. h[0] = Step(h, 0) /\ f[0] = Step(f, 0)
    BY <1>6, <1>9, <2>1
  <2>. QED BY <2>1, <2>2
<1>11. \A k \in 1..n : k - 1 \in P => k \in P
  <2> SUFFICES ASSUME NEW k \in 1..n, k - 1 \in P PROVE k \in P
    OBVIOUS
  <2>1. k \in 0..n /\ k # 0 /\ h[k - 1] = f[k - 1]
    OBVIOUS
  <2>2. h[k] = UNION {Turn(c) : c \in h[k - 1]} /\ f[k] = UNION {Turn(c) : c \in f[k - 1]}
    BY <1>6, <1>9, <2>1
  <2>. QED BY <2>1, <2>2
<1>12. h[n] = f[n]
  <2>. HIDE DEF P
  <2>1. \A k \in 0..n : k \in P
    BY <1>10, <1>11, Upwards
  <2>2. n \in P
    BY <2>1
  <2>. QED BY <2>2 DEF P
<1>. QED BY <1>2, <1>4, <1>12 DEF R

\* Two and four values written out.
LEMMA PiecesTwo ==
  ASSUME NEW W, NEW v, Writes(W, v, 2)
  PROVE  Pieces(W, v, 2) = Cat(W[1][v[1]], W[2][v[2]])
<1>1. PICK x \in Bytestring, y \in Bytestring : x = W[1][v[1]] /\ y = W[2][v[2]]
  BY DEF Writes
<1>2. Writes(W, v, 0) /\ Writes(W, v, 1) /\ Alike(v, v, 0) /\ Alike(v, v, 1)
  BY DEF Writes, Alike
<1>3. Pieces(W, v, 1) = x
  <2>1. Pieces(W, v, 0 + 1) = Cat(Pieces(W, v, 0), W[0 + 1][v[0 + 1]])
    <3>1. W[0 + 1][v[0 + 1]] \in Bytestring
      BY <1>1
    <3>. QED BY <1>2, <3>1, PiecesLast
  <2>. QED BY <1>1, <2>1, PiecesNone, CatEmpty
<1>4. Pieces(W, v, 1 + 1) = Cat(Pieces(W, v, 1), W[1 + 1][v[1 + 1]])
  <2>1. W[1 + 1][v[1 + 1]] \in Bytestring
    BY <1>1
  <2>. QED BY <1>2, <2>1, PiecesLast
<1>. QED BY <1>1, <1>3, <1>4

LEMMA PiecesFour ==
  ASSUME NEW W, NEW v, Writes(W, v, 4)
  PROVE  Pieces(W, v, 4)
           = Cat(Cat(Cat(W[1][v[1]], W[2][v[2]]), W[3][v[3]]), W[4][v[4]])
<1>1. W[3][v[3]] \in Bytestring /\ W[4][v[4]] \in Bytestring
  BY DEF Writes
<1>2. Writes(W, v, 2) /\ Writes(W, v, 3) /\ Alike(v, v, 2) /\ Alike(v, v, 3)
  BY DEF Writes, Alike
<1>3. Pieces(W, v, 2 + 1) = Cat(Pieces(W, v, 2), W[2 + 1][v[2 + 1]])
  <2>1. W[2 + 1][v[2 + 1]] \in Bytestring
    BY <1>1
  <2>. QED BY <1>2, <2>1, PiecesLast
<1>4. Pieces(W, v, 3 + 1) = Cat(Pieces(W, v, 3), W[3 + 1][v[3 + 1]])
  <2>1. W[3 + 1][v[3 + 1]] \in Bytestring
    BY <1>1
  <2>. QED BY <1>2, <2>1, PiecesLast
<1>5. Pieces(W, v, 2) = Cat(W[1][v[1]], W[2][v[2]])
  BY <1>2, PiecesTwo
<1>. QED BY <1>3, <1>4, <1>5

\* The values of some kinds are read and written as their readers do each.
IsFields(kinds, v) ==
  v \in Seq(AnyField) /\ Len(v) = Len(kinds) /\ \A k \in 1..Len(kinds) : v[k] \in FieldValues(kinds[k])

FieldPieces(kinds, v) == Pieces(FieldsBytes(kinds), v, Len(kinds))

LEMMA FieldsWrite ==
  ASSUME NEW kinds \in Seq(Kinds), NEW v, IsFields(kinds, v)
  PROVE  /\ Writes(FieldsBytes(kinds), v, Len(kinds))
         /\ FieldPieces(kinds, v) \in Bytestring
<1>1. ASSUME NEW k \in 1..Len(kinds) PROVE FieldsBytes(kinds)[k][v[k]] \in Bytestring
  <2>1. kinds[k] \in Kinds /\ v[k] \in FieldValues(kinds[k])
    BY DEF IsFields
  <2>2. FieldBytes(kinds[k]) \in [FieldValues(kinds[k]) -> Bytestring]
    BY <2>1, FieldReader DEF IsReader
  <2>3. FieldsBytes(kinds)[k] = FieldBytes(kinds[k])
    BY DEF FieldsBytes
  <2>. QED BY <2>1, <2>2, <2>3
<1>2. Writes(FieldsBytes(kinds), v, Len(kinds))
  BY <1>1 DEF Writes
<1>3. Len(kinds) \in Nat
  OBVIOUS
<1>. QED BY <1>2, <1>3, PiecesType DEF FieldPieces

LEMMA FieldsKept ==
  ASSUME NEW kinds \in Seq(Kinds), NEW b \in Bytestring, NEW c \in ReadFields(kinds, b)
  PROVE  /\ IsFields(kinds, c.value) /\ c.rest \in Bytestring
         /\ c = [value |-> c.value, rest |-> c.rest]
         /\ Kept(b, c.rest, FieldPieces(kinds, c.value))
<1>1. PICK n \in Nat : n = Len(kinds)
  OBVIOUS
<1>2. PICK f : Chained(n, ReadsFields(kinds), b, f) /\ ReadFields(kinds, b) = f[n]
  BY <1>1, FieldsAre
<1>3. Readers(n, AnyField, FieldsValues(kinds), ReadsFields(kinds), FieldsBytes(kinds))
  BY <1>1, FieldsReaders
<1>4. IsResult(AnyField, FieldsValues(kinds), FieldsBytes(kinds), b, n, c)
  <2>1. \A k \in 0..n : \A d \in f[k] :
          IsResult(AnyField, FieldsValues(kinds), FieldsBytes(kinds), b, k, d)
    BY <1>2, <1>3, ChainKept
  <2>2. n \in 0..n /\ c \in f[n]
    BY <1>2
  <2>. QED BY <2>1, <2>2
<1>5. /\ c.value \in Seq(AnyField) /\ c.rest \in Bytestring
      /\ c = [value |-> c.value, rest |-> c.rest]
  BY <1>4, OutcomeIs DEF IsResult
<1>6. \A k \in 1..n : c.value[k] \in FieldValues(kinds[k])
  <2> TAKE k \in 1..n
  <2>1. c.value[k] \in FieldsValues(kinds)[k]
    BY <1>4 DEF IsResult
  <2>2. FieldsValues(kinds)[k] = FieldValues(kinds[k])
    BY <1>1 DEF FieldsValues
  <2>. QED BY <2>1, <2>2
<1>. QED BY <1>1, <1>4, <1>5, <1>6 DEF IsResult, IsFields, FieldPieces

LEMMA FieldsAgain ==
  ASSUME NEW kinds \in Seq(Kinds), NEW v, IsFields(kinds, v), NEW z \in Bytestring
  PROVE  ReadFields(kinds, Cat(FieldPieces(kinds, v), z)) = {[value |-> v, rest |-> z]}
<1>1. PICK n \in Nat : n = Len(kinds)
  OBVIOUS
<1>2. PICK b \in Bytestring : b = Cat(FieldPieces(kinds, v), z)
  BY FieldsWrite, CatType
<1>3. PICK f : Chained(n, ReadsFields(kinds), b, f) /\ ReadFields(kinds, b) = f[n]
  BY <1>1, FieldsAre
<1>4. Readers(n, AnyField, FieldsValues(kinds), ReadsFields(kinds), FieldsBytes(kinds))
  BY <1>1, FieldsReaders
<1>5. \A k \in 1..n : v[k] \in FieldsValues(kinds)[k]
  BY <1>1 DEF IsFields, FieldsValues
<1>6. b = Cat(Pieces(FieldsBytes(kinds), v, n), z)
  BY <1>1, <1>2 DEF FieldPieces
<1>7. v \in Seq(AnyField) /\ Len(v) = n
  BY <1>1 DEF IsFields
<1>8. f[n] = {[value |-> v, rest |-> z]}
  BY <1>3, <1>4, <1>5, <1>6, <1>7, ChainReadsBack
<1>. QED BY <1>2, <1>3, <1>8

------------------------------------------------------------------------------
(* What the fields of inputs, outputs and witness items are.               *)

OutPoints == [txid : Strings(HASH_SIZE), vout : Numbers(INT)]

\* An input as it is read before its witness.
TxIns ==
  [prevout : OutPoints, script_sig : Vectors, sequence : Numbers(INT), witness : {<< >>}]
TxOuts == [value : Numbers(LONG), script_pubkey : Vectors]

InKinds == <<"txid", "uint32", "bytes", "uint32">>
OutKinds == <<"uint64", "bytes">>

InFields(t) == <<t.prevout.txid, t.prevout.vout, t.script_sig, t.sequence>>
OutFields(t) == <<t.value, t.script_pubkey>>

InOf(v) ==
  [prevout |-> [txid |-> v[1], vout |-> v[2]], script_sig |-> v[3], sequence |-> v[4],
   witness |-> << >>]
OutOf(v) == [value |-> v[1], script_pubkey |-> v[2]]

LEMMA KindsAre ==
  /\ InKinds \in Seq(Kinds) /\ Len(InKinds) = 4 /\ OutKinds \in Seq(Kinds) /\ Len(OutKinds) = 2
  /\ InKinds[1] = "txid" /\ InKinds[2] = "uint32" /\ InKinds[3] = "bytes" /\ InKinds[4] = "uint32"
  /\ OutKinds[1] = "uint64" /\ OutKinds[2] = "bytes"
BY DEF InKinds, OutKinds, Kinds

LEMMA InFieldsAre ==
  ASSUME NEW v
  PROVE  IsFields(InKinds, v) <=>
           /\ v = <<v[1], v[2], v[3], v[4]>>
           /\ v[1] \in Strings(HASH_SIZE) /\ v[2] \in Numbers(INT)
           /\ v[3] \in Vectors /\ v[4] \in Numbers(INT)
<1>1. /\ FieldValues("txid") = Strings(HASH_SIZE) /\ FieldValues("uint32") = Numbers(INT)
      /\ FieldValues("bytes") = Vectors
  BY DEF FieldValues
<1>2. /\ Strings(HASH_SIZE) \subseteq AnyField /\ Numbers(INT) \subseteq AnyField
      /\ Vectors \subseteq AnyField
  BY <1>1, FieldReader DEF Kinds
<1>3. ASSUME IsFields(InKinds, v)
      PROVE  /\ v = <<v[1], v[2], v[3], v[4]>>
             /\ v[1] \in Strings(HASH_SIZE) /\ v[2] \in Numbers(INT)
             /\ v[3] \in Vectors /\ v[4] \in Numbers(INT)
  <2>1. v \in Seq(AnyField) /\ Len(v) = 4 /\ \A k \in 1..4 : v[k] \in FieldValues(InKinds[k])
    BY <1>3, KindsAre DEF IsFields
  <2>2. v = <<v[1], v[2], v[3], v[4]>>
    BY <2>1
  <2>3. 1 \in 1..4 /\ 2 \in 1..4 /\ 3 \in 1..4 /\ 4 \in 1..4
    OBVIOUS
  <2>. QED BY <1>1, <2>1, <2>2, <2>3, KindsAre
<1>4. ASSUME v = <<v[1], v[2], v[3], v[4]>>,
             v[1] \in Strings(HASH_SIZE), v[2] \in Numbers(INT),
             v[3] \in Vectors, v[4] \in Numbers(INT)
      PROVE  IsFields(InKinds, v)
  <2>1. v \in Seq(AnyField) /\ Len(v) = 4
    <3>1. PICK a \in AnyField, b \in AnyField, c \in AnyField, d \in AnyField : v = <<a, b, c, d>>
      BY <1>2, <1>4
    <3>2. <<a, b, c, d>> \in Seq(AnyField) /\ Len(<<a, b, c, d>>) = 4
      OBVIOUS
    <3>. QED BY <3>1, <3>2
  <2>2. \A k \in 1..4 : v[k] \in FieldValues(InKinds[k])
    <3>1. \A k \in 1..4 : k = 1 \/ k = 2 \/ k = 3 \/ k = 4
      OBVIOUS
    <3>. QED BY <1>1, <1>4, <3>1, KindsAre
  <2>. QED BY <2>1, <2>2, KindsAre DEF IsFields
<1>. QED BY <1>3, <1>4

LEMMA OutFieldsAre ==
  ASSUME NEW v
  PROVE  IsFields(OutKinds, v) <=>
           v = <<v[1], v[2]>> /\ v[1] \in Numbers(LONG) /\ v[2] \in Vectors
<1>1. FieldValues("uint64") = Numbers(LONG) /\ FieldValues("bytes") = Vectors
  BY DEF FieldValues
<1>2. Numbers(LONG) \subseteq AnyField /\ Vectors \subseteq AnyField
  BY <1>1, FieldReader DEF Kinds
<1>3. ASSUME IsFields(OutKinds, v)
      PROVE  v = <<v[1], v[2]>> /\ v[1] \in Numbers(LONG) /\ v[2] \in Vectors
  <2>1. v \in Seq(AnyField) /\ Len(v) = 2 /\ \A k \in 1..2 : v[k] \in FieldValues(OutKinds[k])
    BY <1>3, KindsAre DEF IsFields
  <2>2. v = <<v[1], v[2]>>
    BY <2>1
  <2>3. 1 \in 1..2 /\ 2 \in 1..2
    OBVIOUS
  <2>. QED BY <1>1, <2>1, <2>2, <2>3, KindsAre
<1>4. ASSUME v = <<v[1], v[2]>>, v[1] \in Numbers(LONG), v[2] \in Vectors
      PROVE  IsFields(OutKinds, v)
  <2>1. v \in Seq(AnyField) /\ Len(v) = 2
    <3>1. PICK a \in AnyField, b \in AnyField : v = <<a, b>>
      BY <1>2, <1>4
    <3>2. <<a, b>> \in Seq(AnyField) /\ Len(<<a, b>>) = 2
      OBVIOUS
    <3>. QED BY <3>1, <3>2
  <2>2. \A k \in 1..2 : v[k] \in FieldValues(OutKinds[k])
    <3>1. \A k \in 1..2 : k = 1 \/ k = 2
      OBVIOUS
    <3>. QED BY <1>1, <1>4, <3>1, KindsAre
  <2>. QED BY <2>1, <2>2, KindsAre DEF IsFields
<1>. QED BY <1>3, <1>4

\* A reader of fields whose values are then put together by F, which G undoes.
Tuples(kinds) == {v \in Seq(AnyField) : IsFields(kinds, v)}
TuplesBytes(kinds) == [v \in Tuples(kinds) |-> FieldPieces(kinds, v)]
ReadsTuple(kinds) == [b \in Bytestring |-> ReadFields(kinds, b)]

LEMMA TupleReader ==
  ASSUME NEW kinds \in Seq(Kinds)
  PROVE  IsReader(Tuples(kinds), ReadsTuple(kinds), TuplesBytes(kinds))
<1>1. ASSUME NEW b \in Bytestring, NEW c \in ReadFields(kinds, b)
      PROVE  /\ c \in Outcome(Tuples(kinds))
             /\ Kept(b, c.rest, TuplesBytes(kinds)[c.value])
  <2>1. /\ IsFields(kinds, c.value) /\ c.rest \in Bytestring
        /\ c = [value |-> c.value, rest |-> c.rest]
        /\ Kept(b, c.rest, FieldPieces(kinds, c.value))
    BY FieldsKept
  <2>2. c.value \in Tuples(kinds)
    BY <2>1 DEF Tuples, IsFields
  <2>3. TuplesBytes(kinds)[c.value] = FieldPieces(kinds, c.value)
    BY <2>2 DEF TuplesBytes
  <2>. QED BY <2>1, <2>2, <2>3 DEF Outcome
<1>2. ReadsTuple(kinds) \in [Bytestring -> SUBSET Outcome(Tuples(kinds))]
  BY <1>1 DEF ReadsTuple
<1>3. TuplesBytes(kinds) \in [Tuples(kinds) -> Bytestring]
  BY FieldsWrite DEF TuplesBytes, Tuples
<1>4. ReadsBack(Tuples(kinds), ReadsTuple(kinds), TuplesBytes(kinds))
  <2>1. ASSUME NEW v \in Tuples(kinds), NEW z \in Bytestring
        PROVE  ReadsTuple(kinds)[Cat(TuplesBytes(kinds)[v], z)] = {[value |-> v, rest |-> z]}
    <3>1. IsFields(kinds, v)
      BY DEF Tuples
    <3>2. TuplesBytes(kinds)[v] = FieldPieces(kinds, v)
      BY DEF TuplesBytes
    <3>3. Cat(FieldPieces(kinds, v), z) \in Bytestring
      BY <3>1, FieldsWrite, CatType
    <3>4. ReadFields(kinds, Cat(FieldPieces(kinds, v), z)) = {[value |-> v, rest |-> z]}
      BY <3>1, FieldsAgain
    <3>. QED BY <3>2, <3>3, <3>4 DEF ReadsTuple
  <2>. QED BY <2>1 DEF ReadsBack
<1>5. WritesBack(ReadsTuple(kinds), TuplesBytes(kinds))
  BY <1>1 DEF WritesBack, ReadsTuple
<1>. QED BY <1>2, <1>3, <1>4, <1>5 DEF IsReader

\* A reader whose values are renamed by F, which G undoes.
Renames(D, E, F, G) ==
  /\ F \in [D -> E] /\ G \in [E -> D]
  /\ \A v \in D : G[F[v]] = v
  /\ \A t \in E : F[G[t]] = t

RenamedReads(R, F) ==
  [b \in Bytestring |-> {[value |-> F[c.value], rest |-> c.rest] : c \in R[b]}]
RenamedBytes(E, W, G) == [t \in E |-> W[G[t]]]

LEMMA RenamedReader ==
  ASSUME NEW D, NEW R, NEW W, IsReader(D, R, W), NEW E, NEW F, NEW G, Renames(D, E, F, G)
  PROVE  IsReader(E, RenamedReads(R, F), RenamedBytes(E, W, G))
<1>1. ASSUME NEW b \in Bytestring, NEW c \in R[b]
      PROVE  /\ c.value \in D /\ c.rest \in Bytestring
             /\ Kept(b, c.rest, W[c.value])
  <2>1. c \in Outcome(D)
    BY DEF IsReader
  <2>2. Kept(b, c.rest, W[c.value])
    BY DEF IsReader, WritesBack
  <2>. QED BY <2>1, <2>2, OutcomeIs
<1>2. RenamedReads(R, F) \in [Bytestring -> SUBSET Outcome(E)]
  <2>1. ASSUME NEW b \in Bytestring, NEW c \in R[b]
        PROVE  [value |-> F[c.value], rest |-> c.rest] \in Outcome(E)
    BY <1>1 DEF Outcome, Renames
  <2>. QED BY <2>1 DEF RenamedReads
<1>3. RenamedBytes(E, W, G) \in [E -> Bytestring]
  BY DEF RenamedBytes, IsReader, Renames
<1>4. ReadsBack(E, RenamedReads(R, F), RenamedBytes(E, W, G))
  <2>1. ASSUME NEW t \in E, NEW z \in Bytestring
        PROVE  RenamedReads(R, F)[Cat(RenamedBytes(E, W, G)[t], z)]
                 = {[value |-> t, rest |-> z]}
    <3>1. PICK v \in D : v = G[t] /\ F[v] = t
      BY DEF Renames
    <3>2. PICK x \in Bytestring : x = W[v] /\ RenamedBytes(E, W, G)[t] = x
      BY <3>1 DEF RenamedBytes, IsReader
    <3>3. R[Cat(x, z)] = {[value |-> v, rest |-> z]}
      BY <3>2 DEF IsReader, ReadsBack
    <3>4. PICK b \in Bytestring : b = Cat(x, z)
      BY CatType
    <3>5. RenamedReads(R, F)[b] = {[value |-> F[c.value], rest |-> c.rest] : c \in R[b]}
      BY DEF RenamedReads
    <3>6. R[b] = {[value |-> v, rest |-> z]}
      BY <3>3, <3>4
    <3>7. {[value |-> F[c.value], rest |-> c.rest] : c \in R[b]} = {[value |-> F[v], rest |-> z]}
      BY <3>6
    <3>. QED BY <3>1, <3>2, <3>4, <3>5, <3>7
  <2>. QED BY <2>1 DEF ReadsBack
<1>5. WritesBack(RenamedReads(R, F), RenamedBytes(E, W, G))
  <2>1. ASSUME NEW b \in Bytestring, NEW d \in RenamedReads(R, F)[b]
        PROVE  Kept(b, d.rest, RenamedBytes(E, W, G)[d.value])
    <3>1. PICK c \in R[b] : d = [value |-> F[c.value], rest |-> c.rest]
      BY DEF RenamedReads
    <3>2. c.value \in D /\ Kept(b, c.rest, W[c.value])
      BY <1>1
    <3>3. RenamedBytes(E, W, G)[F[c.value]] = W[c.value]
      BY <3>2 DEF RenamedBytes, Renames
    <3>. QED BY <3>1, <3>2, <3>3
  <2>. QED BY <2>1 DEF WritesBack
<1>. QED BY <1>2, <1>3, <1>4, <1>5 DEF IsReader

------------------------------------------------------------------------------
(* Inputs and outputs.                                                     *)

ReadsTxIn == [b \in Bytestring |-> ReadTxIn(b)]
ReadsTxOut == [b \in Bytestring |-> ReadTxOut(b)]
InBytes == [t \in TxIns |-> TxInBytes(t)]
OutBytes == [t \in TxOuts |-> TxOutBytes(t)]

LEMMA InWritten ==
  ASSUME NEW v \in Tuples(InKinds)
  PROVE  /\ InOf(v) \in TxIns /\ InFields(InOf(v)) = v
         /\ TxInBytes(InOf(v)) = FieldPieces(InKinds, v)
<1>1. /\ IsFields(InKinds, v) /\ v = <<v[1], v[2], v[3], v[4]>>
      /\ v[1] \in Strings(HASH_SIZE) /\ v[2] \in Numbers(INT)
      /\ v[3] \in Vectors /\ v[4] \in Numbers(INT)
  BY InFieldsAre DEF Tuples
<1>2. PICK a \in Strings(HASH_SIZE), b \in Numbers(INT), c \in Vectors, d \in Numbers(INT) :
        v[1] = a /\ v[2] = b /\ v[3] = c /\ v[4] = d /\ v = <<a, b, c, d>>
  BY <1>1
<1>3. InOf(v) = [prevout |-> [txid |-> a, vout |-> b], script_sig |-> c, sequence |-> d,
                 witness |-> << >>]
  BY <1>2 DEF InOf
<1>4. InOf(v) \in TxIns
  BY <1>3 DEF TxIns, OutPoints
<1>5. InFields(InOf(v)) = v
  BY <1>2, <1>3 DEF InFields
<1>6. TxInBytes(InOf(v)) = Cat(Cat(Cat(a, to_bytes(b, INT)), VarBytes(c)), to_bytes(d, INT))
  <2>1. /\ InOf(v).prevout.txid = a /\ InOf(v).prevout.vout = b
        /\ InOf(v).script_sig = c /\ InOf(v).sequence = d
    BY <1>3
  <2>2. OutPointBytes(InOf(v).prevout) = Cat(a, to_bytes(b, INT))
    BY <2>1 DEF OutPointBytes, Cat
  <2>3. VarBytes(c) \in Bytestring /\ to_bytes(d, INT) \in Bytestring
        /\ Cat(a, to_bytes(b, INT)) \in Bytestring
    <3>1. /\ a \in Bytestring /\ to_bytes(b, INT) \in Bytestring
          /\ to_bytes(d, INT) \in Bytestring
      BY MarkersAre, ToBytesType DEF Numbers, Bytestring, Strings
    <3>. QED BY <3>1, VarBytesIs, CatType
  <2>4. PICK x \in Bytestring, y \in Bytestring, z \in Bytestring :
          x = Cat(a, to_bytes(b, INT)) /\ y = VarBytes(c) /\ z = to_bytes(d, INT)
    BY <2>3
  <2>5. TxInBytes(InOf(v)) = (x \o y) \o z \/ TxInBytes(InOf(v)) = x \o (y \o z)
    BY <2>1, <2>2, <2>4 DEF TxInBytes
  <2>6. TxInBytes(InOf(v)) = Cat(Cat(x, y), z)
    BY <2>5, CatThree DEF Cat
  <2>. QED BY <2>4, <2>6
<1>7. FieldPieces(InKinds, v)
        = Cat(Cat(Cat(a, to_bytes(b, INT)), VarBytes(c)), to_bytes(d, INT))
  <2>1. Writes(FieldsBytes(InKinds), v, 4)
    BY <1>1, KindsAre, FieldsWrite
  <2>2. /\ FieldsBytes(InKinds)[1] = FieldBytes("txid")
        /\ FieldsBytes(InKinds)[2] = FieldBytes("uint32")
        /\ FieldsBytes(InKinds)[3] = FieldBytes("bytes")
        /\ FieldsBytes(InKinds)[4] = FieldBytes("uint32")
    BY KindsAre DEF FieldsBytes
  <2>3. FieldBytes("txid")[a] = a
    BY DEF FieldBytes, Same
  <2>4. FieldBytes("uint32")[b] = to_bytes(b, INT) /\ FieldBytes("uint32")[d] = to_bytes(d, INT)
    BY DEF FieldBytes, IntBytes
  <2>5. FieldBytes("bytes")[c] = VarBytes(c)
    BY DEF FieldBytes, VectorBytes
  <2>6. FieldPieces(InKinds, v) = Pieces(FieldsBytes(InKinds), v, 4)
    BY KindsAre DEF FieldPieces
  <2>. QED BY <1>2, <2>1, <2>2, <2>3, <2>4, <2>5, <2>6, PiecesFour
<1>. QED BY <1>4, <1>5, <1>6, <1>7

LEMMA InTuple ==
  ASSUME NEW t \in TxIns
  PROVE  InFields(t) \in Tuples(InKinds) /\ InOf(InFields(t)) = t
<1>1. PICK a \in Strings(HASH_SIZE), b \in Numbers(INT), c \in Vectors, d \in Numbers(INT) :
        t = [prevout |-> [txid |-> a, vout |-> b], script_sig |-> c, sequence |-> d,
             witness |-> << >>]
  BY DEF TxIns, OutPoints
<1>2. InFields(t) = <<a, b, c, d>>
  BY <1>1 DEF InFields
<1>3. InOf(<<a, b, c, d>>) = t
  BY <1>1 DEF InOf
<1>4. IsFields(InKinds, <<a, b, c, d>>)
  BY InFieldsAre
<1>. QED BY <1>2, <1>3, <1>4 DEF Tuples, IsFields

LEMMA InReader == IsReader(TxIns, ReadsTxIn, InBytes)
<1> DEFINE D == Tuples(InKinds)
           F == [v \in D |-> InOf(v)]
           G == [t \in TxIns |-> InFields(t)]
<1>1. Renames(D, TxIns, F, G)
  BY InWritten, InTuple DEF Renames
<1>2. IsReader(TxIns, RenamedReads(ReadsTuple(InKinds), F),
               RenamedBytes(TxIns, TuplesBytes(InKinds), G))
  BY <1>1, KindsAre, TupleReader, RenamedReader
<1>3. RenamedBytes(TxIns, TuplesBytes(InKinds), G) = InBytes
  <2>1. ASSUME NEW t \in TxIns PROVE TuplesBytes(InKinds)[G[t]] = TxInBytes(t)
    BY InTuple, InWritten DEF TuplesBytes
  <2>. QED BY <2>1 DEF RenamedBytes, InBytes
<1>4. RenamedReads(ReadsTuple(InKinds), F) = ReadsTxIn
  <2>1. ASSUME NEW b \in Bytestring
        PROVE  {[value |-> F[c.value], rest |-> c.rest] : c \in ReadsTuple(InKinds)[b]}
                 = ReadTxIn(b)
    <3>1. ReadsTuple(InKinds)[b] = ReadFields(InKinds, b)
      BY DEF ReadsTuple
    <3> DEFINE P(c) == [c EXCEPT !.value = InOf(@)]
               Q(c) == [value |-> F[c.value], rest |-> c.rest]
    <3>2. ReadTxIn(b) = {P(c) : c \in ReadFields(InKinds, b)}
      BY DEF ReadTxIn, InOf, InKinds
    <3>3. ASSUME NEW c \in ReadFields(InKinds, b)
          PROVE  P(c) = Q(c)
      <4>1. c = [value |-> c.value, rest |-> c.rest] /\ IsFields(InKinds, c.value)
        BY KindsAre, FieldsKept
      <4>2. F[c.value] = InOf(c.value)
        BY <4>1 DEF Tuples, IsFields
      <4>3. PICK v, r : c = [value |-> v, rest |-> r]
        BY <4>1
      <4>4. c.value = v /\ c.rest = r
        BY <4>3
      <4>. QED BY <4>2, <4>3, <4>4
    <3>4. {P(c) : c \in ReadFields(InKinds, b)} = {Q(c) : c \in ReadFields(InKinds, b)}
      <4>. HIDE DEF P, Q
      <4>. QED BY <3>3
    <3>. QED BY <3>1, <3>2, <3>4
  <2>. QED BY <2>1 DEF RenamedReads, ReadsTxIn
<1>. QED BY <1>2, <1>3, <1>4

LEMMA OutWritten ==
  ASSUME NEW v \in Tuples(OutKinds)
  PROVE  /\ OutOf(v) \in TxOuts /\ OutFields(OutOf(v)) = v
         /\ TxOutBytes(OutOf(v)) = FieldPieces(OutKinds, v)
<1>1. /\ IsFields(OutKinds, v) /\ v = <<v[1], v[2]>>
      /\ v[1] \in Numbers(LONG) /\ v[2] \in Vectors
  BY OutFieldsAre DEF Tuples
<1>2. PICK a \in Numbers(LONG), c \in Vectors : v[1] = a /\ v[2] = c /\ v = <<a, c>>
  BY <1>1
<1>3. OutOf(v) = [value |-> a, script_pubkey |-> c]
  BY <1>2 DEF OutOf
<1>4. OutOf(v) \in TxOuts
  BY <1>3 DEF TxOuts
<1>5. OutFields(OutOf(v)) = v
  BY <1>2, <1>3 DEF OutFields
<1>6. TxOutBytes(OutOf(v)) = Cat(to_bytes(a, LONG), VarBytes(c))
  BY <1>3 DEF TxOutBytes, Cat
<1>7. FieldPieces(OutKinds, v) = Cat(to_bytes(a, LONG), VarBytes(c))
  <2>1. Writes(FieldsBytes(OutKinds), v, 2)
    BY <1>1, KindsAre, FieldsWrite
  <2>2. /\ FieldsBytes(OutKinds)[1] = FieldBytes("uint64")
        /\ FieldsBytes(OutKinds)[2] = FieldBytes("bytes")
    BY KindsAre DEF FieldsBytes
  <2>3. FieldBytes("uint64")[a] = to_bytes(a, LONG)
    BY DEF FieldBytes, IntBytes
  <2>4. FieldBytes("bytes")[c] = VarBytes(c)
    BY DEF FieldBytes, VectorBytes
  <2>5. FieldPieces(OutKinds, v) = Pieces(FieldsBytes(OutKinds), v, 2)
    BY KindsAre DEF FieldPieces
  <2>. QED BY <1>2, <2>1, <2>2, <2>3, <2>4, <2>5, PiecesTwo
<1>. QED BY <1>4, <1>5, <1>6, <1>7

LEMMA OutTuple ==
  ASSUME NEW t \in TxOuts
  PROVE  OutFields(t) \in Tuples(OutKinds) /\ OutOf(OutFields(t)) = t
<1>1. PICK a \in Numbers(LONG), c \in Vectors : t = [value |-> a, script_pubkey |-> c]
  BY DEF TxOuts
<1>2. OutFields(t) = <<a, c>>
  BY <1>1 DEF OutFields
<1>3. OutOf(<<a, c>>) = t
  BY <1>1 DEF OutOf
<1>4. IsFields(OutKinds, <<a, c>>)
  BY OutFieldsAre
<1>. QED BY <1>2, <1>3, <1>4 DEF Tuples, IsFields

LEMMA OutReader == IsReader(TxOuts, ReadsTxOut, OutBytes)
<1> DEFINE D == Tuples(OutKinds)
           F == [v \in D |-> OutOf(v)]
           G == [t \in TxOuts |-> OutFields(t)]
<1>1. Renames(D, TxOuts, F, G)
  BY OutWritten, OutTuple DEF Renames
<1>2. IsReader(TxOuts, RenamedReads(ReadsTuple(OutKinds), F),
               RenamedBytes(TxOuts, TuplesBytes(OutKinds), G))
  BY <1>1, KindsAre, TupleReader, RenamedReader
<1>3. RenamedBytes(TxOuts, TuplesBytes(OutKinds), G) = OutBytes
  <2>1. ASSUME NEW t \in TxOuts PROVE TuplesBytes(OutKinds)[G[t]] = TxOutBytes(t)
    BY OutTuple, OutWritten DEF TuplesBytes
  <2>. QED BY <2>1 DEF RenamedBytes, OutBytes
<1>4. RenamedReads(ReadsTuple(OutKinds), F) = ReadsTxOut
  <2>1. ASSUME NEW b \in Bytestring
        PROVE  {[value |-> F[c.value], rest |-> c.rest] : c \in ReadsTuple(OutKinds)[b]}
                 = ReadTxOut(b)
    <3>1. ReadsTuple(OutKinds)[b] = ReadFields(OutKinds, b)
      BY DEF ReadsTuple
    <3> DEFINE P(c) == [c EXCEPT !.value = OutOf(@)]
               Q(c) == [value |-> F[c.value], rest |-> c.rest]
    <3>2. ReadTxOut(b) = {P(c) : c \in ReadFields(OutKinds, b)}
      BY DEF ReadTxOut, OutOf, OutKinds
    <3>3. ASSUME NEW c \in ReadFields(OutKinds, b)
          PROVE  P(c) = Q(c)
      <4>1. c = [value |-> c.value, rest |-> c.rest] /\ IsFields(OutKinds, c.value)
        BY KindsAre, FieldsKept
      <4>2. F[c.value] = OutOf(c.value)
        BY <4>1 DEF Tuples, IsFields
      <4>3. PICK v, r : c = [value |-> v, rest |-> r]
        BY <4>1
      <4>4. c.value = v /\ c.rest = r
        BY <4>3
      <4>. QED BY <4>2, <4>3, <4>4
    <3>4. {P(c) : c \in ReadFields(OutKinds, b)} = {Q(c) : c \in ReadFields(OutKinds, b)}
      <4>. HIDE DEF P, Q
      <4>. QED BY <3>3
    <3>. QED BY <3>1, <3>2, <3>4
  <2>. QED BY <2>1 DEF RenamedReads, ReadsTxOut
<1>. QED BY <1>2, <1>3, <1>4

------------------------------------------------------------------------------
(* Many values by the same reader.                                         *)

Repeat(n, x) == [k \in 1..n |-> x]

\* Values that W writes, one after the other.
ManyBytes(W, v) == Pieces(Repeat(Len(v), W), v, Len(v))

LEMMA RepeatedReaders ==
  ASSUME NEW n \in Nat, NEW U, NEW R, NEW W, IsReader(U, R, W)
  PROVE  Readers(n, U, Repeat(n, U), Repeat(n, R), Repeat(n, W))
BY DEF Readers, Repeat

LEMMA ManyWrite ==
  ASSUME NEW U, NEW R, NEW W, IsReader(U, R, W), NEW v \in Seq(U)
  PROVE  /\ Writes(Repeat(Len(v), W), v, Len(v)) /\ Len(v) \in Nat
         /\ ManyBytes(W, v) \in Bytestring
<1>1. PICK n \in Nat : n = Len(v)
  OBVIOUS
<1>2. \A k \in 1..n : v[k] \in U
  BY <1>1
<1>3. W \in [U -> Bytestring]
  BY DEF IsReader
<1>4. Writes(Repeat(n, W), v, n)
  BY <1>2, <1>3 DEF Writes, Repeat
<1>. QED BY <1>1, <1>4, PiecesType DEF ManyBytes

\* What takes a byte at least takes as many as there are values.
LEMMA ManyLong ==
  ASSUME NEW U, NEW R, NEW W, IsReader(U, R, W), \A u \in U : Len(W[u]) >= 1,
         NEW v \in Seq(U)
  PROVE  Len(v) <= Len(ManyBytes(W, v))
<1>1. PICK n \in Nat : n = Len(v)
  OBVIOUS
<1>2. \A k \in 1..n : v[k] \in U
  BY <1>1
<1>3. W \in [U -> Bytestring]
  BY DEF IsReader
<1> DEFINE V == Repeat(n, W)
           P == {k \in 0..n : k <= Len(Pieces(V, v, k))}
<1>4. \A k \in 0..n : Writes(V, v, k) /\ Alike(v, v, k)
  BY <1>2, <1>3 DEF Writes, Repeat, Alike
<1>5. 0 \in P
  <2>1. Pieces(V, v, 0) = << >>
    BY PiecesNone
  <2>2. 0 \in 0..n /\ 0 <= Len(<< >>)
    OBVIOUS
  <2>. HIDE DEF V
  <2>. QED BY <2>1, <2>2
<1>6. \A k \in 1..n : k - 1 \in P => k \in P
  <2> SUFFICES ASSUME NEW k \in 1..n, k - 1 \in P PROVE k \in P
    OBVIOUS
  <2>1. PICK m \in Nat : m = k - 1 /\ k = m + 1 /\ m \in 0..n
    OBVIOUS
  <2>2. V[k] = W /\ v[k] \in U
    BY <1>2 DEF Repeat
  <2>3. PICK w \in Bytestring : w = V[m + 1][v[m + 1]] /\ Len(w) >= 1
    BY <1>3, <2>1, <2>2
  <2>. HIDE DEF V
  <2>4. PICK p \in Bytestring : p = Pieces(V, v, m)
    BY <1>4, <2>1, PiecesType
  <2>5. Pieces(V, v, m + 1) = Cat(p, w)
    BY <1>4, <2>1, <2>3, <2>4, PiecesLast
  <2>6. Len(Cat(p, w)) = Len(p) + Len(w) /\ Len(p) \in Nat /\ Len(w) \in Nat
    BY CatType
  <2>7. m <= Len(p)
    BY <2>1, <2>4
  <2>8. k <= Len(Cat(p, w))
    BY <2>1, <2>3, <2>6, <2>7
  <2>. QED BY <2>1, <2>5, <2>8
<1>7. n \in P
  <2>. HIDE DEF P
  <2>1. \A k \in 0..n : k \in P
    BY <1>5, <1>6, Upwards
  <2>2. n \in 0..n
    OBVIOUS
  <2>. QED BY <2>1, <2>2
<1>. QED BY <1>1, <1>7 DEF ManyBytes

LEMMA ManyKept ==
  ASSUME NEW U, NEW R, NEW W, IsReader(U, R, W), NEW n \in Nat, NEW b \in Bytestring,
         NEW f, Chained(n, Repeat(n, R), b, f), NEW c \in f[n]
  PROVE  /\ c \in Outcome(Seq(U)) /\ Len(c.value) = n
         /\ Kept(b, c.rest, ManyBytes(W, c.value))
<1>1. Readers(n, U, Repeat(n, U), Repeat(n, R), Repeat(n, W))
  BY RepeatedReaders
<1>2. n \in 0..n
  OBVIOUS
<1>3. IsResult(U, Repeat(n, U), Repeat(n, W), b, n, c)
  BY <1>1, <1>2, ChainKept
<1>. QED BY <1>3 DEF IsResult, ManyBytes

LEMMA ManyAgain ==
  ASSUME NEW U, NEW R, NEW W, IsReader(U, R, W), NEW v \in Seq(U), NEW z \in Bytestring,
         NEW n \in Nat, n = Len(v), NEW b \in Bytestring, b = Cat(ManyBytes(W, v), z),
         NEW f, Chained(n, Repeat(n, R), b, f)
  PROVE  f[n] = {[value |-> v, rest |-> z]}
<1>1. Readers(n, U, Repeat(n, U), Repeat(n, R), Repeat(n, W))
  BY RepeatedReaders
<1>2. \A k \in 1..n : v[k] \in Repeat(n, U)[k]
  BY DEF Repeat
<1>3. b = Cat(Pieces(Repeat(n, W), v, n), z)
  BY DEF ManyBytes
<1>. QED BY <1>1, <1>2, <1>3, ChainReadsBack

\* Two recursions that begin alike and go on alike.
LEMMA MeetAt ==
  ASSUME NEW n \in Nat, NEW f, NEW h, h[0] = f[0],
         \A k \in 1..n : h[k - 1] = f[k - 1] => h[k] = f[k]
  PROVE  h[n] = f[n]
<1> DEFINE P == {k \in 0..n : h[k] = f[k]}
<1>1. 0 \in P
  OBVIOUS
<1>2. \A k \in 1..n : k - 1 \in P => k \in P
  OBVIOUS
<1>. HIDE DEF P
<1>3. \A k \in 0..n : k \in P
  BY <1>1, <1>2, Upwards
<1>4. n \in 0..n
  OBVIOUS
<1>. QED BY <1>3, <1>4 DEF P

------------------------------------------------------------------------------
(* Inputs, outputs, and items of a witness.                                *)

ItemKinds == {"TxIn", "TxOut", "item"}

ItemValues(kind) ==
  CASE kind = "TxIn" -> TxIns
    [] kind = "TxOut" -> TxOuts
    [] kind = "item" -> Vectors

ItemBytes(kind) ==
  CASE kind = "TxIn" -> InBytes
    [] kind = "TxOut" -> OutBytes
    [] kind = "item" -> VectorBytes

ReadsItem(kind) == [b \in Bytestring |-> ReadItem(kind, b)]

LEMMA InLong ==
  ASSUME NEW t \in TxIns
  PROVE  Len(InBytes[t]) >= 1
<1>1. PICK v \in Vectors, n \in Numbers(INT) : v = t.script_sig /\ n = t.sequence
  BY DEF TxIns
<1>2. PICK x \in Bytestring : x = OutPointBytes(t.prevout)
  <2>1. PICK a \in Strings(HASH_SIZE), m \in Numbers(INT) :
          t.prevout.txid = a /\ t.prevout.vout = m
    BY DEF TxIns, OutPoints
  <2>2. a \in Bytestring /\ to_bytes(m, INT) \in Bytestring
    BY MarkersAre, ToBytesType DEF Numbers, Bytestring, Strings
  <2>3. OutPointBytes(t.prevout) = Cat(a, to_bytes(m, INT))
    BY <2>1 DEF OutPointBytes, Cat
  <2>. QED BY <2>2, <2>3, CatType
<1>3. PICK y \in Bytestring : y = VarBytes(v)
  BY VarBytesIs
<1>4. PICK z \in Bytestring : z = to_bytes(n, INT) /\ Len(z) = INT
  BY MarkersAre, ToBytesType DEF Numbers, Bytestring
<1>5. TxInBytes(t) = (x \o y) \o z \/ TxInBytes(t) = x \o (y \o z)
  BY <1>1, <1>2, <1>3, <1>4 DEF TxInBytes
<1>6. TxInBytes(t) = Cat(Cat(x, y), z)
  BY <1>5, CatThree DEF Cat
<1>7. PICK w \in Bytestring : w = Cat(x, y)
  BY CatType
<1>8. Len(Cat(w, z)) = Len(w) + Len(z) /\ Len(w) \in Nat /\ Len(z) \in Nat
  BY CatType
<1>9. Len(Cat(w, z)) >= 1
  BY <1>4, <1>8, MarkersAre
<1>. QED BY <1>6, <1>7, <1>9 DEF InBytes

LEMMA OutLong ==
  ASSUME NEW t \in TxOuts
  PROVE  Len(OutBytes[t]) >= 1
<1>1. PICK v \in Vectors, n \in Numbers(LONG) : v = t.script_pubkey /\ n = t.value
  BY DEF TxOuts
<1>2. PICK x \in Bytestring : x = to_bytes(n, LONG) /\ Len(x) = LONG
  BY MarkersAre, ToBytesType DEF Numbers, Bytestring
<1>3. PICK y \in Bytestring : y = VarBytes(v)
  BY VarBytesIs
<1>4. TxOutBytes(t) = Cat(x, y)
  BY <1>1, <1>2, <1>3 DEF TxOutBytes, Cat
<1>5. Len(Cat(x, y)) = Len(x) + Len(y) /\ Len(x) \in Nat /\ Len(y) \in Nat
  BY CatType
<1>6. Len(Cat(x, y)) >= 1
  BY <1>2, <1>5, MarkersAre
<1>. QED BY <1>4, <1>6 DEF OutBytes

LEMMA ItemReader ==
  ASSUME NEW kind \in ItemKinds
  PROVE  /\ IsReader(ItemValues(kind), ReadsItem(kind), ItemBytes(kind))
         /\ \A v \in ItemValues(kind) : Len(ItemBytes(kind)[v]) >= 1
<1>1. CASE kind = "TxIn"
  <2>1. ReadsItem(kind) = ReadsTxIn
    BY <1>1 DEF ReadsItem, ReadItem, ReadsTxIn
  <2>2. ItemValues(kind) = TxIns /\ ItemBytes(kind) = InBytes
    BY <1>1 DEF ItemValues, ItemBytes
  <2>. QED BY <2>1, <2>2, InReader, InLong
<1>2. CASE kind = "TxOut"
  <2>1. ReadsItem(kind) = ReadsTxOut
    BY <1>2 DEF ReadsItem, ReadItem, ReadsTxOut
  <2>2. ItemValues(kind) = TxOuts /\ ItemBytes(kind) = OutBytes
    BY <1>2 DEF ItemValues, ItemBytes
  <2>. QED BY <2>1, <2>2, OutReader, OutLong
<1>3. CASE kind = "item"
  <2>1. ReadsItem(kind) = ReadsVector
    BY <1>3 DEF ReadsItem, ReadItem, ReadsVector
  <2>2. ItemValues(kind) = Vectors /\ ItemBytes(kind) = VectorBytes
    BY <1>3 DEF ItemValues, ItemBytes
  <2>3. \A v \in Vectors : Len(VectorBytes[v]) >= 1
    BY VarBytesIs DEF VectorBytes
  <2>. QED BY <2>1, <2>2, <2>3, VectorReader
<1>. QED BY <1>1, <1>2, <1>3 DEF ItemKinds

LEMMA ItemsAre ==
  ASSUME NEW kind \in ItemKinds, NEW n \in Nat, NEW b \in Bytestring, n <= Len(b),
         NEW count, count = [value |-> n, rest |-> b]
  PROVE  \E f : Chained(n, Repeat(n, ReadsItem(kind)), b, f) /\ ReadItems(kind, count) = f[n]
<1> DEFINE U == ItemValues(kind)
           W == ItemBytes(kind)
           R == Repeat(n, ReadsItem(kind))
<1>1. Readers(n, U, Repeat(n, U), R, Repeat(n, W)) /\ IsReader(U, ReadsItem(kind), W)
  BY ItemReader, RepeatedReaders
<1>2. PICK f \in [0..n -> SUBSET Outcome(Seq(U))] : Chained(n, R, b, f)
  <2>. HIDE DEF U, R, W
  <2>. QED BY <1>1, ChainExists
<1> DEFINE Turn(c) == Also(c, ReadItem(kind, c.rest))
           Step(g, k) == IF k = 0 THEN {[value |-> << >>, rest |-> b]}
                         ELSE UNION {Turn(c) : c \in g[k - 1]}
           h == CHOOSE g : g = [k \in 0..n |-> Step(g, k)]
<1>3. ReadItems(kind, count) = h[n]
  <2>1. count.value = n /\ count.rest = b
    OBVIOUS
  <2>2. Len(b) \in Nat /\ ~(n > Len(b))
    BY DEF Bytestring
  <2>. QED BY <2>1, <2>2 DEF ReadItems, ReadAll
<1>4. ASSUME NEW k \in 1..n, NEW c \in f[k - 1] PROVE Turn(c) = Also(c, R[k][c.rest])
  <2>1. k - 1 \in 0..n
    OBVIOUS
  <2>2. c \in Outcome(Seq(U))
    BY <1>2, <2>1
  <2>3. c.rest \in Bytestring
    BY <2>2, OutcomeIs
  <2>. QED BY <2>3 DEF ReadsItem, Repeat
<1>. HIDE DEF U, R, W, Turn
<1>5. \A k \in 0..n : f[k] = Step(f, k)
  <2> TAKE k \in 0..n
  <2>1. CASE k = 0
    BY <1>2, <2>1 DEF Chained, Start
  <2>2. CASE k # 0
    <3>1. k \in 1..n
      BY <2>2
    <3>2. f[k] = UNION {Also(c, R[k][c.rest]) : c \in f[k - 1]}
      BY <1>2, <3>1 DEF Chained
    <3>3. {Also(c, R[k][c.rest]) : c \in f[k - 1]} = {Turn(c) : c \in f[k - 1]}
      BY <1>4, <3>1
    <3>. QED BY <2>2, <3>2, <3>3
  <2>. QED BY <2>1, <2>2
<1>. HIDE DEF Step
<1>6. f = [k \in 0..n |-> Step(f, k)]
  <2>1. f = [k \in 0..n |-> f[k]]
    OBVIOUS
  <2>. QED BY <1>5, <2>1
<1>7. h = [k \in 0..n |-> Step(h, k)]
  BY <1>6
<1>. HIDE DEF h
<1>8. \A k \in 0..n : h[k] = Step(h, k)
  BY <1>7
<1>9. h[0] = f[0] /\ \A k \in 1..n : h[k - 1] = f[k - 1] => h[k] = f[k]
  <2>1. 0 \in 0..n /\ \A k \in 1..n : k \in 0..n /\ k # 0
    OBVIOUS
  <2>. QED BY <1>5, <1>8, <2>1 DEF Step
<1>10. h[n] = f[n]
  BY <1>9, MeetAt
<1>. QED BY <1>2, <1>3, <1>10 DEF R

------------------------------------------------------------------------------
(* Lists.                                                                  *)

Lists(kind) == {v \in Seq(ItemValues(kind)) : Len(v) \in Sizes}
ListBytes(kind) ==
  [v \in Lists(kind) |-> Cat(encode_compact_size(Len(v)), ManyBytes(ItemBytes(kind), v))]
ReadsList(kind) == [b \in Bytestring |-> ReadList(kind, b)]

LEMMA ListReader ==
  ASSUME NEW kind \in ItemKinds
  PROVE  IsReader(Lists(kind), ReadsList(kind), ListBytes(kind))
<1> DEFINE U == ItemValues(kind)
           R == ReadsItem(kind)
           W == ItemBytes(kind)
<1>1. IsReader(U, R, W) /\ \A u \in U : Len(W[u]) >= 1
  BY ItemReader
<1>2. ASSUME NEW v \in Lists(kind)
      PROVE  /\ v \in Seq(U) /\ Len(v) \in Sizes /\ Len(v) \in Nat
             /\ encode_compact_size(Len(v)) \in Bytestring /\ ManyBytes(W, v) \in Bytestring
             /\ Len(v) <= Len(ManyBytes(W, v))
  <2>1. v \in Seq(U) /\ Len(v) \in Sizes
    BY DEF Lists
  <2>2. encode_compact_size(Len(v)) \in Bytestring
    BY <2>1, NoBytes, SizeAgain
  <2>. HIDE DEF U, R, W
  <2>. QED BY <1>1, <2>1, <2>2, ManyWrite, ManyLong
<1>3. ListBytes(kind) \in [Lists(kind) -> Bytestring]
  BY <1>2, CatType DEF ListBytes
<1>4. ASSUME NEW b \in Bytestring, NEW c \in ReadList(kind, b)
      PROVE  c \in Outcome(Lists(kind)) /\ Kept(b, c.rest, ListBytes(kind)[c.value])
  <2>1. PICK d \in ReadCompactSize(b) : c \in ReadItems(kind, d)
    BY DEF ReadList
  <2>2. d \in Outcome(Sizes) /\ Kept(b, d.rest, encode_compact_size(d.value))
    BY <2>1, SizeKept
  <2>3. PICK n \in Sizes, r \in Bytestring :
          n = d.value /\ r = d.rest /\ d = [value |-> n, rest |-> r]
    BY <2>2, OutcomeIs
  <2>4. n \in Nat /\ Len(r) \in Nat
    BY DEF Sizes, Numbers, Bytestring
  <2>5. n <= Len(r)
    <3>1. ~(n > Len(r))
      BY <2>1, <2>3 DEF ReadItems
    <3>. QED BY <2>4, <3>1
  <2>6. PICK f : Chained(n, Repeat(n, R), r, f) /\ ReadItems(kind, d) = f[n]
    BY <2>3, <2>4, <2>5, ItemsAre
  <2>7. /\ c \in Outcome(Seq(U)) /\ Len(c.value) = n
        /\ Kept(r, c.rest, ManyBytes(W, c.value))
    <3>1. c \in f[n]
      BY <2>1, <2>6
    <3>. HIDE DEF U, R, W
    <3>. QED BY <1>1, <2>4, <2>6, <3>1, ManyKept
  <2>8. PICK v \in Seq(U), z \in Bytestring :
          v = c.value /\ z = c.rest /\ c = [value |-> v, rest |-> z]
    BY <2>7, OutcomeIs
  <2>9. v \in Lists(kind)
    BY <2>7, <2>8 DEF Lists
  <2>10. c \in Outcome(Lists(kind))
    BY <2>8, <2>9 DEF Outcome
  <2>11. PICK x \in Bytestring, y \in Bytestring :
           x = encode_compact_size(n) /\ y = ManyBytes(W, v) /\ ListBytes(kind)[v] = Cat(x, y)
    BY <1>2, <2>7, <2>8, <2>9 DEF ListBytes
  <2>12. Kept(b, z, Cat(x, y))
    <3>1. Kept(b, r, x) /\ Kept(r, z, y)
      BY <2>2, <2>3, <2>7, <2>8, <2>11
    <3>. QED BY <3>1, KeptTwice
  <2>. QED BY <2>8, <2>10, <2>11, <2>12
<1>5. ReadsList(kind) \in [Bytestring -> SUBSET Outcome(Lists(kind))]
  BY <1>4 DEF ReadsList
<1>6. ReadsBack(Lists(kind), ReadsList(kind), ListBytes(kind))
  <2>1. ASSUME NEW v \in Lists(kind), NEW z \in Bytestring
        PROVE  ReadsList(kind)[Cat(ListBytes(kind)[v], z)] = {[value |-> v, rest |-> z]}
    <3>1. PICK n \in Sizes, x \in Bytestring, y \in Bytestring :
            /\ n = Len(v) /\ x = encode_compact_size(n) /\ y = ManyBytes(W, v)
            /\ ListBytes(kind)[v] = Cat(x, y) /\ n <= Len(y) /\ n \in Nat
      BY <1>2 DEF ListBytes
    <3>2. PICK t \in Bytestring : t = Cat(y, z)
      BY CatType
    <3>3. Cat(Cat(x, y), z) = Cat(x, t)
      BY <3>2, CatThree
    <3>4. ReadCompactSize(Cat(x, t)) = {[value |-> n, rest |-> t]}
      BY <3>1, SizeAgain
    <3>5. n <= Len(t)
      <4>1. Len(t) = Len(y) + Len(z) /\ Len(y) \in Nat /\ Len(z) \in Nat
        BY <3>2, CatType
      <4>. QED BY <3>1, <4>1
    <3> DEFINE d == [value |-> n, rest |-> t]
    <3>6. PICK f : Chained(n, Repeat(n, R), t, f) /\ ReadItems(kind, d) = f[n]
      BY <3>1, <3>5, ItemsAre
    <3>7. f[n] = {[value |-> v, rest |-> z]}
      <4>1. v \in Seq(U)
        BY <1>2
      <4>. HIDE DEF U, R, W
      <4>. QED BY <1>1, <3>1, <3>2, <3>6, <4>1, ManyAgain
    <3>8. ReadList(kind, Cat(x, t)) = {[value |-> v, rest |-> z]}
      <4>. HIDE DEF d
      <4>1. ReadCompactSize(Cat(x, t)) = {d}
        BY <3>4 DEF d
      <4>. QED BY <3>6, <3>7, <4>1 DEF ReadList
    <3>9. Cat(x, t) \in Bytestring
      BY CatType
    <3>. QED BY <3>1, <3>3, <3>8, <3>9 DEF ReadsList
  <2>. QED BY <2>1 DEF ReadsBack
<1>7. WritesBack(ReadsList(kind), ListBytes(kind))
  <2>1. ASSUME NEW b \in Bytestring, NEW c \in ReadsList(kind)[b]
        PROVE  Kept(b, c.rest, ListBytes(kind)[c.value])
    <3>1. c \in ReadList(kind, b)
      BY DEF ReadsList
    <3>. QED BY <1>4, <3>1
  <2>. QED BY <2>1 DEF WritesBack
<1>. QED BY <1>3, <1>5, <1>6, <1>7 DEF IsReader

\* A list with something in it never begins with a 0.
LEMMA ListBegins ==
  ASSUME NEW kind \in ItemKinds, NEW v \in Lists(kind), v # << >>, NEW z \in Bytestring
  PROVE  Cat(ListBytes(kind)[v], z) # << >> /\ Cat(ListBytes(kind)[v], z)[1] # 0
<1>1. v \in Seq(ItemValues(kind)) /\ Len(v) \in Sizes
  BY DEF Lists
<1>2. PICK n \in Sizes : n = Len(v) /\ n > 0
  BY <1>1
<1>3. PICK x \in Bytestring : x = encode_compact_size(n) /\ Len(x) >= 1 /\ x[1] # 0
  BY <1>2, NoBytes, SizeAgain
<1>4. PICK y \in Bytestring : y = ManyBytes(ItemBytes(kind), v)
  BY <1>1, ItemReader, ManyWrite
<1>5. ListBytes(kind)[v] = Cat(x, y)
  BY <1>2, <1>3, <1>4 DEF ListBytes
<1>6. PICK t \in Bytestring : t = Cat(y, z)
  BY CatType
<1>7. Cat(Cat(x, y), z) = Cat(x, t)
  BY <1>6, CatThree
<1>8. PICK m \in Nat, k \in Nat : m = Len(x) /\ k = Len(t) /\ m >= 1
  BY <1>3 DEF Bytestring
<1>9. IsCat(x, t, m, k, Cat(x, t))
  BY <1>8, CatAt
<1>10. Cat(x, t)[1] = x[1] /\ Len(Cat(x, t)) >= 1
  BY <1>8, <1>9 DEF IsCat
<1>. QED BY <1>3, <1>5, <1>7, <1>10

------------------------------------------------------------------------------
(* The witnesses of the inputs.                                            *)

Witnesses == Seq(Lists("item"))
WitnessesBytes(w) == ManyBytes(ListBytes("item"), w)

LEMMA WitnessesAre ==
  ASSUME NEW vin, NEW n \in Nat, n = Len(vin), NEW b \in Bytestring
  PROVE  \E f : /\ Chained(n, Repeat(n, ReadsList("item")), b, f)
                /\ ReadWitnesses(TRUE, vin, b) = f[n]
<1> DEFINE U == Lists("item")
           W == ListBytes("item")
           R == Repeat(n, ReadsList("item"))
<1>1. Readers(n, U, Repeat(n, U), R, Repeat(n, W))
  BY ListReader, RepeatedReaders DEF ItemKinds
<1>2. PICK f \in [0..n -> SUBSET Outcome(Seq(U))] : Chained(n, R, b, f)
  <2>. HIDE DEF U, R, W
  <2>. QED BY <1>1, ChainExists
<1> DEFINE Turn(c) == Also(c, ReadList("item", c.rest))
           Step(g, k) == IF k = 0 THEN {[value |-> << >>, rest |-> b]}
                         ELSE UNION {Turn(c) : c \in g[k - 1]}
           h == CHOOSE g : g = [k \in 0..n |-> Step(g, k)]
<1>3. ReadWitnesses(TRUE, vin, b) = h[n]
  BY DEF ReadWitnesses, ReadAll
<1>4. ASSUME NEW k \in 1..n, NEW c \in f[k - 1] PROVE Turn(c) = Also(c, R[k][c.rest])
  <2>1. k - 1 \in 0..n
    OBVIOUS
  <2>2. c \in Outcome(Seq(U))
    BY <1>2, <2>1
  <2>3. c.rest \in Bytestring
    BY <2>2, OutcomeIs
  <2>. QED BY <2>3 DEF ReadsList, Repeat
<1>. HIDE DEF U, R, W, Turn
<1>5. \A k \in 0..n : f[k] = Step(f, k)
  <2> TAKE k \in 0..n
  <2>1. CASE k = 0
    BY <1>2, <2>1 DEF Chained, Start
  <2>2. CASE k # 0
    <3>1. k \in 1..n
      BY <2>2
    <3>2. f[k] = UNION {Also(c, R[k][c.rest]) : c \in f[k - 1]}
      BY <1>2, <3>1 DEF Chained
    <3>3. {Also(c, R[k][c.rest]) : c \in f[k - 1]} = {Turn(c) : c \in f[k - 1]}
      BY <1>4, <3>1
    <3>. QED BY <2>2, <3>2, <3>3
  <2>. QED BY <2>1, <2>2
<1>. HIDE DEF Step
<1>6. f = [k \in 0..n |-> Step(f, k)]
  <2>1. f = [k \in 0..n |-> f[k]]
    OBVIOUS
  <2>. QED BY <1>5, <2>1
<1>7. h = [k \in 0..n |-> Step(h, k)]
  BY <1>6
<1>. HIDE DEF h
<1>8. \A k \in 0..n : h[k] = Step(h, k)
  BY <1>7
<1>9. h[0] = f[0] /\ \A k \in 1..n : h[k - 1] = f[k - 1] => h[k] = f[k]
  <2>1. 0 \in 0..n /\ \A k \in 1..n : k \in 0..n /\ k # 0
    OBVIOUS
  <2>. QED BY <1>5, <1>8, <2>1 DEF Step
<1>10. h[n] = f[n]
  BY <1>9, MeetAt
<1>. QED BY <1>2, <1>3, <1>10 DEF R

LEMMA WitnessesKept ==
  ASSUME NEW vin, Len(vin) \in Nat, NEW b \in Bytestring,
         NEW c \in ReadWitnesses(TRUE, vin, b)
  PROVE  /\ c \in Outcome(Witnesses) /\ Len(c.value) = Len(vin)
         /\ Kept(b, c.rest, WitnessesBytes(c.value))
<1>1. PICK n \in Nat : n = Len(vin)
  OBVIOUS
<1>2. PICK f : /\ Chained(n, Repeat(n, ReadsList("item")), b, f)
               /\ ReadWitnesses(TRUE, vin, b) = f[n]
  BY <1>1, WitnessesAre
<1>3. IsReader(Lists("item"), ReadsList("item"), ListBytes("item"))
  BY ListReader DEF ItemKinds
<1>4. c \in f[n]
  BY <1>2
<1>. QED BY <1>1, <1>2, <1>3, <1>4, ManyKept DEF Witnesses, WitnessesBytes

LEMMA WitnessesAgain ==
  ASSUME NEW vin, NEW w \in Witnesses, Len(w) = Len(vin), NEW z \in Bytestring
  PROVE  /\ WitnessesBytes(w) \in Bytestring
         /\ ReadWitnesses(TRUE, vin, Cat(WitnessesBytes(w), z)) = {[value |-> w, rest |-> z]}
<1>1. w \in Seq(Lists("item"))
  BY DEF Witnesses
<1>2. PICK n \in Nat : n = Len(vin) /\ n = Len(w)
  BY <1>1
<1>3. IsReader(Lists("item"), ReadsList("item"), ListBytes("item"))
  BY ListReader DEF ItemKinds
<1>4. WitnessesBytes(w) \in Bytestring
  BY <1>1, <1>3, ManyWrite DEF WitnessesBytes
<1>5. PICK b \in Bytestring : b = Cat(WitnessesBytes(w), z)
  BY <1>4, CatType
<1>6. PICK f : /\ Chained(n, Repeat(n, ReadsList("item")), b, f)
               /\ ReadWitnesses(TRUE, vin, b) = f[n]
  BY <1>2, WitnessesAre
<1>7. f[n] = {[value |-> w, rest |-> z]}
  BY <1>1, <1>2, <1>3, <1>5, <1>6, ManyAgain DEF WitnessesBytes
<1>. QED BY <1>4, <1>5, <1>6, <1>7

------------------------------------------------------------------------------
(* The marker and the flag.                                                *)

LEMMA MarkerKept ==
  ASSUME NEW b \in Bytestring, NEW c \in ReadMarker(b)
  PROVE  /\ c.rest \in Bytestring
         /\ \/ c = [value |-> FALSE, rest |-> b]
            \/ \E x \in Byte : /\ c = [value |-> TRUE, rest |-> c.rest]
                               /\ x # 0 /\ b = Cat(<<0, x>>, c.rest)
<1>1. b # << >>
  BY DEF ReadMarker
<1>2. CASE b[1] # 0
  <2>1. c = [value |-> FALSE, rest |-> b]
    BY <1>1, <1>2 DEF ReadMarker
  <2>. QED BY <2>1
<1>3. CASE b[1] = 0
  <2>1. PICK d \in Read(b, 2) : d.value[2] # 0 /\ c = [d EXCEPT !.value = TRUE]
    BY <1>1, <1>3 DEF ReadMarker
  <2>2. /\ d = [value |-> d.value, rest |-> d.rest]
        /\ d.value \in Bytestring /\ Len(d.value) = 2 /\ d.rest \in Bytestring
        /\ b = Cat(d.value, d.rest)
    BY ReadIs
  <2>3. PICK y \in Bytestring, z \in Bytestring :
          /\ y = d.value /\ z = d.rest /\ d = [value |-> y, rest |-> z]
          /\ Len(y) = 2 /\ b = Cat(y, z)
    BY <2>2
  <2>4. c = [value |-> TRUE, rest |-> z] /\ y[2] # 0
    BY <2>1, <2>3
  <2>5. PICK m \in Nat : m = Len(z)
    BY DEF Bytestring
  <2>6. IsCat(y, z, 2, m, b)
    BY <2>3, <2>5, CatAt
  <2>7. y[1] = 0
    BY <1>3, <2>5, <2>6 DEF IsCat
  <2>8. PICK x \in Byte : x = y[2]
    BY <2>3 DEF Bytestring
  <2>9. y = <<0, x>>
    BY <2>3, <2>7, <2>8 DEF Bytestring
  <2>. QED BY <2>3, <2>4, <2>8, <2>9
<1>. QED BY <1>2, <1>3

LEMMA MarkerAgain ==
  ASSUME NEW z \in Bytestring
  PROVE  /\ <<0, 1>> \in Bytestring /\ Len(<<0, 1>>) = 2
         /\ ReadMarker(Cat(<<0, 1>>, z)) = {[value |-> TRUE, rest |-> z]}
<1>1. 0 \in Byte /\ 1 \in Byte
  BY SerializeAssumption DEF Byte
<1>2. PICK y \in Bytestring : y = <<0, 1>> /\ Len(y) = 2 /\ y[1] = 0 /\ y[2] = 1
  <2>1. PICK p \in Byte, q \in Byte : p = 0 /\ q = 1
    BY <1>1
  <2>2. /\ <<p, q>> \in Seq(Byte) /\ Len(<<p, q>>) = 2
        /\ <<p, q>>[1] = p /\ <<p, q>>[2] = q
    OBVIOUS
  <2>. QED BY <2>1, <2>2 DEF Bytestring
<1>3. Read(Cat(y, z), 2) = {[value |-> y, rest |-> z]}
  BY <1>2, ReadAgain
<1>4. PICK m \in Nat : m = Len(z)
  BY DEF Bytestring
<1>5. IsCat(y, z, 2, m, Cat(y, z))
  BY <1>2, <1>4, CatAt
<1>6. Cat(y, z)[1] = 0 /\ Cat(y, z) # << >>
  BY <1>2, <1>4, <1>5 DEF IsCat
<1>7. {marker \in Read(Cat(y, z), 2) : marker.value[2] # 0} = {[value |-> y, rest |-> z]}
  BY <1>2, <1>3
<1>8. ReadMarker(Cat(y, z)) = {[value |-> TRUE, rest |-> z]}
  <2> DEFINE S == {marker \in Read(Cat(y, z), 2) : marker.value[2] # 0}
  <2>1. ReadMarker(Cat(y, z)) = {[c EXCEPT !.value = TRUE] : c \in S}
    BY <1>6 DEF ReadMarker
  <2>2. PICK d : d = [value |-> y, rest |-> z]
    OBVIOUS
  <2>3. PICK c : c = [d EXCEPT !.value = TRUE]
    OBVIOUS
  <2>4. c = [value |-> TRUE, rest |-> z]
    BY <2>2, <2>3
  <2>5. S = {d}
    BY <1>7, <2>2
  <2>. HIDE DEF S
  <2>6. ReadMarker(Cat(y, z)) = {c}
    BY <2>1, <2>3, <2>5
  <2>. QED BY <2>4, <2>6
<1>. QED BY <1>2, <1>8

LEMMA NoMarkerAgain ==
  ASSUME NEW b \in Bytestring, b # << >>, b[1] # 0
  PROVE  ReadMarker(b) = {[value |-> FALSE, rest |-> b]}
BY DEF ReadMarker

------------------------------------------------------------------------------
(* Transactions.                                                           *)

TxOf(version, vin, vout, witnesses, locktime) ==
  [version |-> version, vin |-> WithWitnesses(vin, witnesses), vout |-> vout,
   locktime |-> locktime]

Whole(c) ==
  [c EXCEPT !.value = [version |-> @[1], vin |-> WithWitnesses(@[3], @[5]),
                       vout |-> @[4], locktime |-> @[6]]]

\* What one more part makes of what was read.
NextPart(S) == UNION {Also(c, ReadPart(c.value, c.rest)) : c \in S}

\* h[k] is what the first k parts are read as.
ReadsParts(b, h) ==
  /\ h[0] = {Start(b)}
  /\ h[1] = NextPart(h[0]) /\ h[2] = NextPart(h[1]) /\ h[3] = NextPart(h[2])
  /\ h[4] = NextPart(h[3]) /\ h[5] = NextPart(h[4]) /\ h[6] = NextPart(h[5])

LEMMA ParseSteps ==
  ASSUME NEW b
  PROVE  \E h : ReadsParts(b, h) /\ parse(b) = {Whole(c) : c \in h[6]}
<1> DEFINE Step(g, k) == IF k = 0 THEN {[value |-> << >>, rest |-> b]} ELSE NextPart(g[k - 1])
           h == CHOOSE g : g = [k \in 0..6 |-> Step(g, k)]
<1>1. parse(b) = {Whole(c) : c \in h[6]}
  <2>1. Len(Parts) = 6
    BY DEF Parts
  <2>. QED BY <2>1 DEF parse, ReadAll, Whole, NextPart
<1>2. \E g : g = [k \in 0..6 |-> Step(g, k)]
  <2> DEFINE S0 == {[value |-> << >>, rest |-> b]}
             S1 == NextPart(S0)
             S2 == NextPart(S1)
             S3 == NextPart(S2)
             S4 == NextPart(S3)
             S5 == NextPart(S4)
             S6 == NextPart(S5)
  <2>1. /\ S1 = NextPart(S0) /\ S2 = NextPart(S1) /\ S3 = NextPart(S2) /\ S4 = NextPart(S3)
        /\ S5 = NextPart(S4) /\ S6 = NextPart(S5) /\ S0 = {[value |-> << >>, rest |-> b]}
    OBVIOUS
  <2>. HIDE DEF S0, S1, S2, S3, S4, S5, S6
  <2> DEFINE f == [k \in 0..6 |-> IF k = 0 THEN S0 ELSE IF k = 1 THEN S1 ELSE IF k = 2 THEN S2
                                  ELSE IF k = 3 THEN S3 ELSE IF k = 4 THEN S4
                                  ELSE IF k = 5 THEN S5 ELSE S6]
  <2>2. /\ f[0] = S0 /\ f[1] = S1 /\ f[2] = S2 /\ f[3] = S3 /\ f[4] = S4 /\ f[5] = S5
        /\ f[6] = S6 /\ f = [k \in 0..6 |-> f[k]]
    OBVIOUS
  <2>. HIDE DEF f
  <2>3. ASSUME NEW k \in 0..6 PROVE f[k] = Step(f, k)
    <3>1. \/ k = 0
          \/ k = 1 /\ k - 1 = 0
          \/ k = 2 /\ k - 1 = 1
          \/ k = 3 /\ k - 1 = 2
          \/ k = 4 /\ k - 1 = 3
          \/ k = 5 /\ k - 1 = 4
          \/ k = 6 /\ k - 1 = 5
      OBVIOUS
    <3>. QED BY <2>1, <2>2, <3>1
  <2>. HIDE DEF Step
  <2>4. f = [k \in 0..6 |-> Step(f, k)]
    BY <2>2, <2>3
  <2>. QED BY <2>4
<1>3. h = [k \in 0..6 |-> Step(h, k)]
  <2>. HIDE DEF Step
  <2>. QED BY <1>2
<1>. HIDE DEF h
<1>4. \A k \in 0..6 : h[k] = Step(h, k)
  <2>. HIDE DEF Step
  <2>. QED BY <1>3
<1>5. ReadsParts(b, h)
  <2>1. /\ 0 \in 0..6 /\ 1 \in 0..6 /\ 2 \in 0..6 /\ 3 \in 0..6 /\ 4 \in 0..6 /\ 5 \in 0..6
        /\ 6 \in 0..6
        /\ 1 - 1 = 0 /\ 2 - 1 = 1 /\ 3 - 1 = 2 /\ 4 - 1 = 3 /\ 5 - 1 = 4 /\ 6 - 1 = 5
    OBVIOUS
  <2>. QED BY <1>4, <2>1 DEF ReadsParts, Start
<1>. QED BY <1>1, <1>5

LEMMA PartIs ==
  ASSUME NEW v, NEW b
  PROVE  /\ Len(v) = 0 => ReadPart(v, b) = ReadInt(b, INT)
         /\ Len(v) = 1 => ReadPart(v, b) = ReadMarker(b)
         /\ Len(v) = 2 => ReadPart(v, b) = ReadList("TxIn", b)
         /\ Len(v) = 3 => ReadPart(v, b) = ReadList("TxOut", b)
         /\ Len(v) = 4 => ReadPart(v, b) = ReadWitnesses(v[2], v[3], b)
         /\ Len(v) = 5 => ReadPart(v, b) = ReadInt(b, INT)
<1>1. /\ Parts[1] = "version" /\ Parts[2] = "segwit" /\ Parts[3] = "vin" /\ Parts[4] = "vout"
      /\ Parts[5] = "witnesses" /\ Parts[6] = "locktime"
  BY DEF Parts
<1>2. /\ 0 + 1 = 1 /\ 1 + 1 = 2 /\ 2 + 1 = 3 /\ 3 + 1 = 4 /\ 4 + 1 = 5 /\ 5 + 1 = 6
  OBVIOUS
<1>3. Len(v) = 0 => ReadPart(v, b) = ReadInt(b, INT)
  BY <1>1, <1>2 DEF ReadPart
<1>4. Len(v) = 1 => ReadPart(v, b) = ReadMarker(b)
  BY <1>1, <1>2 DEF ReadPart
<1>5. Len(v) = 2 => ReadPart(v, b) = ReadList("TxIn", b)
  BY <1>1, <1>2 DEF ReadPart
<1>6. Len(v) = 3 => ReadPart(v, b) = ReadList("TxOut", b)
  BY <1>1, <1>2 DEF ReadPart
<1>7. Len(v) = 4 => ReadPart(v, b) = ReadWitnesses(v[2], v[3], b)
  BY <1>1, <1>2 DEF ReadPart
<1>8. Len(v) = 5 => ReadPart(v, b) = ReadInt(b, INT)
  BY <1>1, <1>2 DEF ReadPart
<1>. QED BY <1>3, <1>4, <1>5, <1>6, <1>7, <1>8

LEMMA PartRead ==
  ASSUME NEW S, NEW c \in NextPart(S)
  PROVE  \E d \in S : \E e \in ReadPart(d.value, d.rest) : c = Extended(d, e)
BY DEF NextPart, Also, Extended

LEMMA PartAgain ==
  ASSUME NEW d, NEW e, ReadPart(d.value, d.rest) = {e}
  PROVE  NextPart({d}) = {Extended(d, e)}
BY DEF NextPart, Also, Extended

\* What has been read after so many parts.
After(v, r) == [value |-> v, rest |-> r]

LEMMA AfterStart ==
  ASSUME NEW b, NEW e
  PROVE  Extended(Start(b), e) = After(<<e.value>>, e.rest)
BY DEF Extended, After, Start

LEMMA AfterOne ==
  ASSUME NEW p, NEW r, NEW e
  PROVE  Extended(After(<<p>>, r), e)
           = After(<<p, e.value>>, e.rest)
BY DEF Extended, After

LEMMA AfterTwo ==
  ASSUME NEW p, NEW q, NEW r, NEW e
  PROVE  Extended(After(<<p, q>>, r), e)
           = After(<<p, q, e.value>>, e.rest)
BY DEF Extended, After

LEMMA AfterThree ==
  ASSUME NEW p, NEW q, NEW s, NEW r, NEW e
  PROVE  Extended(After(<<p, q, s>>, r), e)
           = After(<<p, q, s, e.value>>, e.rest)
BY DEF Extended, After

LEMMA AfterFour ==
  ASSUME NEW p, NEW q, NEW s, NEW t, NEW r, NEW e
  PROVE  Extended(After(<<p, q, s, t>>, r), e)
           = After(<<p, q, s, t, e.value>>, e.rest)
BY DEF Extended, After

LEMMA AfterFive ==
  ASSUME NEW p, NEW q, NEW s, NEW t, NEW u, NEW r, NEW e
  PROVE  Extended(After(<<p, q, s, t, u>>, r), e)
           = After(<<p, q, s, t, u, e.value>>, e.rest)
BY DEF Extended, After

Read6(b, e1, e2, e3, e4, e5, e6) ==
  /\ e1 \in ReadInt(b, INT)
  /\ e2 \in ReadMarker(e1.rest)
  /\ e3 \in ReadList("TxIn", e2.rest)
  /\ e4 \in ReadList("TxOut", e3.rest)
  /\ e5 \in ReadWitnesses(e2.value, e3.value, e4.rest)
  /\ e6 \in ReadInt(e5.rest, INT)

Only6(b, e1, e2, e3, e4, e5, e6) ==
  /\ ReadInt(b, INT) = {e1}
  /\ ReadMarker(e1.rest) = {e2}
  /\ ReadList("TxIn", e2.rest) = {e3}
  /\ ReadList("TxOut", e3.rest) = {e4}
  /\ ReadWitnesses(e2.value, e3.value, e4.rest) = {e5}
  /\ ReadInt(e5.rest, INT) = {e6}

Parsed(e1, e3, e4, e5, e6) ==
  After(TxOf(e1.value, e3.value, e4.value, e5.value, e6.value), e6.rest)

LEMMA WholeIs ==
  ASSUME NEW e1, NEW e2, NEW e3, NEW e4, NEW e5, NEW e6
  PROVE  Whole(After(<<e1.value, e2.value, e3.value, e4.value, e5.value, e6.value>>, e6.rest))
           = Parsed(e1, e3, e4, e5, e6)
BY DEF Whole, After, Parsed, TxOf

LEMMA ParseKept ==
  ASSUME NEW b, NEW c \in parse(b)
  PROVE  \E e1, e2, e3, e4, e5, e6 :
           Read6(b, e1, e2, e3, e4, e5, e6) /\ c = Parsed(e1, e3, e4, e5, e6)
<1>1. PICK h : ReadsParts(b, h) /\ parse(b) = {Whole(d) : d \in h[6]}
  BY ParseSteps
<1>2. PICK d6 \in h[6] : c = Whole(d6)
  BY <1>1
<1>3. PICK d5 \in h[5] : \E e6 \in ReadPart(d5.value, d5.rest) : d6 = Extended(d5, e6)
  BY <1>1, PartRead DEF ReadsParts
<1>4. PICK d4 \in h[4] : \E e5 \in ReadPart(d4.value, d4.rest) : d5 = Extended(d4, e5)
  BY <1>1, PartRead DEF ReadsParts
<1>5. PICK d3 \in h[3] : \E e4 \in ReadPart(d3.value, d3.rest) : d4 = Extended(d3, e4)
  BY <1>1, PartRead DEF ReadsParts
<1>6. PICK d2 \in h[2] : \E e3 \in ReadPart(d2.value, d2.rest) : d3 = Extended(d2, e3)
  BY <1>1, PartRead DEF ReadsParts
<1>7. PICK d1 \in h[1] : \E e2 \in ReadPart(d1.value, d1.rest) : d2 = Extended(d1, e2)
  BY <1>1, PartRead DEF ReadsParts
<1>8. PICK d0 \in h[0] : \E e1 \in ReadPart(d0.value, d0.rest) : d1 = Extended(d0, e1)
  BY <1>1, PartRead DEF ReadsParts
<1>9. PICK e1 \in ReadPart(d0.value, d0.rest), e2 \in ReadPart(d1.value, d1.rest),
           e3 \in ReadPart(d2.value, d2.rest), e4 \in ReadPart(d3.value, d3.rest),
           e5 \in ReadPart(d4.value, d4.rest), e6 \in ReadPart(d5.value, d5.rest) :
        /\ d1 = Extended(d0, e1) /\ d2 = Extended(d1, e2) /\ d3 = Extended(d2, e3)
        /\ d4 = Extended(d3, e4) /\ d5 = Extended(d4, e5) /\ d6 = Extended(d5, e6)
  BY <1>3, <1>4, <1>5, <1>6, <1>7, <1>8
<1>10. d0 = Start(b)
  BY <1>1 DEF ReadsParts
<1>11. /\ d1 = After(<<e1.value>>, e1.rest)
       /\ d2 = After(<<e1.value, e2.value>>, e2.rest)
       /\ d3 = After(<<e1.value, e2.value, e3.value>>, e3.rest)
       /\ d4 = After(<<e1.value, e2.value, e3.value, e4.value>>, e4.rest)
       /\ d5 = After(<<e1.value, e2.value, e3.value, e4.value, e5.value>>, e5.rest)
       /\ d6 = After(<<e1.value, e2.value, e3.value, e4.value, e5.value, e6.value>>, e6.rest)
  <2>1. d1 = After(<<e1.value>>, e1.rest)
    BY <1>9, <1>10, AfterStart
  <2>2. d2 = After(<<e1.value, e2.value>>, e2.rest)
    BY <1>9, <2>1, AfterOne
  <2>3. d3 = After(<<e1.value, e2.value, e3.value>>, e3.rest)
    BY <1>9, <2>2, AfterTwo
  <2>4. d4 = After(<<e1.value, e2.value, e3.value, e4.value>>, e4.rest)
    BY <1>9, <2>3, AfterThree
  <2>5. d5 = After(<<e1.value, e2.value, e3.value, e4.value, e5.value>>, e5.rest)
    BY <1>9, <2>4, AfterFour
  <2>6. d6 = After(<<e1.value, e2.value, e3.value, e4.value, e5.value, e6.value>>, e6.rest)
    BY <1>9, <2>5, AfterFive
  <2>. QED BY <2>1, <2>2, <2>3, <2>4, <2>5, <2>6
<1>12. Read6(b, e1, e2, e3, e4, e5, e6)
  <2>1. e1 \in ReadInt(b, INT)
    <3>1. d0.rest = b /\ Len(d0.value) = 0
      BY <1>10 DEF Start
    <3>. QED BY <3>1, PartIs
  <2>2. e2 \in ReadMarker(e1.rest)
    <3>1. d1.rest = e1.rest /\ Len(d1.value) = 1
      BY <1>11 DEF After
    <3>. QED BY <3>1, PartIs
  <2>3. e3 \in ReadList("TxIn", e2.rest)
    <3>1. d2.rest = e2.rest /\ Len(d2.value) = 2
      BY <1>11 DEF After
    <3>. QED BY <3>1, PartIs
  <2>4. e4 \in ReadList("TxOut", e3.rest)
    <3>1. d3.rest = e3.rest /\ Len(d3.value) = 3
      BY <1>11 DEF After
    <3>. QED BY <3>1, PartIs
  <2>5. e5 \in ReadWitnesses(e2.value, e3.value, e4.rest)
    <3>1. /\ d4.rest = e4.rest /\ Len(d4.value) = 4
          /\ d4.value[2] = e2.value /\ d4.value[3] = e3.value
      BY <1>11 DEF After
    <3>. QED BY <3>1, PartIs
  <2>6. e6 \in ReadInt(e5.rest, INT)
    <3>1. d5.rest = e5.rest /\ Len(d5.value) = 5
      BY <1>11 DEF After
    <3>. QED BY <3>1, PartIs
  <2>. QED BY <2>1, <2>2, <2>3, <2>4, <2>5, <2>6 DEF Read6
<1>13. c = Parsed(e1, e3, e4, e5, e6)
  BY <1>2, <1>11, WholeIs
<1>. QED BY <1>12, <1>13

LEMMA ParseAgain ==
  ASSUME NEW b, NEW e1, NEW e2, NEW e3, NEW e4, NEW e5, NEW e6,
         Only6(b, e1, e2, e3, e4, e5, e6)
  PROVE  parse(b) = {Parsed(e1, e3, e4, e5, e6)}
<1>1. PICK h : ReadsParts(b, h) /\ parse(b) = {Whole(d) : d \in h[6]}
  BY ParseSteps
<1> DEFINE d0 == Start(b)
           d1 == After(<<e1.value>>, e1.rest)
           d2 == After(<<e1.value, e2.value>>, e2.rest)
           d3 == After(<<e1.value, e2.value, e3.value>>, e3.rest)
           d4 == After(<<e1.value, e2.value, e3.value, e4.value>>, e4.rest)
           d5 == After(<<e1.value, e2.value, e3.value, e4.value, e5.value>>, e5.rest)
           d6 == After(<<e1.value, e2.value, e3.value, e4.value, e5.value, e6.value>>, e6.rest)
<1>2. /\ Extended(d0, e1) = d1 /\ Extended(d1, e2) = d2 /\ Extended(d2, e3) = d3
      /\ Extended(d3, e4) = d4 /\ Extended(d4, e5) = d5 /\ Extended(d5, e6) = d6
  <2>1. Extended(d0, e1) = d1
    BY AfterStart
  <2>2. Extended(d1, e2) = d2
    BY AfterOne
  <2>3. Extended(d2, e3) = d3
    BY AfterTwo
  <2>4. Extended(d3, e4) = d4
    BY AfterThree
  <2>5. Extended(d4, e5) = d5
    BY AfterFour
  <2>6. Extended(d5, e6) = d6
    BY AfterFive
  <2>. QED BY <2>1, <2>2, <2>3, <2>4, <2>5, <2>6
<1>3. /\ d0.rest = b /\ Len(d0.value) = 0
      /\ d1.rest = e1.rest /\ Len(d1.value) = 1
      /\ d2.rest = e2.rest /\ Len(d2.value) = 2
      /\ d3.rest = e3.rest /\ Len(d3.value) = 3
      /\ d4.rest = e4.rest /\ Len(d4.value) = 4
      /\ d4.value[2] = e2.value /\ d4.value[3] = e3.value
      /\ d5.rest = e5.rest /\ Len(d5.value) = 5
  BY DEF Start, After
<1>4. Whole(d6) = Parsed(e1, e3, e4, e5, e6)
  BY WholeIs
<1>5. h[0] = {d0}
  BY <1>1 DEF ReadsParts
<1>. HIDE DEF d0, d1, d2, d3, d4, d5, d6
<1>6. h[1] = {d1}
  <2>1. ReadPart(d0.value, d0.rest) = {e1}
    BY <1>3, PartIs DEF Only6
  <2>. QED BY <1>1, <1>2, <1>5, <2>1, PartAgain DEF ReadsParts
<1>7. h[2] = {d2}
  <2>1. ReadPart(d1.value, d1.rest) = {e2}
    BY <1>3, PartIs DEF Only6
  <2>. QED BY <1>1, <1>2, <1>6, <2>1, PartAgain DEF ReadsParts
<1>8. h[3] = {d3}
  <2>1. ReadPart(d2.value, d2.rest) = {e3}
    BY <1>3, PartIs DEF Only6
  <2>. QED BY <1>1, <1>2, <1>7, <2>1, PartAgain DEF ReadsParts
<1>9. h[4] = {d4}
  <2>1. ReadPart(d3.value, d3.rest) = {e4}
    BY <1>3, PartIs DEF Only6
  <2>. QED BY <1>1, <1>2, <1>8, <2>1, PartAgain DEF ReadsParts
<1>10. h[5] = {d5}
  <2>1. ReadPart(d4.value, d4.rest) = {e5}
    BY <1>3, PartIs DEF Only6
  <2>. QED BY <1>1, <1>2, <1>9, <2>1, PartAgain DEF ReadsParts
<1>11. h[6] = {d6}
  <2>1. ReadPart(d5.value, d5.rest) = {e6}
    BY <1>3, PartIs DEF Only6
  <2>. QED BY <1>1, <1>2, <1>10, <2>1, PartAgain DEF ReadsParts
<1>12. {Whole(d) : d \in h[6]} = {Whole(d6)}
  BY <1>11
<1>. QED BY <1>1, <1>4, <1>12

NoWitnesses(n) == [k \in 1..n |-> << >>]

\* The parts that make a transaction.
AreParts(version, vin, vout, witnesses, locktime) ==
  /\ version \in Numbers(INT) /\ locktime \in Numbers(INT)
  /\ vin \in Lists("TxIn") /\ vout \in Lists("TxOut")
  /\ witnesses \in Witnesses /\ Len(witnesses) = Len(vin)

LEMMA NoWitnessesAre ==
  ASSUME NEW n \in Nat
  PROVE  NoWitnesses(n) \in Witnesses /\ Len(NoWitnesses(n)) = n
<1>1. << >> \in Lists("item")
  <2>1. Power[LONG] \in Nat /\ Power[LONG] > 0
    BY MarkersAre, PowerPositive
  <2>2. 0 \in Sizes
    BY <2>1 DEF Sizes, Numbers
  <2>3. << >> \in Seq(ItemValues("item")) /\ Len(<< >>) = 0
    OBVIOUS
  <2>. QED BY <2>2, <2>3 DEF Lists
<1>2. NoWitnesses(n) \in [1..n -> Lists("item")]
  BY <1>1 DEF NoWitnesses
<1>. QED BY <1>2 DEF Witnesses

LEMMA StackIs ==
  ASSUME NEW s \in Lists("item")
  PROVE  StackBytes(s) = ListBytes("item")[s]
<1>1. s \in Seq(Vectors) /\ Len(s) \in Sizes
  BY DEF Lists, ItemValues
<1>2. PICK n \in Nat : n = Len(s) /\ DOMAIN s = 1..n
  BY <1>1
<1>3. [k \in DOMAIN s |-> VarBytes(s[k])] = [i \in 1..n |-> Repeat(n, ItemBytes("item"))[i][s[i]]]
  BY <1>1, <1>2 DEF Repeat, ItemBytes, VectorBytes
<1>4. PICK t \in Seq(Bytestring) : t = [k \in DOMAIN s |-> VarBytes(s[k])] /\ Len(t) = n
  <2>1. \A k \in 1..n : VarBytes(s[k]) \in Bytestring
    BY <1>1, <1>2, VarBytesIs
  <2>2. [k \in 1..n |-> VarBytes(s[k])] \in Seq(Bytestring)
        /\ Len([k \in 1..n |-> VarBytes(s[k])]) = n
    BY <2>1
  <2>. QED BY <1>2, <2>2
<1>5. FlattenSeq(t) = ManyBytes(ItemBytes("item"), s)
  BY <1>2, <1>3, <1>4 DEF ManyBytes, Pieces
<1>. QED BY <1>2, <1>4, <1>5 DEF StackBytes, List, ListBytes, Cat

\* The bytes of inputs do not depend on their witnesses.
WithWitness(t, w) == [t EXCEPT !.witness = w]

LEMMA InAs ==
  ASSUME NEW t \in TxIns, NEW w
  PROVE  /\ TxInBytes(WithWitness(t, w)) = TxInBytes(t)
         /\ WithWitness(t, w).witness = w
         /\ \A u : WithWitness(WithWitness(t, w), u) = WithWitness(t, u)
<1>1. PICK o, s, q : t = [prevout |-> o, script_sig |-> s, sequence |-> q, witness |-> << >>]
  BY DEF TxIns
<1>2. PICK u : u = WithWitness(t, w)
  OBVIOUS
<1>3. u = [prevout |-> o, script_sig |-> s, sequence |-> q, witness |-> w]
  BY <1>1, <1>2 DEF WithWitness
<1>4. TxInBytes(u) = TxInBytes(t)
  BY <1>1, <1>3 DEF TxInBytes
<1>5. \A x : WithWitness(u, x) = WithWitness(t, x)
  BY <1>1, <1>3 DEF WithWitness
<1>. QED BY <1>2, <1>3, <1>4, <1>5

\* A transaction of its parts, and its parts as bytes.
IsTx(tx, version, vin, vout, witnesses, locktime) ==
  /\ tx.version = version /\ tx.vout = vout /\ tx.locktime = locktime
  /\ DOMAIN tx.vin = 1..Len(vin)
  /\ \A k \in 1..Len(vin) : tx.vin[k] = WithWitness(vin[k], witnesses[k])

LEMMA TxIs ==
  ASSUME NEW version, NEW vin, NEW vout, NEW witnesses, NEW locktime,
         AreParts(version, vin, vout, witnesses, locktime),
         NEW tx, tx = TxOf(version, vin, vout, witnesses, locktime)
  PROVE  IsTx(tx, version, vin, vout, witnesses, locktime)
<1>1. vin \in Seq(TxIns)
  BY DEF AreParts, Lists, ItemValues
<1>2. DOMAIN vin = 1..Len(vin)
  BY <1>1
<1>3. tx.vin = [k \in 1..Len(vin) |-> WithWitness(vin[k], witnesses[k])]
  BY <1>2 DEF TxOf, WithWitnesses, WithWitness
<1>. QED BY <1>3 DEF IsTx, TxOf

LEMMA InsWritten ==
  ASSUME NEW version, NEW vin, NEW vout, NEW witnesses, NEW locktime,
         AreParts(version, vin, vout, witnesses, locktime),
         NEW tx, tx = TxOf(version, vin, vout, witnesses, locktime)
  PROVE  /\ List([k \in DOMAIN tx.vin |-> TxInBytes(tx.vin[k])]) = ListBytes("TxIn")[vin]
         /\ List([k \in DOMAIN tx.vout |-> TxOutBytes(tx.vout[k])]) = ListBytes("TxOut")[vout]
         /\ FlattenSeq([k \in DOMAIN tx.vin |-> StackBytes(tx.vin[k].witness)])
              = WitnessesBytes(witnesses)
<1>1. IsTx(tx, version, vin, vout, witnesses, locktime)
  BY TxIs
<1>2. /\ vin \in Seq(TxIns) /\ vout \in Seq(TxOuts) /\ witnesses \in Seq(Lists("item"))
      /\ Len(witnesses) = Len(vin) /\ vin \in Lists("TxIn") /\ vout \in Lists("TxOut")
  BY DEF AreParts, Lists, ItemValues, Witnesses
<1>3. PICK n \in Nat, m \in Nat :
        /\ n = Len(vin) /\ m = Len(vout) /\ DOMAIN tx.vin = 1..n /\ DOMAIN vout = 1..m
        /\ n = Len(witnesses)
  BY <1>1, <1>2 DEF IsTx
<1>4. /\ \A k \in 1..n : vin[k] \in TxIns /\ witnesses[k] \in Lists("item")
      /\ \A k \in 1..m : vout[k] \in TxOuts
  BY <1>2, <1>3
<1>5. /\ IsReader(TxIns, ReadsTxIn, InBytes) /\ IsReader(TxOuts, ReadsTxOut, OutBytes)
      /\ IsReader(Lists("item"), ReadsList("item"), ListBytes("item"))
  BY InReader, OutReader, ListReader DEF ItemKinds
<1>6. /\ InBytes \in [TxIns -> Bytestring] /\ OutBytes \in [TxOuts -> Bytestring]
      /\ ListBytes("item") \in [Lists("item") -> Bytestring]
  BY <1>5 DEF IsReader
<1>7. /\ \A k \in 1..n : TxInBytes(tx.vin[k]) = InBytes[vin[k]]
      /\ \A k \in 1..m : TxOutBytes(vout[k]) = OutBytes[vout[k]]
  <2>1. ASSUME NEW k \in 1..n PROVE TxInBytes(tx.vin[k]) = InBytes[vin[k]]
    <3>1. tx.vin[k] = WithWitness(vin[k], witnesses[k])
      BY <1>1, <1>3 DEF IsTx
    <3>2. TxInBytes(tx.vin[k]) = TxInBytes(vin[k])
      BY <1>4, <3>1, InAs
    <3>. QED BY <1>4, <3>2 DEF InBytes
  <2>. QED BY <1>4, <2>1 DEF OutBytes
<1>8. List([k \in DOMAIN tx.vin |-> TxInBytes(tx.vin[k])]) = ListBytes("TxIn")[vin]
  <2>1. PICK t \in [1..n -> Bytestring] : t = [k \in DOMAIN tx.vin |-> TxInBytes(tx.vin[k])]
    <3>1. \A k \in 1..n : TxInBytes(tx.vin[k]) \in Bytestring
      BY <1>4, <1>6, <1>7
    <3>. QED BY <1>3, <3>1
  <2>2. t = [i \in 1..n |-> Repeat(n, InBytes)[i][vin[i]]]
    BY <1>3, <1>7, <2>1 DEF Repeat
  <2>3. FlattenSeq(t) = ManyBytes(ItemBytes("TxIn"), vin)
    BY <1>3, <2>2 DEF ManyBytes, Pieces, ItemBytes
  <2>4. Len(t) = n
    BY <1>3
  <2>. QED BY <1>2, <1>3, <2>1, <2>3, <2>4 DEF List, ListBytes, Cat
<1>9. List([k \in DOMAIN tx.vout |-> TxOutBytes(tx.vout[k])]) = ListBytes("TxOut")[vout]
  <2>1. PICK t \in [1..m -> Bytestring] : t = [k \in DOMAIN vout |-> TxOutBytes(vout[k])]
    <3>1. \A k \in 1..m : TxOutBytes(vout[k]) \in Bytestring
      BY <1>4, <1>6, <1>7
    <3>. QED BY <1>3, <3>1
  <2>2. t = [i \in 1..m |-> Repeat(m, OutBytes)[i][vout[i]]]
    BY <1>3, <1>7, <2>1 DEF Repeat
  <2>3. FlattenSeq(t) = ManyBytes(ItemBytes("TxOut"), vout)
    BY <1>3, <2>2 DEF ManyBytes, Pieces, ItemBytes
  <2>4. tx.vout = vout
    BY <1>1 DEF IsTx
  <2>5. Len(t) = m
    BY <1>3
  <2>. QED BY <1>2, <1>3, <2>1, <2>3, <2>4, <2>5 DEF List, ListBytes, Cat
<1>10. FlattenSeq([k \in DOMAIN tx.vin |-> StackBytes(tx.vin[k].witness)])
         = WitnessesBytes(witnesses)
  <2>1. ASSUME NEW k \in 1..n
        PROVE  StackBytes(tx.vin[k].witness) = ListBytes("item")[witnesses[k]]
    <3>1. tx.vin[k] = WithWitness(vin[k], witnesses[k])
      BY <1>1, <1>3 DEF IsTx
    <3>2. tx.vin[k].witness = witnesses[k]
      BY <1>4, <3>1, InAs
    <3>. QED BY <1>4, <3>2, StackIs
  <2>2. [k \in DOMAIN tx.vin |-> StackBytes(tx.vin[k].witness)]
          = [i \in 1..n |-> Repeat(n, ListBytes("item"))[i][witnesses[i]]]
    BY <1>3, <2>1 DEF Repeat
  <2>. QED BY <1>3, <2>2 DEF WitnessesBytes, ManyBytes, Pieces
<1>. QED BY <1>8, <1>9, <1>10

\* Whether a transaction has a witness, and what it is without.
LEMMA TxWitnesses ==
  ASSUME NEW version, NEW vin, NEW vout, NEW witnesses, NEW locktime,
         AreParts(version, vin, vout, witnesses, locktime),
         NEW tx, tx = TxOf(version, vin, vout, witnesses, locktime)
  PROVE  /\ has_witness(tx) \in BOOLEAN
         /\ ~has_witness(tx) => witnesses = NoWitnesses(Len(vin))
         /\ has_witness(tx) => witnesses # NoWitnesses(Len(vin))
         /\ Stripped(tx) = TxOf(version, vin, vout, NoWitnesses(Len(vin)), locktime)
<1>1. IsTx(tx, version, vin, vout, witnesses, locktime)
  BY TxIs
<1>2. /\ vin \in Seq(TxIns) /\ witnesses \in Seq(Lists("item")) /\ Len(witnesses) = Len(vin)
  BY DEF AreParts, Lists, ItemValues, Witnesses
<1>3. PICK n \in Nat : n = Len(vin) /\ DOMAIN tx.vin = 1..n /\ n = Len(witnesses)
                       /\ DOMAIN vin = 1..n
  BY <1>1, <1>2 DEF IsTx
<1>4. \A k \in 1..n : /\ vin[k] \in TxIns
                      /\ tx.vin[k] = WithWitness(vin[k], witnesses[k])
  BY <1>1, <1>2, <1>3 DEF IsTx
<1>5. \A k \in 1..n : tx.vin[k].witness = witnesses[k]
  BY <1>4, InAs
<1>6. has_witness(tx) <=> \E k \in 1..n : witnesses[k] # << >>
  BY <1>3, <1>5 DEF has_witness
<1>7. ~has_witness(tx) => witnesses = NoWitnesses(n)
  <2> SUFFICES ASSUME \A k \in 1..n : witnesses[k] = << >> PROVE witnesses = NoWitnesses(n)
    BY <1>6
  <2>1. witnesses = [k \in 1..n |-> witnesses[k]]
    BY <1>2, <1>3
  <2>. QED BY <2>1 DEF NoWitnesses
<1>8. has_witness(tx) => witnesses # NoWitnesses(n)
  BY <1>6 DEF NoWitnesses
<1>9. Stripped(tx) = TxOf(version, vin, vout, NoWitnesses(n), locktime)
  <2>1. tx = [version |-> version, vin |-> tx.vin, vout |-> vout, locktime |-> locktime]
    BY DEF TxOf
  <2>2. Stripped(tx)
          = [version |-> version,
             vin |-> [k \in DOMAIN tx.vin |-> [tx.vin[k] EXCEPT !.witness = << >>]],
             vout |-> vout, locktime |-> locktime]
    <3>1. PICK i : i = tx.vin
      OBVIOUS
    <3>2. tx = [version |-> version, vin |-> i, vout |-> vout, locktime |-> locktime]
      BY <2>1, <3>1
    <3>. QED BY <3>1, <3>2 DEF Stripped
  <2>3. [k \in DOMAIN tx.vin |-> [tx.vin[k] EXCEPT !.witness = << >>]]
          = WithWitnesses(vin, NoWitnesses(n))
    <3>1. ASSUME NEW k \in 1..n
          PROVE  WithWitness(tx.vin[k], << >>) = WithWitness(vin[k], NoWitnesses(n)[k])
      <4>1. NoWitnesses(n)[k] = << >>
        BY DEF NoWitnesses
      <4>. QED BY <1>4, <4>1, InAs
    <3>. QED BY <1>3, <3>1 DEF WithWitnesses, WithWitness
  <2>. QED BY <2>2, <2>3 DEF TxOf
<1>10. has_witness(tx) \in BOOLEAN
  BY DEF has_witness
<1>. QED BY <1>3, <1>7, <1>8, <1>9, <1>10

\* What follows the marker, and a whole transaction, as bytes.
WitnessPart(included, witnesses) == IF included THEN WitnessesBytes(witnesses) ELSE << >>
MarkerPart(included) == IF included THEN <<0, 1>> ELSE << >>

Ending(w, locktime) == Cat(w, to_bytes(locktime, INT))
Outs(vout, w, locktime) == Cat(ListBytes("TxOut")[vout], Ending(w, locktime))
Body(vin, vout, w, locktime) == Cat(ListBytes("TxIn")[vin], Outs(vout, w, locktime))
Marked6(m, vin, vout, w, locktime) == Cat(m, Body(vin, vout, w, locktime))
TxBytes(version, m, vin, vout, w, locktime) ==
  Cat(to_bytes(version, INT), Marked6(m, vin, vout, w, locktime))

LEMMA PartsType ==
  ASSUME NEW version, NEW vin, NEW vout, NEW witnesses, NEW locktime,
         AreParts(version, vin, vout, witnesses, locktime), NEW included \in BOOLEAN
  PROVE  /\ to_bytes(version, INT) \in Bytestring /\ Len(to_bytes(version, INT)) = INT
         /\ MarkerPart(included) \in Bytestring
         /\ ListBytes("TxIn")[vin] \in Bytestring /\ ListBytes("TxOut")[vout] \in Bytestring
         /\ WitnessPart(included, witnesses) \in Bytestring
         /\ to_bytes(locktime, INT) \in Bytestring /\ Len(to_bytes(locktime, INT)) = INT
<1>1. /\ to_bytes(version, INT) \in Bytestring /\ Len(to_bytes(version, INT)) = INT
      /\ to_bytes(locktime, INT) \in Bytestring /\ Len(to_bytes(locktime, INT)) = INT
  BY MarkersAre, ToBytesType DEF AreParts, Numbers, Bytestring
<1>2. MarkerPart(included) \in Bytestring
  BY NoBytes, MarkerAgain DEF MarkerPart
<1>3. ListBytes("TxIn")[vin] \in Bytestring
  BY ListReader DEF AreParts, ItemKinds, IsReader
<1>4. ListBytes("TxOut")[vout] \in Bytestring
  BY ListReader DEF AreParts, ItemKinds, IsReader
<1>5. WitnessPart(included, witnesses) \in Bytestring
  BY NoBytes, WitnessesAgain DEF WitnessPart, AreParts
<1>. QED BY <1>1, <1>2, <1>3, <1>4, <1>5

LEMMA CatSix ==
  ASSUME NEW a \in Bytestring, NEW b \in Bytestring, NEW c \in Bytestring,
         NEW d \in Bytestring, NEW e \in Bytestring, NEW f \in Bytestring
  PROVE  Cat(Cat(Cat(Cat(Cat(a, b), c), d), e), f)
           = Cat(a, Cat(b, Cat(c, Cat(d, Cat(e, f)))))
<1>1. PICK p \in Bytestring, q \in Bytestring, r \in Bytestring :
        p = Cat(a, b) /\ q = Cat(p, c) /\ r = Cat(q, d)
  BY CatType
<1>2. PICK s \in Bytestring, t \in Bytestring, u \in Bytestring :
        s = Cat(e, f) /\ t = Cat(d, s) /\ u = Cat(c, t)
  BY CatType
<1>3. Cat(Cat(r, e), f) = Cat(r, s)
  BY <1>2, CatThree
<1>4. Cat(r, s) = Cat(q, t)
  BY <1>1, <1>2, CatThree
<1>5. Cat(q, t) = Cat(p, u)
  BY <1>1, <1>2, CatThree
<1>6. Cat(p, u) = Cat(a, Cat(b, u))
  BY <1>1, <1>2, CatThree
<1>. QED BY <1>1, <1>2, <1>3, <1>4, <1>5, <1>6

LEMMA BytesOfTx ==
  ASSUME NEW version, NEW vin, NEW vout, NEW witnesses, NEW locktime,
         AreParts(version, vin, vout, witnesses, locktime), NEW included \in BOOLEAN,
         NEW tx, tx = TxOf(version, vin, vout, witnesses, locktime)
  PROVE  serializeAs(tx, included)
           = TxBytes(version, MarkerPart(included), vin, vout,
                     WitnessPart(included, witnesses), locktime)
<1>1. PICK a \in Bytestring, b \in Bytestring, c \in Bytestring,
           d \in Bytestring, e \in Bytestring, f \in Bytestring :
        /\ a = to_bytes(version, INT) /\ b = MarkerPart(included)
        /\ c = ListBytes("TxIn")[vin] /\ d = ListBytes("TxOut")[vout]
        /\ e = WitnessPart(included, witnesses) /\ f = to_bytes(locktime, INT)
  BY PartsType
<1>2. /\ List([k \in DOMAIN tx.vin |-> TxInBytes(tx.vin[k])]) = c
      /\ List([k \in DOMAIN tx.vout |-> TxOutBytes(tx.vout[k])]) = d
      /\ FlattenSeq([k \in DOMAIN tx.vin |-> StackBytes(tx.vin[k].witness)])
           = WitnessesBytes(witnesses)
  BY <1>1, InsWritten
<1>3. tx.version = version /\ tx.locktime = locktime
  BY DEF TxOf
<1>4. serializeAs(tx, included) = Cat(Cat(Cat(Cat(Cat(a, b), c), d), e), f)
  <2>1. b = (IF included THEN <<0, 1>> ELSE << >>)
    BY <1>1 DEF MarkerPart
  <2>2. e = (IF included
               THEN FlattenSeq([k \in DOMAIN tx.vin |-> StackBytes(tx.vin[k].witness)])
             ELSE << >>)
    BY <1>1, <1>2 DEF WitnessPart
  <2>3. a = to_bytes(tx.version, INT) /\ f = to_bytes(tx.locktime, INT)
    BY <1>1, <1>3
  <2>4. serializeAs(tx, included) = a \o b \o c \o d \o e \o f
    BY <1>2, <2>1, <2>2, <2>3 DEF serializeAs
  <2>. QED BY <2>4 DEF Cat
<1>5. Cat(a, Cat(b, Cat(c, Cat(d, Cat(e, f)))))
        = TxBytes(version, MarkerPart(included), vin, vout,
                  WitnessPart(included, witnesses), locktime)
  BY <1>1 DEF TxBytes, Marked6, Body, Outs, Ending
<1>. QED BY <1>4, <1>5, CatSix

\* The bytes of a transaction with inputs are read as that transaction, without
\* its witnesses when they were left out.
LEMMA TxAgain ==
  ASSUME NEW version, NEW vin, NEW vout, NEW witnesses, NEW locktime,
         AreParts(version, vin, vout, witnesses, locktime), NEW included \in BOOLEAN,
         vin # << >>,
         NEW tx, tx = TxOf(version, vin, vout, witnesses, locktime),
         NEW read, read = IF included THEN witnesses ELSE NoWitnesses(Len(vin))
  PROVE  parse(serializeAs(tx, included))
           = {[value |-> TxOf(version, vin, vout, read, locktime), rest |-> << >>]}
<1>1. PICK a \in Bytestring, b \in Bytestring, c \in Bytestring,
           d \in Bytestring, e \in Bytestring, f \in Bytestring :
        /\ a = to_bytes(version, INT) /\ b = MarkerPart(included)
        /\ c = ListBytes("TxIn")[vin] /\ d = ListBytes("TxOut")[vout]
        /\ e = WitnessPart(included, witnesses) /\ f = to_bytes(locktime, INT)
  BY PartsType
<1>2. PICK r5 \in Bytestring, r4 \in Bytestring, r3 \in Bytestring,
           r2 \in Bytestring, r1 \in Bytestring :
        r5 = f /\ r4 = Cat(e, r5) /\ r3 = Cat(d, r4) /\ r2 = Cat(c, r3) /\ r1 = Cat(b, r2)
  BY CatType
<1>3. serializeAs(tx, included) = Cat(a, r1)
  BY <1>1, <1>2, BytesOfTx DEF TxBytes, Marked6, Body, Outs, Ending
<1>4. /\ version \in Numbers(INT) /\ locktime \in Numbers(INT)
      /\ vin \in Lists("TxIn") /\ vout \in Lists("TxOut")
      /\ witnesses \in Witnesses /\ Len(witnesses) = Len(vin) /\ INT \in Nat
  BY MarkersAre DEF AreParts
<1>5. ReadInt(Cat(a, r1), INT) = {After(version, r1)}
  BY <1>1, <1>4, ReadIntAgain DEF After
<1>6. ReadMarker(r1) = {After(included, r2)}
  <2>1. CASE included
    <3>1. b = <<0, 1>> /\ included = TRUE
      BY <1>1, <2>1 DEF MarkerPart
    <3>. QED BY <1>2, <3>1, MarkerAgain DEF After
  <2>2. CASE ~included
    <3>1. b = << >> /\ included = FALSE
      BY <1>1, <2>2 DEF MarkerPart
    <3>2. r1 = r2
      BY <1>2, <3>1, CatEmpty
    <3>3. r2 # << >> /\ r2[1] # 0
      <4>1. "TxIn" \in ItemKinds
        BY DEF ItemKinds
      <4>. QED BY <1>1, <1>2, <1>4, <4>1, ListBegins
    <3>. QED BY <3>1, <3>2, <3>3, NoMarkerAgain DEF After
  <2>. QED BY <2>1, <2>2
<1>7. ReadList("TxIn", r2) = {After(vin, r3)}
  <2>1. ReadsList("TxIn")[Cat(ListBytes("TxIn")[vin], r3)] = {[value |-> vin, rest |-> r3]}
    BY <1>4, ListReader DEF ItemKinds, IsReader, ReadsBack
  <2>. QED BY <1>1, <1>2, <2>1 DEF ReadsList, After
<1>8. ReadList("TxOut", r3) = {After(vout, r4)}
  <2>1. ReadsList("TxOut")[Cat(ListBytes("TxOut")[vout], r4)] = {[value |-> vout, rest |-> r4]}
    BY <1>4, ListReader DEF ItemKinds, IsReader, ReadsBack
  <2>. QED BY <1>1, <1>2, <2>1 DEF ReadsList, After
<1>9. ReadWitnesses(included, vin, r4) = {After(read, r5)}
  <2>1. CASE included
    <3>1. e = WitnessesBytes(witnesses) /\ included = TRUE /\ read = witnesses
      BY <1>1, <2>1 DEF WitnessPart
    <3>2. ReadWitnesses(TRUE, vin, Cat(WitnessesBytes(witnesses), r5))
            = {[value |-> witnesses, rest |-> r5]}
      BY <1>4, WitnessesAgain
    <3>3. r4 = Cat(WitnessesBytes(witnesses), r5)
      BY <1>2, <3>1
    <3>. QED BY <3>1, <3>2, <3>3 DEF After
  <2>2. CASE ~included
    <3>1. e = << >> /\ read = NoWitnesses(Len(vin)) /\ r4 = r5
      BY <1>1, <1>2, <2>2, CatEmpty DEF WitnessPart
    <3>2. DOMAIN vin = 1..Len(vin)
      BY <1>4 DEF Lists
    <3>3. [k \in DOMAIN vin |-> << >>] = read
      BY <3>1, <3>2 DEF NoWitnesses
    <3>. QED BY <2>2, <3>1, <3>3 DEF ReadWitnesses, After
  <2>. QED BY <2>1, <2>2
<1>10. ReadInt(r5, INT) = {After(locktime, << >>)}
  <2>1. ReadInt(Cat(to_bytes(locktime, INT), << >>), INT) = {[value |-> locktime, rest |-> << >>]}
    BY <1>4, NoBytes, ReadIntAgain
  <2>2. Cat(f, << >>) = f
    BY CatEmpty
  <2>. QED BY <1>1, <1>2, <2>1, <2>2 DEF After
<1> DEFINE e1 == After(version, r1)
           e2 == After(included, r2)
           e3 == After(vin, r3)
           e4 == After(vout, r4)
           e5 == After(read, r5)
           e6 == After(locktime, << >>)
<1>11. /\ e1.rest = r1 /\ e2.rest = r2 /\ e3.rest = r3 /\ e4.rest = r4 /\ e5.rest = r5
       /\ e2.value = included /\ e3.value = vin /\ e1.value = version /\ e4.value = vout
       /\ e5.value = read /\ e6.value = locktime /\ e6.rest = << >>
  BY DEF After
<1>12. Parsed(e1, e3, e4, e5, e6)
         = [value |-> TxOf(version, vin, vout, read, locktime), rest |-> << >>]
  BY <1>11 DEF Parsed, After
<1>. HIDE DEF e1, e2, e3, e4, e5, e6
<1>13. Only6(Cat(a, r1), e1, e2, e3, e4, e5, e6)
  <2>1. ReadInt(Cat(a, r1), INT) = {e1}
    BY <1>5 DEF e1
  <2>2. ReadMarker(e1.rest) = {e2}
    BY <1>6, <1>11 DEF e2
  <2>3. ReadList("TxIn", e2.rest) = {e3}
    BY <1>7, <1>11 DEF e3
  <2>4. ReadList("TxOut", e3.rest) = {e4}
    BY <1>8, <1>11 DEF e4
  <2>5. ReadWitnesses(e2.value, e3.value, e4.rest) = {e5}
    BY <1>9, <1>11 DEF e5
  <2>6. ReadInt(e5.rest, INT) = {e6}
    BY <1>10, <1>11 DEF e6
  <2>. QED BY <2>1, <2>2, <2>3, <2>4, <2>5, <2>6 DEF Only6
<1>14. parse(Cat(a, r1)) = {Parsed(e1, e3, e4, e5, e6)}
  BY <1>13, ParseAgain
<1>. QED BY <1>3, <1>12, <1>14

\* The bytes b are a version, perhaps a marker with its flag, and then what the
\* parts are written as, if not at greater length; z is left.
Arrived(b, z, version, vin, vout, witnesses, locktime) ==
  \E rest \in Bytestring, body \in Bytestring :
    /\ b = Cat(to_bytes(version, INT), rest)
    /\ Kept(body, z, Body(vin, vout, << >>, locktime))
    /\ \/ rest = body /\ witnesses = NoWitnesses(Len(vin))
       \/ \E flag \in Byte :
            /\ rest = Cat(<<0, flag>>, body)
            /\ Kept(body, z, Body(vin, vout, WitnessesBytes(witnesses), locktime))

LEMMA BodyKept ==
  ASSUME NEW r2 \in Bytestring, NEW r3 \in Bytestring, NEW r4 \in Bytestring,
         NEW r5 \in Bytestring, NEW z \in Bytestring,
         NEW vin \in Lists("TxIn"), NEW vout \in Lists("TxOut"), NEW w \in Bytestring,
         NEW locktime \in Numbers(INT),
         Kept(r2, r3, ListBytes("TxIn")[vin]), Kept(r3, r4, ListBytes("TxOut")[vout]),
         Kept(r4, r5, w), Kept(r5, z, to_bytes(locktime, INT))
  PROVE  Kept(r2, z, Body(vin, vout, w, locktime))
<1>1. PICK c \in Bytestring, d \in Bytestring, f \in Bytestring :
        c = ListBytes("TxIn")[vin] /\ d = ListBytes("TxOut")[vout] /\ f = to_bytes(locktime, INT)
  <2>1. ListBytes("TxIn")[vin] \in Bytestring
    BY ListReader DEF ItemKinds, IsReader
  <2>2. ListBytes("TxOut")[vout] \in Bytestring
    BY ListReader DEF ItemKinds, IsReader
  <2>3. to_bytes(locktime, INT) \in Bytestring
    BY MarkersAre, ToBytesType DEF Numbers, Bytestring
  <2>. QED BY <2>1, <2>2, <2>3
<1>2. PICK u \in Bytestring, v \in Bytestring : u = Cat(w, f) /\ v = Cat(d, u)
  BY CatType
<1>3. Kept(r4, z, u)
  BY <1>1, <1>2, KeptTwice
<1>4. Kept(r3, z, v)
  BY <1>1, <1>2, <1>3, KeptTwice
<1>5. Kept(r2, z, Cat(c, v))
  BY <1>1, <1>4, KeptTwice
<1>. QED BY <1>1, <1>2, <1>5 DEF Body, Outs, Ending

LEMMA KeptLess ==
  ASSUME NEW b \in Bytestring, NEW z, NEW w, Kept(b, z, w)
  PROVE  Kept(b, z, << >>)
<1>1. PICK x \in Bytestring : b = Cat(x, z)
  BY DEF Kept
<1>2. Len(x) \in Nat /\ Len(<< >>) = 0
  BY DEF Bytestring
<1>3. Len(x) = 0 => x = << >>
  BY DEF Bytestring
<1>. QED BY <1>1, <1>2, <1>3 DEF Kept

LEMMA ListKept ==
  ASSUME NEW kind \in ItemKinds, NEW b \in Bytestring, NEW c \in ReadList(kind, b)
  PROVE  /\ c.value \in Lists(kind) /\ c.rest \in Bytestring
         /\ Kept(b, c.rest, ListBytes(kind)[c.value])
<1>1. IsReader(Lists(kind), ReadsList(kind), ListBytes(kind))
  BY ListReader
<1>2. c \in ReadsList(kind)[b]
  BY DEF ReadsList
<1>3. c \in Outcome(Lists(kind)) /\ Kept(b, c.rest, ListBytes(kind)[c.value])
  BY <1>1, <1>2 DEF IsReader, WritesBack
<1>. QED BY <1>3, OutcomeIs

LEMMA NumberKept ==
  ASSUME NEW b \in Bytestring, NEW c \in ReadInt(b, INT)
  PROVE  /\ c.value \in Numbers(INT) /\ c.rest \in Bytestring
         /\ b = Cat(to_bytes(c.value, INT), c.rest)
         /\ Kept(b, c.rest, to_bytes(c.value, INT))
<1>1. /\ c \in Outcome(Numbers(INT)) /\ to_bytes(c.value, INT) \in Bytestring
      /\ b = Cat(to_bytes(c.value, INT), c.rest)
  BY MarkersAre, ReadIntIs
<1>2. PICK x \in Bytestring : x = to_bytes(c.value, INT) /\ Len(x) <= Len(x)
  <2>1. PICK x \in Bytestring : x = to_bytes(c.value, INT)
    BY <1>1
  <2>2. Len(x) \in Nat
    BY DEF Bytestring
  <2>. QED BY <2>1, <2>2
<1>3. Kept(b, c.rest, x)
  BY <1>1, <1>2 DEF Kept
<1>. QED BY <1>1, <1>2, <1>3, OutcomeIs

LEMMA TxArrives ==
  ASSUME NEW b \in Bytestring, NEW c \in parse(b)
  PROVE  \E version, vin, vout, witnesses, locktime, z :
           /\ AreParts(version, vin, vout, witnesses, locktime) /\ z \in Bytestring
           /\ c = After(TxOf(version, vin, vout, witnesses, locktime), z)
           /\ Arrived(b, z, version, vin, vout, witnesses, locktime)
<1>1. PICK e1, e2, e3, e4, e5, e6 :
        Read6(b, e1, e2, e3, e4, e5, e6) /\ c = Parsed(e1, e3, e4, e5, e6)
  BY ParseKept
<1>2. /\ e1.value \in Numbers(INT) /\ e1.rest \in Bytestring
      /\ b = Cat(to_bytes(e1.value, INT), e1.rest)
  BY <1>1, NumberKept DEF Read6
<1>3. PICK version \in Numbers(INT), r1 \in Bytestring :
        version = e1.value /\ r1 = e1.rest /\ b = Cat(to_bytes(version, INT), r1)
  BY <1>2
<1>4. /\ e2.rest \in Bytestring
      /\ \/ e2 = [value |-> FALSE, rest |-> r1]
         \/ \E x \in Byte : /\ e2 = [value |-> TRUE, rest |-> e2.rest]
                            /\ x # 0 /\ r1 = Cat(<<0, x>>, e2.rest)
  BY <1>1, <1>3, MarkerKept DEF Read6
<1>5. PICK r2 \in Bytestring : r2 = e2.rest
  BY <1>4
<1>6. /\ e3.value \in Lists("TxIn") /\ e3.rest \in Bytestring
      /\ Kept(r2, e3.rest, ListBytes("TxIn")[e3.value])
  BY <1>1, <1>5, ListKept DEF Read6, ItemKinds
<1>7. PICK vin \in Lists("TxIn"), r3 \in Bytestring :
        vin = e3.value /\ r3 = e3.rest /\ Kept(r2, r3, ListBytes("TxIn")[vin])
  BY <1>6
<1>8. /\ e4.value \in Lists("TxOut") /\ e4.rest \in Bytestring
      /\ Kept(r3, e4.rest, ListBytes("TxOut")[e4.value])
  BY <1>1, <1>7, ListKept DEF Read6, ItemKinds
<1>9. PICK vout \in Lists("TxOut"), r4 \in Bytestring :
        vout = e4.value /\ r4 = e4.rest /\ Kept(r3, r4, ListBytes("TxOut")[vout])
  BY <1>8
<1>10. PICK n \in Nat : n = Len(vin) /\ DOMAIN vin = 1..n
  BY DEF Lists
<1>11. e5 \in ReadWitnesses(e2.value, vin, r4)
  BY <1>1, <1>7, <1>9 DEF Read6
<1>12. /\ e5.value \in Witnesses /\ Len(e5.value) = n /\ e5.rest \in Bytestring
       /\ Kept(r4, e5.rest, << >>)
       /\ \/ r1 = r2 /\ e5.value = NoWitnesses(n)
          \/ \E x \in Byte :
               r1 = Cat(<<0, x>>, r2) /\ Kept(r4, e5.rest, WitnessesBytes(e5.value))
  <2>1. CASE e2 = [value |-> FALSE, rest |-> r1]
    <3>1. e2.value = FALSE /\ r2 = r1
      BY <1>5, <2>1
    <3>2. e5 = [value |-> NoWitnesses(n), rest |-> r4]
      BY <1>10, <1>11, <3>1 DEF ReadWitnesses, NoWitnesses
    <3>3. e5.value = NoWitnesses(n) /\ e5.rest = r4
      BY <3>2
    <3>. QED BY <1>9, <3>1, <3>3, NoWitnessesAre, KeptNothing
  <2>2. ASSUME NEW x \in Byte, e2 = [value |-> TRUE, rest |-> e2.rest],
               r1 = Cat(<<0, x>>, e2.rest)
        PROVE  /\ e5.value \in Witnesses /\ Len(e5.value) = n /\ e5.rest \in Bytestring
               /\ Kept(r4, e5.rest, << >>)
               /\ r1 = Cat(<<0, x>>, r2) /\ Kept(r4, e5.rest, WitnessesBytes(e5.value))
    <3>1. e2.value = TRUE
      BY <2>2
    <3>2. e5 \in ReadWitnesses(TRUE, vin, r4)
      BY <1>11, <3>1
    <3>3. /\ e5 \in Outcome(Witnesses) /\ Len(e5.value) = n
          /\ Kept(r4, e5.rest, WitnessesBytes(e5.value))
      BY <1>10, <3>2, WitnessesKept
    <3>4. e5.value \in Witnesses /\ e5.rest \in Bytestring
      BY <3>3, OutcomeIs
    <3>. QED BY <1>5, <2>2, <3>3, <3>4, KeptLess
  <2>. QED BY <1>4, <2>1, <2>2
<1>13. PICK witnesses \in Witnesses, r5 \in Bytestring : witnesses = e5.value /\ r5 = e5.rest
  BY <1>12
<1>14. /\ e6.value \in Numbers(INT) /\ e6.rest \in Bytestring
       /\ Kept(r5, e6.rest, to_bytes(e6.value, INT))
  BY <1>1, <1>13, NumberKept DEF Read6
<1>15. PICK locktime \in Numbers(INT), z \in Bytestring :
         locktime = e6.value /\ z = e6.rest /\ Kept(r5, z, to_bytes(locktime, INT))
  BY <1>14
<1>16. AreParts(version, vin, vout, witnesses, locktime)
  BY <1>10, <1>12, <1>13 DEF AreParts
<1>17. Kept(r2, z, Body(vin, vout, << >>, locktime))
  BY <1>7, <1>9, <1>12, <1>13, <1>15, NoBytes, BodyKept
<1>18. \/ r1 = r2 /\ witnesses = NoWitnesses(Len(vin))
       \/ \E x \in Byte :
            /\ r1 = Cat(<<0, x>>, r2)
            /\ Kept(r2, z, Body(vin, vout, WitnessesBytes(witnesses), locktime))
  <2>1. ASSUME Kept(r4, r5, WitnessesBytes(witnesses))
        PROVE  Kept(r2, z, Body(vin, vout, WitnessesBytes(witnesses), locktime))
    <3>1. WitnessesBytes(witnesses) \in Bytestring
      BY <1>16, NoBytes, WitnessesAgain DEF AreParts
    <3>. QED BY <1>7, <1>9, <1>15, <2>1, <3>1, BodyKept
  <2>. QED BY <1>10, <1>12, <1>13, <2>1
<1>19. Arrived(b, z, version, vin, vout, witnesses, locktime)
  BY <1>3, <1>17, <1>18 DEF Arrived
<1>20. c = After(TxOf(version, vin, vout, witnesses, locktime), z)
  BY <1>1, <1>3, <1>7, <1>9, <1>13, <1>15 DEF Parsed
<1>. QED BY <1>16, <1>19, <1>20

LEMMA BodyType ==
  ASSUME NEW version, NEW vin, NEW vout, NEW witnesses, NEW locktime,
         AreParts(version, vin, vout, witnesses, locktime), NEW w \in Bytestring
  PROVE  Body(vin, vout, w, locktime) \in Bytestring
<1>1. /\ ListBytes("TxIn")[vin] \in Bytestring /\ ListBytes("TxOut")[vout] \in Bytestring
      /\ to_bytes(locktime, INT) \in Bytestring
  BY PartsType
<1>2. Ending(w, locktime) \in Bytestring
  BY <1>1, CatType DEF Ending
<1>3. Outs(vout, w, locktime) \in Bytestring
  BY <1>1, <1>2, CatType DEF Outs
<1>. QED BY <1>1, <1>3, CatType DEF Body

\* again is not longer than the bytes of b before z, and when it is as long it
\* differs from them at most in the flag.
NotLonger(again, b, z, flag) ==
  LET taken == Len(b) - Len(z)
  IN  /\ Len(again) <= taken
      /\ Len(again) = taken =>
           \A i \in 1..taken : again[i] # b[i] => flag /\ i = INT + 2

LEMMA WithoutMarker ==
  ASSUME NEW v \in Bytestring, NEW y \in Bytestring, NEW z \in Bytestring,
         NEW w \in Bytestring, Len(w) <= Len(y), Len(w) = Len(y) => w = y,
         NEW flag \in BOOLEAN
  PROVE  NotLonger(Cat(v, w), Cat(v, Cat(y, z)), z, flag)
<1>1. PICK b \in Bytestring, x \in Bytestring, a \in Bytestring :
        b = Cat(v, Cat(y, z)) /\ x = Cat(v, y) /\ a = Cat(v, w)
  BY CatType
<1>2. b = Cat(x, z)
  BY <1>1, CatThree
<1>3. /\ Len(b) = Len(x) + Len(z) /\ Len(x) = Len(v) + Len(y) /\ Len(a) = Len(v) + Len(w)
      /\ Len(x) \in Nat /\ Len(z) \in Nat /\ Len(v) \in Nat /\ Len(y) \in Nat /\ Len(w) \in Nat
  BY <1>1, <1>2, CatType
<1>4. Len(b) - Len(z) = Len(x) /\ Len(a) <= Len(x)
  BY <1>3
<1>5. ASSUME Len(a) = Len(x), NEW i \in 1..Len(x) PROVE a[i] = b[i]
  <2>1. w = y
    BY <1>3, <1>5
  <2>2. a = x
    BY <1>1, <2>1
  <2>3. IsCat(x, z, Len(x), Len(z), b)
    BY <1>2, <1>3, CatAt
  <2>. QED BY <1>5, <2>2, <2>3 DEF IsCat
<1>. QED BY <1>1, <1>4, <1>5 DEF NotLonger

LEMMA FlagType ==
  ASSUME NEW flag \in Byte
  PROVE  <<0, flag>> \in Bytestring /\ Len(<<0, flag>>) = 2 /\ <<0, flag>>[1] = 0
<1>1. 0 \in Byte
  BY SerializeAssumption DEF Byte
<1>2. PICK p \in Byte : p = 0
  BY <1>1
<1>3. <<p, flag>> \in Seq(Byte) /\ Len(<<p, flag>>) = 2 /\ <<p, flag>>[1] = p
  OBVIOUS
<1>. QED BY <1>2, <1>3 DEF Bytestring

\* Witnesses left out leave the marker out too.
LEMMA MarkerLeftOut ==
  ASSUME NEW v \in Bytestring, NEW y \in Bytestring, NEW z \in Bytestring,
         NEW w \in Bytestring, Len(w) <= Len(y), NEW x \in Byte, NEW flag
  PROVE  NotLonger(Cat(v, w), Cat(v, Cat(<<0, x>>, Cat(y, z))), z, flag)
<1>1. PICK m \in Bytestring : m = <<0, x>> /\ Len(m) = 2
  BY FlagType
<1>2. PICK p \in Bytestring, q \in Bytestring, a \in Bytestring, b \in Bytestring :
        p = Cat(y, z) /\ q = Cat(m, p) /\ a = Cat(v, w) /\ b = Cat(v, q)
  <2>1. PICK p \in Bytestring, a \in Bytestring : p = Cat(y, z) /\ a = Cat(v, w)
    BY CatType
  <2>2. PICK q \in Bytestring : q = Cat(m, p)
    BY CatType
  <2>3. Cat(v, q) \in Bytestring
    BY CatType
  <2>. QED BY <2>1, <2>2, <2>3
<1>3. /\ Len(b) = Len(v) + Len(q) /\ Len(q) = Len(m) + Len(p) /\ Len(p) = Len(y) + Len(z)
      /\ Len(a) = Len(v) + Len(w)
      /\ Len(z) \in Nat /\ Len(v) \in Nat /\ Len(y) \in Nat /\ Len(w) \in Nat
  BY <1>2, CatType
<1>4. Len(a) <= Len(b) - Len(z) /\ Len(a) # Len(b) - Len(z)
  BY <1>1, <1>3
<1>. QED BY <1>1, <1>2, <1>4 DEF NotLonger

LEMMA WithMarker ==
  ASSUME NEW v \in Bytestring, Len(v) = INT, NEW y \in Bytestring, NEW z \in Bytestring,
         NEW w \in Bytestring, Len(w) <= Len(y), Len(w) = Len(y) => w = y, NEW x \in Byte
  PROVE  NotLonger(Cat(v, Cat(<<0, 1>>, w)), Cat(v, Cat(<<0, x>>, Cat(y, z))), z, TRUE)
<1>1. PICK m \in Bytestring : m = <<0, x>> /\ Len(m) = 2 /\ m[1] = 0
  BY FlagType
<1>2. PICK n \in Bytestring : n = <<0, 1>> /\ Len(n) = 2 /\ n[1] = 0
  <2>1. 1 \in Byte
    BY SerializeAssumption DEF Byte
  <2>. QED BY <2>1, FlagType
<1>3. PICK p \in Bytestring, q \in Bytestring, b \in Bytestring :
        p = Cat(y, z) /\ q = Cat(m, p) /\ b = Cat(v, q)
  BY CatType
<1>4. PICK r \in Bytestring, a \in Bytestring : r = Cat(n, w) /\ a = Cat(v, r)
  BY CatType
<1>5. PICK lz \in Nat, ly \in Nat, lw \in Nat :
        lz = Len(z) /\ ly = Len(y) /\ lw = Len(w) /\ lw <= ly
  BY DEF Bytestring
<1>6. IsCat(y, z, ly, lz, p)
  BY <1>3, <1>5, CatAt
<1>7. Len(p) = ly + lz /\ \A i \in 1..ly : p[i] = y[i]
  BY <1>6 DEF IsCat
<1>8. IsCat(m, p, 2, ly + lz, q)
  <2>1. 2 \in Nat /\ ly + lz \in Nat
    OBVIOUS
  <2>. QED BY <1>1, <1>3, <1>7, <2>1, CatAt
<1>9. Len(q) = 2 + (ly + lz) /\ q[1] = 0 /\ \A i \in 1..(ly + lz) : q[2 + i] = p[i]
  BY <1>1, <1>8 DEF IsCat
<1>10. INT \in Nat
  BY MarkersAre
<1>11. IsCat(v, q, INT, 2 + (ly + lz), b)
  BY <1>3, <1>5, <1>9, <1>10, CatAt
<1>12. /\ Len(b) = INT + (2 + (ly + lz)) /\ \A i \in 1..INT : b[i] = v[i]
       /\ \A i \in 1..(2 + (ly + lz)) : b[INT + i] = q[i]
  BY <1>11 DEF IsCat
<1>13. IsCat(n, w, 2, lw, r)
  BY <1>2, <1>4, <1>5, CatAt
<1>14. Len(r) = 2 + lw /\ r[1] = 0 /\ \A i \in 1..lw : r[2 + i] = w[i]
  BY <1>2, <1>13 DEF IsCat
<1>15. IsCat(v, r, INT, 2 + lw, a)
  BY <1>4, <1>5, <1>10, <1>14, CatAt
<1>16. /\ Len(a) = INT + (2 + lw) /\ \A i \in 1..INT : a[i] = v[i]
       /\ \A i \in 1..(2 + lw) : a[INT + i] = r[i]
  BY <1>15 DEF IsCat
<1>17. Len(b) - Len(z) = INT + 2 + ly /\ Len(a) <= INT + 2 + ly
  BY <1>5, <1>10, <1>12, <1>16
<1>18. ASSUME Len(a) = INT + 2 + ly, NEW i \in 1..(INT + 2 + ly), i # INT + 2
       PROVE  a[i] = b[i]
  <2>1. lw = ly
    BY <1>5, <1>10, <1>16, <1>18
  <2>2. w = y
    BY <1>5, <2>1
  <2>3. CASE i <= INT
    BY <1>10, <1>12, <1>16, <2>3
  <2>4. CASE i = INT + 1
    <3>1. 1 \in 1..(2 + lw) /\ 1 \in 1..(2 + (ly + lz))
      BY <1>5
    <3>. QED BY <1>9, <1>12, <1>14, <1>16, <2>4, <3>1
  <2>5. CASE i > INT + 2
    <3>1. PICK j \in 1..ly : i = INT + (2 + j)
      <4>1. i - INT - 2 \in 1..ly /\ i = INT + (2 + (i - INT - 2))
        BY <1>5, <1>10, <2>5
      <4>. QED BY <4>1
    <3>2. 2 + j \in 1..(2 + lw) /\ 2 + j \in 1..(2 + (ly + lz)) /\ j \in 1..(ly + lz) /\ j \in 1..lw
      BY <1>5, <2>1
    <3>3. a[i] = w[j]
      BY <1>14, <1>16, <3>1, <3>2
    <3>4. b[i] = y[j]
      BY <1>7, <1>9, <1>12, <3>1, <3>2
    <3>. QED BY <2>2, <3>3, <3>4
  <2>6. i <= INT \/ i = INT + 1 \/ i > INT + 2
    BY <1>10, <1>18
  <2>. QED BY <2>3, <2>4, <2>5, <2>6
<1>19. NotLonger(a, b, z, TRUE)
  BY <1>17, <1>18 DEF NotLonger
<1>. QED BY <1>1, <1>2, <1>3, <1>4, <1>19

LEMMA TxNotLonger ==
  ASSUME NEW version, NEW vin, NEW vout, NEW witnesses, NEW locktime,
         AreParts(version, vin, vout, witnesses, locktime),
         NEW b, NEW z \in Bytestring,
         Arrived(b, z, version, vin, vout, witnesses, locktime),
         NEW tx, tx = TxOf(version, vin, vout, witnesses, locktime)
  PROVE  NotLonger(serialize(tx), b, z, has_witness(tx))
<1>1. PICK rest \in Bytestring, body \in Bytestring :
        /\ b = Cat(to_bytes(version, INT), rest)
        /\ Kept(body, z, Body(vin, vout, << >>, locktime))
        /\ \/ rest = body /\ witnesses = NoWitnesses(Len(vin))
           \/ \E flag \in Byte :
                /\ rest = Cat(<<0, flag>>, body)
                /\ Kept(body, z, Body(vin, vout, WitnessesBytes(witnesses), locktime))
  BY DEF Arrived
<1>2. PICK v \in Bytestring : v = to_bytes(version, INT) /\ Len(v) = INT
  BY PartsType
<1>3. has_witness(tx) \in BOOLEAN /\ (has_witness(tx) => witnesses # NoWitnesses(Len(vin)))
  BY TxWitnesses
<1>4. CASE ~has_witness(tx)
  <2>1. PICK w \in Bytestring : w = Body(vin, vout, << >>, locktime)
    BY NoBytes, BodyType
  <2>2. serialize(tx) = Cat(v, w)
    <3>1. serialize(tx) = serializeAs(tx, FALSE)
      BY <1>3, <1>4 DEF serialize
    <3>2. serializeAs(tx, FALSE)
            = TxBytes(version, MarkerPart(FALSE), vin, vout, WitnessPart(FALSE, witnesses), locktime)
      <4>1. PICK included \in BOOLEAN : included = FALSE
        OBVIOUS
      <4>2. serializeAs(tx, included)
              = TxBytes(version, MarkerPart(included), vin, vout,
                        WitnessPart(included, witnesses), locktime)
        BY BytesOfTx
      <4>. QED BY <4>1, <4>2
    <3>3. MarkerPart(FALSE) = << >> /\ WitnessPart(FALSE, witnesses) = << >>
      BY DEF MarkerPart, WitnessPart
    <3>4. Cat(<< >>, w) = w
      BY CatEmpty
    <3>. QED BY <1>2, <2>1, <3>1, <3>2, <3>3, <3>4 DEF TxBytes, Marked6
  <2>3. PICK y \in Bytestring :
          body = Cat(y, z) /\ Len(w) <= Len(y) /\ (Len(w) = Len(y) => w = y)
    BY <1>1, <2>1 DEF Kept
  <2>4. CASE rest = body
    <3>1. b = Cat(v, Cat(y, z))
      BY <1>1, <1>2, <2>3, <2>4
    <3>. QED BY <1>3, <2>2, <2>3, <3>1, WithoutMarker
  <2>5. ASSUME NEW x \in Byte, rest = Cat(<<0, x>>, body)
        PROVE  NotLonger(serialize(tx), b, z, has_witness(tx))
    <3>1. b = Cat(v, Cat(<<0, x>>, Cat(y, z)))
      BY <1>1, <1>2, <2>3, <2>5
    <3>. QED BY <2>2, <2>3, <3>1, MarkerLeftOut
  <2>. QED BY <1>1, <2>4, <2>5
<1>5. CASE has_witness(tx)
  <2>1. PICK x \in Byte :
          /\ rest = Cat(<<0, x>>, body)
          /\ Kept(body, z, Body(vin, vout, WitnessesBytes(witnesses), locktime))
    BY <1>1, <1>3, <1>5
  <2>2. WitnessesBytes(witnesses) \in Bytestring
    BY NoBytes, WitnessesAgain DEF AreParts
  <2>3. PICK w \in Bytestring : w = Body(vin, vout, WitnessesBytes(witnesses), locktime)
    BY <2>2, BodyType
  <2>4. serialize(tx) = Cat(v, Cat(<<0, 1>>, w))
    <3>1. serialize(tx) = serializeAs(tx, TRUE)
      BY <1>3, <1>5 DEF serialize
    <3>2. serializeAs(tx, TRUE)
            = TxBytes(version, MarkerPart(TRUE), vin, vout, WitnessPart(TRUE, witnesses), locktime)
      <4>1. PICK included \in BOOLEAN : included = TRUE
        OBVIOUS
      <4>2. serializeAs(tx, included)
              = TxBytes(version, MarkerPart(included), vin, vout,
                        WitnessPart(included, witnesses), locktime)
        BY BytesOfTx
      <4>. QED BY <4>1, <4>2
    <3>3. MarkerPart(TRUE) = <<0, 1>> /\ WitnessPart(TRUE, witnesses) = WitnessesBytes(witnesses)
      BY DEF MarkerPart, WitnessPart
    <3>. QED BY <1>2, <2>3, <3>1, <3>2, <3>3 DEF TxBytes, Marked6
  <2>5. PICK y \in Bytestring :
          body = Cat(y, z) /\ Len(w) <= Len(y) /\ (Len(w) = Len(y) => w = y)
    BY <2>1, <2>3 DEF Kept
  <2>6. b = Cat(v, Cat(<<0, x>>, Cat(y, z)))
    BY <1>1, <1>2, <2>1, <2>5
  <2>7. NotLonger(serialize(tx), b, z, TRUE)
    <3>1. NotLonger(Cat(v, Cat(<<0, 1>>, w)), Cat(v, Cat(<<0, x>>, Cat(y, z))), z, TRUE)
      BY <1>2, <2>5, WithMarker
    <3>. QED BY <2>4, <2>6, <3>1
  <2>8. has_witness(tx) = TRUE
    BY <1>3, <1>5
  <2>. QED BY <2>7, <2>8
<1>. QED BY <1>4, <1>5

LEMMA TxReturns ==
  ASSUME NEW b \in Bytestring, NEW c \in parse(b), c.value.vin # << >>
  PROVE  /\ Reads(serialize(c.value), c.value)
         /\ Reads(serializeAs(c.value, FALSE), Stripped(c.value))
         /\ NotLonger(serialize(c.value), b, c.rest, has_witness(c.value))
<1>1. PICK version, vin, vout, witnesses, locktime, z :
        /\ AreParts(version, vin, vout, witnesses, locktime) /\ z \in Bytestring
        /\ c = After(TxOf(version, vin, vout, witnesses, locktime), z)
        /\ Arrived(b, z, version, vin, vout, witnesses, locktime)
  BY TxArrives
<1>2. PICK tx : tx = TxOf(version, vin, vout, witnesses, locktime)
  OBVIOUS
<1>3. c.value = tx /\ c.rest = z
  BY <1>1, <1>2 DEF After
<1>4. vin # << >>
  <2>1. IsTx(tx, version, vin, vout, witnesses, locktime)
    BY <1>1, <1>2, TxIs
  <2>2. tx.vin = WithWitnesses(vin, witnesses)
    BY <1>2 DEF TxOf
  <2>3. vin = << >> => WithWitnesses(vin, witnesses) = << >>
    BY DEF WithWitnesses
  <2>. QED BY <1>3, <2>2, <2>3
<1>5. /\ has_witness(tx) \in BOOLEAN
      /\ ~has_witness(tx) => witnesses = NoWitnesses(Len(vin))
      /\ Stripped(tx) = TxOf(version, vin, vout, NoWitnesses(Len(vin)), locktime)
  BY <1>1, <1>2, TxWitnesses
<1>6. Reads(serializeAs(tx, FALSE), Stripped(tx))
  <2>1. parse(serializeAs(tx, FALSE))
          = {[value |-> TxOf(version, vin, vout, NoWitnesses(Len(vin)), locktime), rest |-> << >>]}
    <3>0. PICK included \in BOOLEAN : included = FALSE
      OBVIOUS
    <3>1. PICK read : read = IF included THEN witnesses ELSE NoWitnesses(Len(vin))
      OBVIOUS
    <3>2. parse(serializeAs(tx, included))
            = {[value |-> TxOf(version, vin, vout, read, locktime), rest |-> << >>]}
      BY <1>1, <1>2, <1>4, <3>1, TxAgain
    <3>3. read = NoWitnesses(Len(vin))
      BY <3>0, <3>1
    <3>. QED BY <3>0, <3>2, <3>3
  <2>. QED BY <1>5, <2>1 DEF Reads
<1>7. Reads(serialize(tx), tx)
  <2>1. CASE has_witness(tx)
    <3>1. serialize(tx) = serializeAs(tx, TRUE)
      BY <1>5, <2>1 DEF serialize
    <3>2. parse(serializeAs(tx, TRUE))
            = {[value |-> TxOf(version, vin, vout, witnesses, locktime), rest |-> << >>]}
      <4>0. PICK included \in BOOLEAN : included = TRUE
        OBVIOUS
      <4>1. PICK read : read = IF included THEN witnesses ELSE NoWitnesses(Len(vin))
        OBVIOUS
      <4>2. parse(serializeAs(tx, included))
              = {[value |-> TxOf(version, vin, vout, read, locktime), rest |-> << >>]}
        BY <1>1, <1>2, <1>4, <4>1, TxAgain
      <4>3. read = witnesses
        BY <4>0, <4>1
      <4>. QED BY <4>0, <4>2, <4>3
    <3>. QED BY <1>2, <3>1, <3>2 DEF Reads
  <2>2. CASE ~has_witness(tx)
    <3>1. serialize(tx) = serializeAs(tx, FALSE)
      BY <1>5, <2>2 DEF serialize
    <3>2. Stripped(tx) = tx
      BY <1>2, <1>5, <2>2
    <3>. QED BY <1>6, <3>1, <3>2
  <2>. QED BY <2>1, <2>2
<1>8. NotLonger(serialize(tx), b, z, has_witness(tx))
  BY <1>1, <1>2, TxNotLonger
<1>. QED BY <1>3, <1>6, <1>7, <1>8

------------------------------------------------------------------------------
(* The promise.                                                            *)

\* The bytes on their way are bytes.
BytesOnTheirWay == bytes \in Bytestring

\* Whoever changes bytes leaves bytes.
LEMMA EditsAreBytes == WireSpec => []BytesOnTheirWay
<1>1. WireInit => BytesOnTheirWay
  BY WireAssumption, ByteStrings DEF WireInit, BytesOnTheirWay, Bytestring
<1>2. BytesOnTheirWay /\ [WireNext]_wireVars => BytesOnTheirWay'
  <2> SUFFICES ASSUME BytesOnTheirWay, [WireNext]_wireVars PROVE BytesOnTheirWay'
    OBVIOUS
  <2>1. EditBytes \subseteq Byte /\ bytes \in Seq(Byte)
    BY WireAssumption DEF BytesOnTheirWay, Bytestring, Byte
  <2>2. PICK n \in Nat : n = Len(bytes) /\ DOMAIN bytes = 1..n
    BY <2>1
  <2>3. ASSUME NEW i \in DOMAIN bytes, NEW byte \in EditBytes, bytes' = [bytes EXCEPT ![i] = byte]
        PROVE  BytesOnTheirWay'
    BY <2>1, <2>3 DEF BytesOnTheirWay, Bytestring
  <2>4. ASSUME NEW i \in 1..(n + 1), NEW byte \in EditBytes,
               bytes' = InsertAt(bytes, i, byte)
        PROVE  BytesOnTheirWay'
    <3>1. PICK x \in Seq(Byte), y \in Seq(Byte), e \in Seq(Byte) :
            x = SubSeq(bytes, 1, i - 1) /\ y = SubSeq(bytes, i, n) /\ e = <<byte>>
      <4>1. i - 1 \in 0..n /\ \A k \in 1..(i - 1) : k \in 1..n
        OBVIOUS
      <4>2. SubSeq(bytes, 1, i - 1) \in Seq(Byte)
        BY <2>1, <2>2, <4>1
      <4>3. SubSeq(bytes, i, n) \in Seq(Byte)
        BY <2>1, <2>2
      <4>4. <<byte>> \in Seq(Byte)
        BY <2>1
      <4>. QED BY <4>2, <4>3, <4>4
    <3>2. bytes' = (x \o e) \o y
      BY <2>2, <2>4, <3>1 DEF InsertAt
    <3>. QED BY <3>2 DEF BytesOnTheirWay, Bytestring
  <2>5. ASSUME NEW i \in DOMAIN bytes, bytes' = RemoveAt(bytes, i)
        PROVE  BytesOnTheirWay'
    <3>1. PICK x \in Seq(Byte), y \in Seq(Byte) :
            x = SubSeq(bytes, 1, i - 1) /\ y = SubSeq(bytes, i + 1, n)
      <4>1. SubSeq(bytes, 1, i - 1) \in Seq(Byte)
        BY <2>1, <2>2
      <4>2. SubSeq(bytes, i + 1, n) \in Seq(Byte)
        BY <2>1, <2>2
      <4>. QED BY <4>1, <4>2
    <3>2. bytes' = x \o y
      BY <2>2, <2>5, <3>1 DEF RemoveAt
    <3>. QED BY <3>2 DEF BytesOnTheirWay, Bytestring
  <2>6. ASSUME NEW m \in 0..(n - 1), bytes' = SubSeq(bytes, 1, m)
        PROVE  BytesOnTheirWay'
    BY <2>1, <2>2, <2>6 DEF BytesOnTheirWay, Bytestring
  <2>7. CASE UNCHANGED wireVars
    BY <2>7 DEF wireVars, BytesOnTheirWay
  <2>. QED BY <2>2, <2>3, <2>4, <2>5, <2>6, <2>7 DEF WireNext, Edit
<1>. QED BY <1>1, <1>2, PTL DEF WireSpec

\* A transaction is what its bytes say, and nothing else can be made of it: what
\* parse makes of any bytes, with the inputs without which a transaction has no
\* such promise, serialize writes as bytes that parse reads as the same
\* transaction, in no more bytes than were read; and without witnesses, as the
\* txid is taken of, as the same transaction stripped of them.
THEOREM TransactionsReturn == WireSpec => []TxRoundTrip
<1>1. BytesOnTheirWay => TxRoundTrip
  <2> SUFFICES ASSUME bytes \in Bytestring,
                      NEW c \in parse(bytes), c.value.vin # << >>
               PROVE  LET taken == Len(bytes) - Len(c.rest)
                          again == serialize(c.value)
                      IN  /\ Reads(again, c.value)
                          /\ Reads(serializeAs(c.value, FALSE), Stripped(c.value))
                          /\ Len(again) <= taken
                          /\ Len(again) = taken =>
                               \A i \in 1..taken :
                                 again[i] # bytes[i] => has_witness(c.value) /\ i = INT + 2
    BY Zenon DEF BytesOnTheirWay, TxRoundTrip
  <2>. QED BY TxReturns DEF NotLonger
<1>. QED BY <1>1, EditsAreBytes, PTL

------------------------------------------------------------------------------
(* Numbers of as few bytes as they take.                                   *)

LEMMA PowerBig ==
  ASSUME NEW n \in Nat
  PROVE  n < Power[n]
<1> DEFINE P == {k \in 0..n : k < Power[k]}
<1>1. 0 \in P
  BY PowerIs
<1>2. \A k \in 1..n : k - 1 \in P => k \in P
  <2> SUFFICES ASSUME NEW k \in 1..n, k - 1 \in P PROVE k \in P
    OBVIOUS
  <2>1. PICK m \in Nat : m = k - 1 /\ k = m + 1
    OBVIOUS
  <2>2. PICK p \in Nat, r \in Nat : p = Power[m] /\ m < p /\ RADIX = r + 2
    <3>1. RADIX - 2 \in Nat /\ RADIX = RADIX - 2 + 2
      BY SerializeAssumption
    <3>2. Power[m] \in Nat
      BY PowerIs
    <3>. QED BY <2>1, <3>1, <3>2
  <2>3. Power[m + 1] = RADIX * p
    BY <2>2, PowerIs
  <2>4. (r + 2) * p = r * p + p + p /\ r * p \in Nat
    BY SMTT(20)
  <2>5. k < Power[k]
    BY <2>1, <2>2, <2>3, <2>4
  <2>. QED BY <2>5
<1>3. n \in P
  <2>. HIDE DEF P
  <2>1. \A k \in 0..n : k \in P
    BY <1>1, <1>2, Upwards
  <2>2. n \in 0..n
    OBVIOUS
  <2>. QED BY <2>1, <2>2
<1>. QED BY <1>3

\* k is the least number of bytes for n, at least one.
Takes(n, k) ==
  /\ k \in Nat /\ k >= 1 /\ n < Power[k]
  /\ \A j \in 1..(k - 1) : n >= Power[j]

LEMMA TakesOne ==
  ASSUME NEW n \in Nat, NEW j, NEW k, Takes(n, j), Takes(n, k)
  PROVE  j = k
<1>1. j \in Nat /\ k \in Nat /\ j >= 1 /\ k >= 1 /\ Power[j] \in Nat /\ Power[k] \in Nat
  BY PowerPositive DEF Takes
<1>2. ~(j < k)
  BY <1>1 DEF Takes
<1>3. ~(k < j)
  BY <1>1 DEF Takes
<1>. QED BY <1>1, <1>2, <1>3

LEMMA MagnitudeTakes ==
  ASSUME NEW n \in Nat
  PROVE  \E k : Takes(n, k) /\ Magnitude(n) = Reverse(to_bytes(n, k))
<1> DEFINE T == {k \in Nat : k >= 1 /\ n < Power[k]}
<1>1. n + 1 \in T
  <2>1. n + 1 < Power[n + 1] /\ Power[n + 1] \in Nat
    BY PowerBig, PowerPositive
  <2>. QED BY <2>1
<1>2. PICK k \in T : \A j \in T : k <= j
  <2>1. T \in SUBSET Nat /\ T # {}
    BY <1>1
  <2>. HIDE DEF T
  <2>. QED BY <2>1, LeastOf
<1>3. \A j \in 1..(k - 1) : n >= Power[j]
  <2> TAKE j \in 1..(k - 1)
  <2>1. j \in Nat /\ j >= 1 /\ j \notin T /\ Power[j] \in Nat
    BY <1>2, PowerPositive
  <2>. QED BY <2>1
<1>4. k \in 1..(n + 1)
  BY <1>1, <1>2
<1> DEFINE C(j) == n < Power[j] /\ \A i \in 1..(j - 1) : n >= Power[i]
           c == CHOOSE j \in 1..(n + 1) : C(j)
<1>5. c \in 1..(n + 1) /\ C(c)
  <2>1. C(k)
    BY <1>2, <1>3
  <2>. HIDE DEF C
  <2>. QED BY <1>4, <2>1
<1>6. Takes(n, c)
  <2>. HIDE DEF c
  <2>. QED BY <1>5 DEF Takes
<1>7. Magnitude(n) = Reverse(to_bytes(n, c))
  BY DEF Magnitude
<1>. QED BY <1>6, <1>7

LEMMA ReverseIs ==
  ASSUME NEW b \in Bytestring, NEW n, n = Len(b)
  PROVE  /\ Reverse(b) \in Bytestring /\ Len(Reverse(b)) = n
         /\ \A i \in 1..n : Reverse(b)[i] = b[(n - i) + 1]
         /\ Reverse(Reverse(b)) = b
<1>1. n \in Nat /\ b \in [1..n -> Byte]
  BY DEF Bytestring
<1>2. PICK r : r = Reverse(b)
  OBVIOUS
<1>3. r = [i \in 1..n |-> b[(n - i) + 1]]
  BY <1>2 DEF Reverse
<1>4. \A i \in 1..n : (n - i) + 1 \in 1..n /\ (n - ((n - i) + 1)) + 1 = i
  BY <1>1
<1>5. r \in [1..n -> Byte] /\ \A i \in 1..n : r[i] = b[(n - i) + 1]
  BY <1>1, <1>3, <1>4
<1>6. r \in Bytestring /\ Len(r) = n
  BY <1>1, <1>5 DEF Bytestring
<1>7. Reverse(r) = b
  <2>1. Reverse(r) = [i \in 1..n |-> r[(n - i) + 1]]
    BY <1>6 DEF Reverse
  <2>2. \A i \in 1..n : r[(n - i) + 1] = b[i]
    BY <1>4, <1>5
  <2>3. b = [i \in 1..n |-> b[i]]
    BY <1>1
  <2>. QED BY <2>1, <2>2, <2>3
<1>. QED BY <1>2, <1>5, <1>6, <1>7

\* The digit of a number before which there are none.
LEMMA FirstDigit ==
  ASSUME NEW n \in Nat, NEW k \in Nat, n < Power[k + 1]
  PROVE  /\ (n \div Power[k]) % RADIX = n \div Power[k]
         /\ (n \div Power[k]) % RADIX # 0 <=> n >= Power[k]
<1>1. PICK p \in Nat, R \in Nat : p = Power[k] /\ p > 0 /\ R = RADIX /\ R > 0
  BY PowerPositive, SerializeAssumption
<1>2. n < R * p
  BY <1>1, PowerIs
<1>3. PICK q \in Nat, d \in Nat : q = n \div p /\ d = n % p /\ d < p /\ n = p * q + d
  <2>1. n \div p \in Nat /\ n % p \in 0..(p - 1) /\ n = p * (n \div p) + (n % p)
    BY <1>1, Divides
  <2>. QED BY <1>1, <2>1
<1>4. q < R
  <2> SUFFICES ASSUME R <= q PROVE FALSE
    BY <1>1
  <2>1. PICK z \in Nat : q = R + z
    <3>1. q - R \in Nat /\ q = R + (q - R)
      OBVIOUS
    <3>. QED BY <3>1
  <2>2. p * q = R * p + p * z
    BY <2>1, SMTT(20)
  <2>3. p * z \in Nat /\ R * p \in Nat
    BY SMTT(20)
  <2>. QED BY <1>2, <1>3, <2>2, <2>3
<1>5. q % R = q
  <2>1. R * 0 + q = q
    OBVIOUS
  <2>2. (R * 0 + q) % R = q
    BY <1>4, DividesOnce
  <2>. QED BY <2>1, <2>2
<1>6. q # 0 => n >= p
  <2> SUFFICES ASSUME q # 0 PROVE n >= p
    OBVIOUS
  <2>1. PICK z \in Nat : q = z + 1
    <3>1. q - 1 \in Nat /\ q = q - 1 + 1
      OBVIOUS
    <3>. QED BY <3>1
  <2>2. p * q = p * z + p /\ p * z \in Nat
    BY <2>1, SMTT(20)
  <2>. QED BY <1>3, <2>2
<1>7. q = 0 => ~(n >= p)
  <2>1. p * 0 = 0
    OBVIOUS
  <2>. QED BY <1>3, <2>1
<1>. QED BY <1>1, <1>3, <1>5, <1>6, <1>7

\* The bytes of a number have no zero before them, and are the only such bytes.
LEMMA MagnitudeIs ==
  ASSUME NEW n \in Nat
  PROVE  /\ Magnitude(n) \in Bytestring /\ Len(Magnitude(n)) \in Nat
         /\ Len(Magnitude(n)) >= 1 /\ BigEndian(Magnitude(n)) = n
         /\ Len(Magnitude(n)) > 1 => Magnitude(n)[1] # 0
<1>1. PICK k : Takes(n, k) /\ Magnitude(n) = Reverse(to_bytes(n, k))
  BY MagnitudeTakes
<1>2. k \in Nat /\ k >= 1 /\ n < Power[k]
  BY <1>1 DEF Takes
<1>3. PICK b \in Bytestring : b = to_bytes(n, k) /\ Len(b) = k
  BY <1>2, ToBytesType DEF Bytestring
<1>4. PICK m \in Bytestring : m = Magnitude(n) /\ m = Reverse(b) /\ Len(m) = k /\ Reverse(m) = b
                              /\ \A i \in 1..k : m[i] = b[(k - i) + 1]
  BY <1>1, <1>3, ReverseIs
<1>5. from_bytes(b) = n
  BY <1>2, <1>3, NumberOfBytes
<1>6. BigEndian(m) = n
  BY <1>4, <1>5 DEF BigEndian
<1>7. k > 1 => m[1] # 0
  <2> SUFFICES ASSUME k > 1 PROVE m[1] # 0
    OBVIOUS
  <2>1. PICK j \in Nat : k = j + 1 /\ j \in 1..(k - 1)
    <3>1. k - 1 \in Nat /\ k = k - 1 + 1 /\ k - 1 \in 1..(k - 1)
      BY <1>2
    <3>. QED BY <3>1
  <2>2. n >= Power[j]
    BY <1>1, <2>1 DEF Takes
  <2>3. 1 \in 1..k /\ (k - 1) + 1 = k /\ k \in 1..k /\ k - 1 = j
    BY <1>2, <2>1
  <2>4. b[k] = (n \div Power[j]) % RADIX
    BY <1>3, <2>3 DEF to_bytes
  <2>. QED BY <1>2, <1>4, <2>1, <2>2, <2>3, <2>4, FirstDigit
<1>. QED BY <1>2, <1>4, <1>6, <1>7

LEMMA MagnitudeOnly ==
  ASSUME NEW b \in Bytestring, Len(b) >= 1, Len(b) > 1 => b[1] # 0
  PROVE  BigEndian(b) \in Nat /\ Magnitude(BigEndian(b)) = b
<1>1. PICK k \in Nat : k = Len(b) /\ k >= 1
  BY DEF Bytestring
<1>2. PICK r \in Bytestring : r = Reverse(b) /\ Len(r) = k /\ Reverse(r) = b
                              /\ \A i \in 1..k : r[i] = b[(k - i) + 1]
  BY <1>1, ReverseIs
<1>3. r \in [1..k -> Byte]
  BY <1>2 DEF Bytestring
<1>4. PICK n \in Nat : n = from_bytes(r) /\ n < Power[k] /\ to_bytes(n, k) = r
  BY <1>3, BytesOfNumber
<1>5. BigEndian(b) = n
  BY <1>2, <1>4 DEF BigEndian
<1>6. \A j \in 1..(k - 1) : n >= Power[j]
  <2> TAKE j \in 1..(k - 1)
  <2>1. PICK m \in Nat : k = m + 1 /\ j <= m /\ k > 1
    <3>1. k - 1 \in Nat /\ k = k - 1 + 1 /\ j <= k - 1 /\ k > 1
      BY <1>1
    <3>. QED BY <3>1
  <2>2. k \in 1..k /\ (k - k) + 1 = 1
    BY <1>1
  <2>3. r[k] # 0
    BY <1>1, <1>2, <2>1, <2>2
  <2>4. r[k] = (n \div Power[m]) % RADIX
    <3>1. k - 1 = m
      BY <2>1
    <3>. QED BY <1>4, <2>2, <3>1 DEF to_bytes
  <2>5. n >= Power[m]
    BY <1>4, <2>1, <2>3, <2>4, FirstDigit
  <2>6. Power[j] <= Power[m] /\ Power[j] \in Nat /\ Power[m] \in Nat
    BY <2>1, PowerGrows, PowerPositive
  <2>. QED BY <2>5, <2>6
<1>7. Takes(n, k)
  BY <1>1, <1>4, <1>6 DEF Takes
<1>8. PICK j : Takes(n, j) /\ Magnitude(n) = Reverse(to_bytes(n, j))
  BY MagnitudeTakes
<1>9. j = k
  BY <1>7, <1>8, TakesOne
<1>. QED BY <1>2, <1>4, <1>5, <1>8, <1>9

\* A zero before the bytes of a number is no other number.
LEMMA ZeroBefore ==
  ASSUME NEW m \in Bytestring
  PROVE  /\ Cat(<<0>>, m) \in Bytestring /\ Len(Cat(<<0>>, m)) = Len(m) + 1
         /\ Cat(<<0>>, m)[1] = 0 /\ \A i \in 1..Len(m) : Cat(<<0>>, m)[1 + i] = m[i]
         /\ BigEndian(Cat(<<0>>, m)) = BigEndian(m)
<1>1. PICK k \in Nat : k = Len(m)
  BY DEF Bytestring
<1>2. PICK z \in Bytestring : z = <<0>> /\ Len(z) = 1 /\ z[1] = 0
  <2>1. 0 \in Byte
    BY SerializeAssumption DEF Byte
  <2>. QED BY <2>1, OneByteIs
<1>3. PICK c \in Bytestring : c = Cat(z, m) /\ IsCat(z, m, 1, k, c)
  BY <1>1, <1>2, CatType, CatAt
<1>4. Len(c) = k + 1 /\ c[1] = 0 /\ \A i \in 1..k : c[1 + i] = m[i]
  BY <1>2, <1>3 DEF IsCat
<1>5. PICK r \in Bytestring : r = Reverse(m) /\ Len(r) = k
                              /\ \A i \in 1..k : r[i] = m[(k - i) + 1]
  BY <1>1, ReverseIs
<1>6. PICK s \in Bytestring : s = Reverse(c) /\ Len(s) = k + 1
                              /\ \A i \in 1..(k + 1) : s[i] = c[((k + 1) - i) + 1]
  BY <1>4, ReverseIs
<1>7. r \in [1..k -> Byte]
  BY <1>5 DEF Bytestring
<1>8. PICK n \in Nat : n = from_bytes(r) /\ n < Power[k] /\ to_bytes(n, k) = r
  BY <1>7, BytesOfNumber
<1>9. n < Power[k + 1]
  <2>1. Power[k] <= Power[k + 1] /\ Power[k] \in Nat /\ Power[k + 1] \in Nat
    BY PowerGrows, PowerPositive
  <2>. QED BY <1>8, <2>1
<1>10. to_bytes(n, k + 1) = s
  <2>1. ASSUME NEW i \in 1..(k + 1) PROVE (n \div Power[i - 1]) % RADIX = s[i]
    <3>1. CASE i = k + 1
      <4>1. s[i] = 0
        <5>1. ((k + 1) - i) + 1 = 1
          BY <3>1
        <5>. QED BY <1>4, <1>6, <5>1
      <4>2. ~((n \div Power[k]) % RADIX # 0)
        <5>1. ~(n >= Power[k])
          <6>1. Power[k] \in Nat
            BY PowerPositive
          <6>. QED BY <1>8, <6>1
        <5>. QED BY <1>9, <5>1, FirstDigit
      <4>3. i - 1 = k
        BY <3>1
      <4>. QED BY <4>1, <4>2, <4>3
    <3>2. CASE i # k + 1
      <4>1. i \in 1..k /\ ((k + 1) - i) + 1 = 1 + ((k - i) + 1) /\ (k - i) + 1 \in 1..k
        BY <3>2
      <4>2. s[i] = r[i]
        <5>1. s[i] = c[((k + 1) - i) + 1]
          BY <1>6
        <5>2. c[1 + ((k - i) + 1)] = m[(k - i) + 1]
          BY <1>4, <4>1
        <5>3. r[i] = m[(k - i) + 1]
          BY <1>5, <4>1
        <5>. QED BY <4>1, <5>1, <5>2, <5>3
      <4>3. r[i] = (n \div Power[i - 1]) % RADIX
        BY <1>8, <4>1 DEF to_bytes
      <4>. QED BY <4>2, <4>3
    <3>. QED BY <3>1, <3>2
  <2>2. s = [i \in 1..(k + 1) |-> s[i]]
    BY <1>6 DEF Bytestring
  <2>. QED BY <2>1, <2>2 DEF to_bytes
<1>11. from_bytes(s) = n
  BY <1>9, <1>10, NumberOfBytes
<1>12. BigEndian(c) = BigEndian(m)
  BY <1>5, <1>6, <1>8, <1>11 DEF BigEndian
<1>. QED BY <1>1, <1>2, <1>3, <1>4, <1>12

------------------------------------------------------------------------------
(* The numbers of a signature: Content is what DerInteger writes after the *)
(* tag and the size, and what MinimalInteger passes.                       *)

Content(n) ==
  IF Negative(Magnitude(n)[1]) THEN Cat(<<0>>, Magnitude(n)) ELSE Magnitude(n)

Minimal(b) ==
  /\ Len(b) >= 1 /\ ~Negative(b[1])
  /\ Len(b) > 1 /\ b[1] = 0 => Negative(b[2])

LEMMA NegativeIs ==
  ~Negative(0)
<1>1. RADIX \in Nat /\ RADIX > 3
  BY SerializeAssumption
<1>2. RADIX \div 2 > 0
  BY <1>1
<1>. QED BY <1>1, <1>2 DEF Negative

\* DER writes a number minimally, and as nothing else.
LEMMA ContentIs ==
  ASSUME NEW n \in Nat
  PROVE  Content(n) \in Bytestring /\ Minimal(Content(n)) /\ BigEndian(Content(n)) = n
<1>1. PICK m \in Bytestring, k \in Nat :
        /\ m = Magnitude(n) /\ k = Len(m) /\ k >= 1 /\ BigEndian(m) = n
        /\ k > 1 => m[1] # 0
  BY MagnitudeIs
<1>2. CASE Negative(m[1])
  <2>1. PICK c \in Bytestring : /\ c = Cat(<<0>>, m) /\ Len(c) = k + 1 /\ c[1] = 0
                                /\ \A i \in 1..k : c[1 + i] = m[i]
                                /\ BigEndian(c) = n
    BY <1>1, ZeroBefore
  <2>2. 1 \in 1..k /\ 1 + 1 = 2
    BY <1>1
  <2>3. c[2] = m[1]
    BY <2>1, <2>2
  <2>4. Minimal(c)
    BY <1>1, <1>2, <2>1, <2>3, NegativeIs DEF Minimal
  <2>5. c = Content(n)
    BY <1>1, <1>2, <2>1 DEF Content
  <2>. QED BY <2>1, <2>4, <2>5
<1>3. CASE ~Negative(m[1])
  <2>1. Minimal(m)
    BY <1>1, <1>3 DEF Minimal
  <2>2. m = Content(n)
    BY <1>1, <1>3 DEF Content
  <2>. QED BY <1>1, <2>1, <2>2
<1>. QED BY <1>2, <1>3

LEMMA ContentOnly ==
  ASSUME NEW b \in Bytestring, Minimal(b)
  PROVE  BigEndian(b) \in Nat /\ Content(BigEndian(b)) = b
<1>1. PICK n \in Nat : n = Len(b) /\ n >= 1 /\ b \in [1..n -> Byte]
  BY DEF Bytestring, Minimal
<1>2. ~Negative(b[1]) /\ (n > 1 /\ b[1] = 0 => Negative(b[2]))
  BY <1>1 DEF Minimal
<1>3. CASE n > 1 => b[1] # 0
  <2>1. BigEndian(b) \in Nat /\ Magnitude(BigEndian(b)) = b
    BY <1>1, <1>3, MagnitudeOnly
  <2>. QED BY <1>2, <2>1 DEF Content
<1>4. CASE n > 1 /\ b[1] = 0
  <2>1. PICK k \in Nat : n = k + 1 /\ k >= 1
    <3>1. n - 1 \in Nat /\ n = n - 1 + 1 /\ n - 1 >= 1
      BY <1>4
    <3>. QED BY <3>1
  <2>2. PICK m : m = [i \in 1..k |-> b[1 + i]]
    OBVIOUS
  <2>3. \A i \in 1..k : 1 + i \in 1..n
    BY <2>1
  <2>4. m \in [1..k -> Byte] /\ \A i \in 1..k : m[i] = b[1 + i]
    BY <1>1, <2>2, <2>3
  <2>5. m \in Bytestring /\ Len(m) = k
    BY <2>4 DEF Bytestring
  <2>6. 1 \in 1..k /\ 1 + 1 = 2
    BY <2>1
  <2>7. Negative(m[1])
    BY <1>2, <1>4, <2>4, <2>6
  <2>8. m[1] # 0
    BY <2>7, NegativeIs
  <2>9. BigEndian(m) \in Nat /\ Magnitude(BigEndian(m)) = m
    BY <2>1, <2>5, <2>8, MagnitudeOnly
  <2>10. PICK c \in Bytestring : /\ c = Cat(<<0>>, m) /\ Len(c) = k + 1 /\ c[1] = 0
                                 /\ \A i \in 1..k : c[1 + i] = m[i]
                                 /\ BigEndian(c) = BigEndian(m)
    BY <2>5, ZeroBefore
  <2>11. c = b
    <3>1. ASSUME NEW i \in 1..n PROVE c[i] = b[i]
      <4>1. CASE i = 1
        BY <1>4, <2>10, <4>1
      <4>2. CASE i # 1
        <5>1. PICK j \in 1..k : i = 1 + j
          <6>1. i - 1 \in 1..k /\ i = 1 + (i - 1)
            BY <2>1, <4>2
          <6>. QED BY <6>1
        <5>. QED BY <2>4, <2>10, <5>1
      <4>. QED BY <4>1, <4>2
    <3>2. c \in [1..n -> Byte]
      BY <2>1, <2>10 DEF Bytestring
    <3>. QED BY <1>1, <3>1, <3>2
  <2>12. Content(BigEndian(m)) = c
    BY <2>7, <2>9, <2>10 DEF Content
  <2>. QED BY <2>9, <2>10, <2>11, <2>12
<1>. QED BY <1>3, <1>4

------------------------------------------------------------------------------
(* The bytes of a signature.  Those of DerOf, before they are compared     *)
(* with any, are numbers that need not be bytes: a size is not cut.        *)

\* d is a signature of the m bytes R and the n bytes S.
IsLayout(d, R, S, m, n) ==
  /\ Len(d) = 6 + m + n
  /\ d[1] = SEQUENCE /\ d[2] = 4 + m + n
  /\ d[3] = INTEGER /\ d[4] = m /\ \A i \in 1..m : d[4 + i] = R[i]
  /\ d[5 + m] = INTEGER /\ d[6 + m] = n /\ \A i \in 1..n : d[6 + m + i] = S[i]

Tagged(tag, s) == <<tag, Len(s)>> \o s

\* c is the tag, the size m of s, and s.
IsTagged(tag, s, m, c) ==
  /\ c \in Seq(Nat) /\ Len(c) = 2 + m /\ c[1] = tag /\ c[2] = m
  /\ \A i \in 1..m : c[2 + i] = s[i]

LEMMA BytesAreNumbers ==
  ASSUME NEW b \in Bytestring
  PROVE  b \in Seq(Nat)
<1>1. PICK n \in Nat : n = Len(b) /\ b \in [1..n -> Byte]
  BY DEF Bytestring
<1>2. Byte \subseteq Nat
  BY SerializeAssumption DEF Byte
<1>3. b \in [1..n -> Nat]
  BY <1>1, <1>2
<1>. QED BY <1>3

LEMMA TaggedIs ==
  ASSUME NEW tag \in Nat, NEW s \in Seq(Nat), NEW m \in Nat, m = Len(s)
  PROVE  IsTagged(tag, s, m, Tagged(tag, s))
<1>1. PICK p \in Seq(Nat) : p = <<tag, m>> /\ Len(p) = 2 /\ p[1] = tag /\ p[2] = m
  <2>1. <<tag, m>> \in Seq(Nat)
    OBVIOUS
  <2>2. Len(<<tag, m>>) = 2 /\ <<tag, m>>[1] = tag /\ <<tag, m>>[2] = m
    OBVIOUS
  <2>. QED BY <2>1, <2>2
<1>2. PICK c : c = p \o s
  OBVIOUS
<1>3. c \in Seq(Nat) /\ IsJoin(p, s, 2, m, c)
  <2>1. 2 \in Nat
    OBVIOUS
  <2>. QED BY <1>1, <1>2, <2>1, Joined, Zenon
<1>4. \A i \in 1..m : 2 + i \in 1..(2 + m) /\ ~(2 + i <= 2) /\ 2 + i - 2 = i
  OBVIOUS
<1>5. 1 \in 1..(2 + m) /\ 2 \in 1..(2 + m) /\ 1 <= 2 /\ 2 <= 2
  OBVIOUS
<1>6. Len(c) = 2 + m /\ c[1] = tag /\ c[2] = m /\ \A i \in 1..m : c[2 + i] = s[i]
  BY <1>1, <1>3, <1>4, <1>5 DEF IsJoin
<1>7. c = Tagged(tag, s)
  BY <1>1, <1>2 DEF Tagged
<1>. QED BY <1>3, <1>6, <1>7 DEF IsTagged

LEMMA DerOfTagged ==
  ASSUME NEW r, NEW s
  PROVE  DerOf(r, s) = Tagged(SEQUENCE, Tagged(INTEGER, Content(r)) \o Tagged(INTEGER, Content(s)))
BY DEF DerOf, DerInteger, Tagged, Content, Cat

LEMMA DerOfIs ==
  ASSUME NEW r \in Nat, NEW s \in Nat, NEW R, NEW S, NEW m \in Nat, NEW n \in Nat,
         R = Content(r), S = Content(s), m = Len(R), n = Len(S)
  PROVE  DerOf(r, s) \in Seq(Nat) /\ IsLayout(DerOf(r, s), R, S, m, n)
<1>1. R \in Seq(Nat) /\ S \in Seq(Nat)
  BY ContentIs, BytesAreNumbers
<1>2. SEQUENCE \in Nat /\ INTEGER \in Nat
  BY DerAssumption
<1>3. PICK x : x = Tagged(INTEGER, R) /\ IsTagged(INTEGER, R, m, x)
  BY <1>1, <1>2, TaggedIs
<1>4. PICK y : y = Tagged(INTEGER, S) /\ IsTagged(INTEGER, S, n, y)
  BY <1>1, <1>2, TaggedIs
<1>5. PICK j \in Nat, k \in Nat : j = 2 + m /\ k = 2 + n
  OBVIOUS
<1>6. PICK z : z = x \o y
  OBVIOUS
<1>7. z \in Seq(Nat) /\ IsJoin(x, y, j, k, z)
  <2>1. x \in Seq(Nat) /\ y \in Seq(Nat) /\ Len(x) = j /\ Len(y) = k
    BY <1>3, <1>4, <1>5 DEF IsTagged
  <2>. QED BY <1>6, <2>1, Joined, Zenon
<1>8. Len(z) = 4 + m + n
  BY <1>5, <1>7 DEF IsJoin
<1>9. \A i \in 1..j : z[i] = x[i]
  <2> TAKE i \in 1..j
  <2>1. i \in 1..(j + k) /\ i <= j
    OBVIOUS
  <2>. QED BY <1>7, <2>1 DEF IsJoin
<1>10. \A i \in 1..k : z[j + i] = y[i]
  <2> TAKE i \in 1..k
  <2>1. j + i \in 1..(j + k) /\ ~(j + i <= j) /\ j + i - j = i
    OBVIOUS
  <2>. QED BY <1>7, <2>1 DEF IsJoin
<1>11. PICK l \in Nat : l = Len(z) /\ l = 4 + m + n
  BY <1>8
<1>12. PICK d : d = Tagged(SEQUENCE, z) /\ IsTagged(SEQUENCE, z, l, d)
  BY <1>2, <1>7, <1>11, TaggedIs
<1>13. d[3] = INTEGER /\ d[4] = m
  <2>1. 1 \in 1..l /\ 2 \in 1..l /\ 1 \in 1..j /\ 2 \in 1..j /\ 2 + 1 = 3 /\ 2 + 2 = 4
    BY <1>5, <1>11
  <2>. QED BY <1>3, <1>9, <1>12, <2>1 DEF IsTagged
<1>14. ASSUME NEW i \in 1..m PROVE d[4 + i] = R[i]
  <2>1. 2 + i \in 1..j /\ 2 + i \in 1..l /\ 2 + (2 + i) = 4 + i
    BY <1>5, <1>11
  <2>. QED BY <1>3, <1>9, <1>12, <2>1 DEF IsTagged
<1>15. d[5 + m] = INTEGER /\ d[6 + m] = n
  <2>1. /\ 1 \in 1..k /\ 2 \in 1..k /\ j + 1 \in 1..l /\ j + 2 \in 1..l
        /\ 2 + (j + 1) = 5 + m /\ 2 + (j + 2) = 6 + m
    BY <1>5, <1>11
  <2>. QED BY <1>4, <1>10, <1>12, <2>1 DEF IsTagged
<1>16. ASSUME NEW i \in 1..n PROVE d[6 + m + i] = S[i]
  <2>1. 2 + i \in 1..k /\ j + (2 + i) \in 1..l /\ 2 + (j + (2 + i)) = 6 + m + i
    BY <1>5, <1>11
  <2>2. d[2 + (j + (2 + i))] = z[j + (2 + i)]
    BY <1>12, <2>1 DEF IsTagged
  <2>3. z[j + (2 + i)] = y[2 + i]
    BY <1>10, <2>1
  <2>4. y[2 + i] = S[i]
    BY <1>4 DEF IsTagged
  <2>. QED BY <2>1, <2>2, <2>3, <2>4
<1>17. IsLayout(d, R, S, m, n)
  <2>1. Len(d) = 6 + m + n /\ d[2] = 4 + m + n
    BY <1>11, <1>12 DEF IsTagged
  <2>2. d[1] = SEQUENCE
    BY <1>12 DEF IsTagged
  <2>. QED BY <1>13, <1>14, <1>15, <1>16, <2>1, <2>2 DEF IsLayout
<1>18. d = DerOf(r, s)
  BY <1>3, <1>4, <1>6, <1>12, DerOfTagged
<1>. QED BY <1>12, <1>17, <1>18 DEF IsTagged

LEMMA SameLayout ==
  ASSUME NEW d \in Seq(Nat), NEW e \in Seq(Nat), NEW R, NEW S, NEW m \in Nat, NEW n \in Nat,
         IsLayout(d, R, S, m, n), IsLayout(e, R, S, m, n)
  PROVE  d = e
<1>1. PICK l \in Nat : l = 6 + m + n
  OBVIOUS
<1>2. d \in [1..l -> Nat] /\ e \in [1..l -> Nat]
  <2>1. Len(d) = l /\ Len(e) = l
    BY <1>1 DEF IsLayout
  <2>. QED BY <2>1
<1>3. ASSUME NEW i \in 1..l PROVE d[i] = e[i]
  <2>1. CASE i \in 1..4
    <3>1. i = 1 \/ i = 2 \/ i = 3 \/ i = 4
      BY <2>1
    <3>. QED BY <3>1 DEF IsLayout
  <2>2. CASE i > 4 /\ i <= 4 + m
    <3>1. i - 4 \in 1..m /\ 4 + (i - 4) = i
      BY <2>2
    <3>. QED BY <3>1 DEF IsLayout
  <2>3. CASE i = 5 + m \/ i = 6 + m
    BY <2>3 DEF IsLayout
  <2>4. CASE i > 6 + m
    <3>1. i - (6 + m) \in 1..n /\ 6 + m + (i - (6 + m)) = i
      BY <1>1, <2>4
    <3>. QED BY <3>1 DEF IsLayout
  <2>5. i \in 1..4 \/ (i > 4 /\ i <= 4 + m) \/ (i = 5 + m \/ i = 6 + m) \/ i > 6 + m
    BY <1>1
  <2>. QED BY <2>1, <2>2, <2>3, <2>4, <2>5
<1>. QED BY <1>2, <1>3

IsSlice(d, from, R, m) == \A i \in 1..m : d[from + i] = R[i]

LEMMA SliceIs ==
  ASSUME NEW d, NEW R \in Bytestring, NEW m \in Nat, m = Len(R), NEW from \in Nat,
         IsSlice(d, from, R, m)
  PROVE  SubSeq(d, from + 1, from + m) = R
<1>1. R \in [1..m -> Byte]
  BY DEF Bytestring
<1>2. SubSeq(d, from + 1, from + m) = [i \in 1..m |-> d[from + i]]
  <2>1. (1 + (from + m)) - (from + 1) = m
    OBVIOUS
  <2>2. \A i \in 1..m : (i + (from + 1)) - 1 = from + i
    OBVIOUS
  <2>. QED BY <2>1, <2>2
<1>. QED BY <1>1, <1>2 DEF IsSlice

\* What parse_der reads of such bytes.
LEMMA ParseLayout ==
  ASSUME NEW d \in Seq(Nat), NEW R \in Bytestring, NEW S \in Bytestring,
         NEW m \in Nat, NEW n \in Nat, m = Len(R), n = Len(S), IsLayout(d, R, S, m, n)
  PROVE  parse_der(d) = {[r |-> BigEndian(R), s |-> BigEndian(S)]}
<1>1. SubSeq(d, 5, 4 + m) = R
  <2>1. PICK from \in Nat : from = 4 /\ from + 1 = 5 /\ from + m = 4 + m
    OBVIOUS
  <2>2. IsSlice(d, from, R, m)
    BY <2>1 DEF IsLayout, IsSlice
  <2>3. SubSeq(d, from + 1, from + m) = R
    BY <2>1, <2>2, SliceIs
  <2>. QED BY <2>1, <2>3
<1>2. SubSeq(d, 7 + m, 6 + m + n) = S
  <2>1. PICK from \in Nat : from = 6 + m /\ from + 1 = 7 + m /\ from + n = 6 + m + n
    OBVIOUS
  <2>2. IsSlice(d, from, S, n)
    BY <2>1 DEF IsLayout, IsSlice
  <2>3. SubSeq(d, from + 1, from + n) = S
    BY <2>1, <2>2, SliceIs
  <2>. QED BY <2>1, <2>3
<1>3. /\ d[1] = SEQUENCE /\ d[3] = INTEGER
      /\ Len(d) = 6 + m + n /\ d[4] = m /\ d[5 + m] = INTEGER /\ d[6 + m] = n
  BY DEF IsLayout
<1>4. PICK at \in Nat : /\ at = 5 + m /\ at + 1 = 6 + m /\ at - 1 = 4 + m /\ at + 2 = 7 + m
                        /\ 6 + m + n = at + 1 + n
  <2>1. 5 + m \in Nat /\ 5 + m + 1 = 6 + m /\ 5 + m - 1 = 4 + m /\ 5 + m + 2 = 7 + m
    OBVIOUS
  <2>. QED BY <2>1
<1>5. ~(Len(d) < 6) /\ ~(at + 1 > Len(d)) /\ ~(at + 1 + n > Len(d))
  BY <1>3, <1>4
<1>6. SubSeq(d, 5, at - 1) = R /\ SubSeq(d, at + 2, at + 1 + n) = S
  BY <1>1, <1>2, <1>4
<1>7. 5 + d[4] = at /\ d[at] = INTEGER /\ d[at + 1] = n
  BY <1>3, <1>4
<1>. QED BY <1>3, <1>5, <1>6, <1>7, Zenon DEF parse_der

------------------------------------------------------------------------------
(* Strict encodings.                                                       *)

LEMMA MinimalIs ==
  ASSUME NEW b, NEW R \in Bytestring, NEW m \in Nat, m = Len(R), NEW from \in Nat,
         IsSlice(b, from, R, m), NEW at, at = from + 1
  PROVE  MinimalInteger(b, at, m) <=> Minimal(R)
<1>1. CASE m = 0
  BY <1>1 DEF MinimalInteger, Minimal
<1>2. CASE m = 1
  <2>1. 1 \in 1..m
    BY <1>2
  <2>2. b[at] = R[1]
    BY <2>1 DEF IsSlice
  <2>. QED BY <1>2, <2>2 DEF MinimalInteger, Minimal
<1>3. CASE m > 1
  <2>1. 1 \in 1..m /\ 2 \in 1..m /\ at + 1 = from + 2
    BY <1>3
  <2>2. b[at] = R[1] /\ b[at + 1] = R[2]
    BY <2>1 DEF IsSlice
  <2>. QED BY <1>3, <2>2 DEF MinimalInteger, Minimal
<1>. QED BY <1>1, <1>2, <1>3

\* What comes before the last byte.
IsBefore(d, b, l) ==
  Len(b) = l + 1 /\ Len(d) = l /\ \A i \in 1..l : b[i] = d[i]

LEMMA FrontIs ==
  ASSUME NEW V, NEW b \in Seq(V), NEW l \in Nat, Len(b) = l + 1
  PROVE  Front(b) \in Seq(V) /\ IsBefore(Front(b), b, l)
<1>1. PICK d : d = Front(b)
  OBVIOUS
<1>2. d = SubSeq(b, 1, l)
  BY <1>1 DEF Front
<1>3. d \in Seq(V) /\ Len(d) = l /\ \A i \in 1..l : d[i] = b[i]
  BY <1>2
<1>. QED BY <1>1, <1>3 DEF IsBefore

LEMMA LayoutValid ==
  ASSUME NEW b, NEW d, NEW l \in Nat, IsBefore(d, b, l),
         NEW R \in Bytestring, NEW S \in Bytestring, NEW m \in Nat, NEW n \in Nat,
         m = Len(R), n = Len(S), IsLayout(d, R, S, m, n)
  PROVE  Minimal(R) /\ Minimal(S) /\ Len(b) <= MAX_DER_SIZE => is_valid_der_encoding(b)
<1> SUFFICES ASSUME Minimal(R), Minimal(S), Len(b) <= MAX_DER_SIZE
             PROVE  is_valid_der_encoding(b)
  OBVIOUS
<1>1. l = 6 + m + n /\ Len(b) = 7 + m + n
  BY DEF IsBefore, IsLayout
<1>2. m >= 1 /\ n >= 1
  BY DEF Minimal
<1>3. \A i \in 1..l : b[i] = d[i]
  BY DEF IsBefore
<1>4. 1 \in 1..l /\ 2 \in 1..l /\ 3 \in 1..l /\ 4 \in 1..l /\ 5 + m \in 1..l /\ 6 + m \in 1..l
  BY <1>1
<1>5. /\ b[1] = SEQUENCE /\ b[2] = 4 + m + n /\ b[3] = INTEGER /\ b[4] = m
      /\ b[5 + m] = INTEGER /\ b[6 + m] = n
  BY <1>3, <1>4 DEF IsLayout
<1>6. MinimalInteger(b, 5, m)
  <2>1. PICK from \in Nat : from = 4 /\ 5 = from + 1
    OBVIOUS
  <2>2. IsSlice(b, from, R, m)
    <3> SUFFICES ASSUME NEW i \in 1..m PROVE b[4 + i] = R[i]
      BY <2>1 DEF IsSlice
    <3>1. 4 + i \in 1..l
      BY <1>1
    <3>. QED BY <1>3, <3>1 DEF IsLayout
  <2>. QED BY <2>1, <2>2, MinimalIs
<1>7. MinimalInteger(b, 7 + m, n)
  <2>1. PICK from \in Nat : from = 6 + m /\ 7 + m = from + 1
    OBVIOUS
  <2>2. IsSlice(b, from, S, n)
    <3> SUFFICES ASSUME NEW i \in 1..n PROVE b[6 + m + i] = S[i]
      BY <2>1 DEF IsSlice
    <3>1. 6 + m + i \in 1..l
      BY <1>1
    <3>. QED BY <1>3, <3>1 DEF IsLayout
  <2>. QED BY <2>1, <2>2, MinimalIs
<1>8. /\ 7 + m + n >= 9 /\ 4 + m + n = 7 + m + n - 3 /\ 5 + m < 7 + m + n
      /\ m + n + 7 = 7 + m + n
  BY <1>2
<1>. QED BY <1>1, <1>5, <1>6, <1>7, <1>8 DEF is_valid_der_encoding

LEMMA ValidLayout ==
  ASSUME NEW b \in Bytestring, NEW d \in Bytestring, NEW l \in Nat, IsBefore(d, b, l),
         is_valid_der_encoding(b)
  PROVE  \E R \in Bytestring, S \in Bytestring, m \in Nat, n \in Nat :
           /\ m = Len(R) /\ n = Len(S) /\ IsLayout(d, R, S, m, n)
           /\ Minimal(R) /\ Minimal(S) /\ Len(b) <= MAX_DER_SIZE
<1>1. Len(b) = l + 1 /\ Len(d) = l /\ \A i \in 1..l : b[i] = d[i]
  BY DEF IsBefore
<1>2. /\ Len(b) >= 9 /\ Len(b) <= MAX_DER_SIZE
      /\ b[1] = SEQUENCE /\ b[2] = Len(b) - 3
      /\ 5 + b[4] < Len(b)
      /\ b[4] + b[6 + b[4]] + 7 = Len(b)
      /\ b[3] = INTEGER /\ MinimalInteger(b, 5, b[4])
      /\ b[5 + b[4]] = INTEGER /\ MinimalInteger(b, 7 + b[4], b[6 + b[4]])
  BY Zenon DEF is_valid_der_encoding
<1>3. l >= 8
  BY <1>1, <1>2
<1>4. \A i \in 1..(l + 1) : b[i] \in Nat /\ b[i] \in Byte
  <2>1. Byte \subseteq Nat
    BY SerializeAssumption DEF Byte
  <2>2. b \in [1..(l + 1) -> Byte]
    BY <1>1 DEF Bytestring
  <2>. QED BY <2>1, <2>2
<1>5. PICK m \in Nat : m = b[4]
  <2>1. 4 \in 1..(l + 1)
    BY <1>3
  <2>. QED BY <1>4, <2>1
<1>6. PICK n \in Nat : n = b[6 + m]
  <2>1. 6 + m \in 1..(l + 1)
    BY <1>1, <1>2, <1>5
  <2>. QED BY <1>4, <2>1
<1>7. /\ m + n + 7 = l + 1 /\ b[2] = (l + 1) - 3
      /\ MinimalInteger(b, 5, m) /\ b[5 + m] = INTEGER /\ MinimalInteger(b, 7 + m, n)
  BY <1>1, <1>2, <1>5, <1>6
<1>8. l = 6 + m + n /\ b[2] = 4 + m + n
  BY <1>7
<1>9. m >= 1 /\ n >= 1
  BY <1>7 DEF MinimalInteger
<1>10. PICK R : R = [i \in 1..m |-> b[4 + i]]
  OBVIOUS
<1>11. PICK S : S = [i \in 1..n |-> b[6 + m + i]]
  OBVIOUS
<1>12. \A i \in 1..m : 4 + i \in 1..l /\ 4 + i \in 1..(l + 1)
  BY <1>8
<1>13. \A i \in 1..n : 6 + m + i \in 1..l /\ 6 + m + i \in 1..(l + 1)
  BY <1>8
<1>14. R \in [1..m -> Byte] /\ \A i \in 1..m : R[i] = b[4 + i]
  BY <1>4, <1>10, <1>12
<1>15. S \in [1..n -> Byte] /\ \A i \in 1..n : S[i] = b[6 + m + i]
  BY <1>4, <1>11, <1>13
<1>16. R \in Bytestring /\ S \in Bytestring /\ m = Len(R) /\ n = Len(S)
  BY <1>14, <1>15 DEF Bytestring
<1>17. Minimal(R)
  <2>1. PICK from \in Nat : from = 4 /\ 5 = from + 1
    OBVIOUS
  <2>2. IsSlice(b, from, R, m)
    BY <1>14, <2>1 DEF IsSlice
  <2>. QED BY <1>7, <1>16, <2>1, <2>2, MinimalIs
<1>18. Minimal(S)
  <2>1. PICK from \in Nat : from = 6 + m /\ 7 + m = from + 1
    OBVIOUS
  <2>2. IsSlice(b, from, S, n)
    BY <1>15, <2>1 DEF IsSlice
  <2>. QED BY <1>7, <1>16, <2>1, <2>2, MinimalIs
<1>19. IsLayout(d, R, S, m, n)
  <2>1. /\ 1 \in 1..l /\ 2 \in 1..l /\ 3 \in 1..l /\ 4 \in 1..l
        /\ 5 + m \in 1..l /\ 6 + m \in 1..l
    BY <1>8, <1>9
  <2>2. /\ Len(d) = 6 + m + n /\ d[1] = SEQUENCE /\ d[2] = 4 + m + n /\ d[3] = INTEGER
        /\ d[4] = m /\ d[5 + m] = INTEGER /\ d[6 + m] = n
    BY <1>1, <1>2, <1>5, <1>6, <1>7, <1>8, <2>1
  <2>3. \A i \in 1..m : d[4 + i] = R[i]
    BY <1>1, <1>12, <1>14
  <2>4. \A i \in 1..n : d[6 + m + i] = S[i]
    BY <1>1, <1>13, <1>15
  <2>. QED BY <2>2, <2>3, <2>4 DEF IsLayout
<1>. QED BY <1>2, <1>16, <1>17, <1>18, <1>19

LEMMA BigEndianType ==
  ASSUME NEW b \in Bytestring
  PROVE  BigEndian(b) \in Nat
<1>1. PICK n \in Nat : n = Len(b)
  BY DEF Bytestring
<1>2. PICK r \in Bytestring : r = Reverse(b) /\ Len(r) = n
  BY <1>1, ReverseIs
<1>3. r \in [1..n -> Byte]
  BY <1>2 DEF Bytestring
<1>4. from_bytes(r) \in Nat
  BY <1>3, BytesOfNumber
<1>. QED BY <1>2, <1>4 DEF BigEndian

LEMMA PartType ==
  ASSUME NEW b \in Bytestring, NEW x \in Nat, NEW y \in Int, x >= 1, y <= Len(b)
  PROVE  SubSeq(b, x, y) \in Bytestring
<1>1. PICK n \in Nat : n = Len(b)
  BY DEF Bytestring
<1>2. \A i \in x..y : i \in 1..n
  BY <1>1
<1>3. \A i \in x..y : b[i] \in Byte
  BY <1>1, <1>2 DEF Bytestring
<1>4. x \in Int /\ y \in Int
  OBVIOUS
<1>. HIDE DEF Byte
<1>. QED BY <1>3, <1>4, SubSeqProperties DEF Bytestring

\* parse_der reads at most two numbers.
LEMMA DerNumbers ==
  ASSUME NEW d \in Bytestring, NEW p \in parse_der(d)
  PROVE  /\ p.r \in Nat /\ p.s \in Nat /\ p = [r |-> p.r, s |-> p.s]
         /\ parse_der(d) = {p}
<1>1. PICK l \in Nat : l = Len(d) /\ d \in [1..l -> Byte]
  BY DEF Bytestring
<1>2. \A i \in 1..l : d[i] \in Nat
  <2>1. Byte \subseteq Nat
    BY SerializeAssumption DEF Byte
  <2>. QED BY <1>1, <2>1
<1>3. l >= 6
  <2>1. ~(Len(d) < 6)
    BY Zenon DEF parse_der
  <2>. QED BY <1>1, <2>1
<1>4. PICK at \in Nat : at = 5 + d[4] /\ at >= 5
  <2>1. 4 \in 1..l
    BY <1>3
  <2>2. d[4] \in Nat
    BY <1>2, <2>1
  <2>3. 5 + d[4] \in Nat /\ 5 + d[4] >= 5
    BY <2>2
  <2>. QED BY <2>3
<1>5. /\ ~(at + 1 > Len(d)) /\ ~(at + 1 + d[at + 1] > Len(d))
      /\ parse_der(d) = {[r |-> BigEndian(SubSeq(d, 5, at - 1)),
                          s |-> BigEndian(SubSeq(d, at + 2, at + 1 + d[at + 1]))]}
  BY <1>4, Zenon DEF parse_der
<1>6. PICK n \in Nat : n = d[at + 1]
  <2>1. at + 1 \in 1..l
    BY <1>1, <1>5
  <2>. QED BY <1>2, <2>1
<1>7. PICK R \in Bytestring : R = SubSeq(d, 5, at - 1)
  <2>1. 5 \in Nat /\ at - 1 \in Int /\ 5 >= 1 /\ at - 1 <= Len(d)
    BY <1>1, <1>5
  <2>. QED BY <2>1, PartType
<1>8. PICK S \in Bytestring : S = SubSeq(d, at + 2, at + 1 + n)
  <2>1. at + 2 \in Nat /\ at + 1 + n \in Int /\ at + 2 >= 1 /\ at + 1 + n <= Len(d)
    BY <1>1, <1>5, <1>6
  <2>. QED BY <2>1, PartType
<1>9. parse_der(d) = {[r |-> BigEndian(R), s |-> BigEndian(S)]}
  BY <1>5, <1>6, <1>7, <1>8
<1>10. PICK x \in Nat, y \in Nat : x = BigEndian(R) /\ y = BigEndian(S)
  BY BigEndianType
<1>11. parse_der(d) = {[r |-> x, s |-> y]}
  BY <1>9, <1>10
<1>12. p = [r |-> x, s |-> y]
  BY <1>11
<1>13. p.r = x /\ p.s = y
  BY <1>12
<1>. QED BY <1>10, <1>11, <1>12, <1>13

\* The bytes of two numbers are read as the two numbers.
LEMMA DerReads ==
  ASSUME NEW r \in Nat, NEW s \in Nat
  PROVE  DerOf(r, s) \in Seq(Nat) /\ parse_der(DerOf(r, s)) = {[r |-> r, s |-> s]}
<1>1. PICK R \in Bytestring, S \in Bytestring :
        R = Content(r) /\ S = Content(s) /\ BigEndian(R) = r /\ BigEndian(S) = s
  BY ContentIs
<1>2. PICK m \in Nat, n \in Nat : m = Len(R) /\ n = Len(S)
  BY LenProperties DEF Bytestring
<1>3. PICK d \in Seq(Nat) : d = DerOf(r, s) /\ IsLayout(d, R, S, m, n)
  BY <1>1, <1>2, DerOfIs
<1>4. parse_der(d) = {[r |-> BigEndian(R), s |-> BigEndian(S)]}
  BY <1>2, <1>3, ParseLayout
<1>. QED BY <1>1, <1>3, <1>4

IsDer(d, p) == d = DerOf(p.r, p.s)

\* What is_valid_der_encoding passes is what DerOf writes, and nothing else.
LEMMA StrictIsDer ==
  ASSUME NEW b \in Bytestring, b # << >>
  PROVE  is_valid_der_encoding(b) <=>
           /\ Len(b) <= MAX_DER_SIZE
           /\ \E p \in parse_der(Front(b)) : IsDer(Front(b), p)
<1>1. PICK l \in Nat : Len(b) = l + 1
  <2>1. Len(b) \in Nat /\ Len(b) # 0
    BY DEF Bytestring
  <2>2. Len(b) - 1 \in Nat /\ Len(b) = Len(b) - 1 + 1
    BY <2>1
  <2>. QED BY <2>2
<1>2. PICK d \in Bytestring : d = Front(b) /\ IsBefore(d, b, l)
  BY <1>1, FrontIs DEF Bytestring
<1>3. d \in Seq(Nat)
  BY <1>2, BytesAreNumbers
<1>4. ASSUME is_valid_der_encoding(b)
      PROVE  Len(b) <= MAX_DER_SIZE /\ \E p \in parse_der(d) : IsDer(d, p)
  <2>1. PICK R \in Bytestring, S \in Bytestring, m \in Nat, n \in Nat :
          /\ m = Len(R) /\ n = Len(S) /\ IsLayout(d, R, S, m, n)
          /\ Minimal(R) /\ Minimal(S) /\ Len(b) <= MAX_DER_SIZE
    BY <1>2, <1>4, ValidLayout
  <2>2. PICK r \in Nat, s \in Nat : r = BigEndian(R) /\ s = BigEndian(S)
    BY BigEndianType
  <2>3. R = Content(r) /\ S = Content(s)
    BY <2>1, <2>2, ContentOnly
  <2>4. PICK e \in Seq(Nat) : e = DerOf(r, s) /\ IsLayout(e, R, S, m, n)
    BY <2>1, <2>3, DerOfIs
  <2>5. d = e
    BY <1>3, <2>1, <2>4, SameLayout
  <2>6. parse_der(d) = {[r |-> BigEndian(R), s |-> BigEndian(S)]}
    BY <1>3, <2>1, ParseLayout
  <2>7. PICK p : p = [r |-> r, s |-> s] /\ p.r = r /\ p.s = s
    <3>1. [r |-> r, s |-> s].r = r /\ [r |-> r, s |-> s].s = s
      OBVIOUS
    <3>. QED BY <3>1
  <2>8. p \in parse_der(d) /\ IsDer(d, p)
    BY <2>2, <2>4, <2>5, <2>6, <2>7 DEF IsDer
  <2>. QED BY <2>1, <2>8
<1>5. ASSUME Len(b) <= MAX_DER_SIZE, NEW p \in parse_der(d), IsDer(d, p)
      PROVE  is_valid_der_encoding(b)
  <2>1. PICK r \in Nat, s \in Nat : r = p.r /\ s = p.s
    BY <1>2, DerNumbers
  <2>2. d = DerOf(r, s)
    BY <1>5, <2>1 DEF IsDer
  <2>3. PICK R \in Bytestring, S \in Bytestring :
          R = Content(r) /\ S = Content(s) /\ Minimal(R) /\ Minimal(S)
    BY ContentIs
  <2>4. PICK m \in Nat, n \in Nat : m = Len(R) /\ n = Len(S)
    BY LenProperties DEF Bytestring
  <2>5. IsLayout(d, R, S, m, n)
    BY <2>2, <2>3, <2>4, DerOfIs
  <2>. QED BY <1>2, <1>5, <2>3, <2>4, <2>5, LayoutValid
<1>. QED BY <1>2, <1>4, <1>5, Zenon

------------------------------------------------------------------------------
(* Low and high s.                                                         *)

LEMMA LowIs ==
  ASSUME NEW b, NEW d, NEW p, b # << >>, d = Front(b), parse_der(d) = {p}
  PROVE  is_low_s(b) <=> p.s <= SECP256K1_ORDER \div 2
BY DEF is_low_s

LEMMA OneIsLow ==
  ASSUME NEW b \in Bytestring, b # << >>, NEW p \in parse_der(Front(b)),
         p.s \in 1..(SECP256K1_ORDER - 1)
  PROVE  is_low_s(b) # is_low_s(DerOf(p.r, SECP256K1_ORDER - p.s) \o <<1>>)
<1>1. PICK N \in Nat, h \in Nat : N = SECP256K1_ORDER /\ h = N \div 2 /\ N = 2 * h + 1
  <2>1. PICK N \in Nat : N = SECP256K1_ORDER /\ N % 2 = 1
    BY DerAssumption
  <2>2. N \div 2 \in Nat /\ N = 2 * (N \div 2) + 1
    BY <2>1
  <2>. QED BY <2>1, <2>2
<1>2. PICK l \in Nat : Len(b) = l + 1
  <2>1. Len(b) \in Nat /\ Len(b) # 0
    BY DEF Bytestring
  <2>2. Len(b) - 1 \in Nat /\ Len(b) = Len(b) - 1 + 1
    BY <2>1
  <2>. QED BY <2>2
<1>3. PICK d \in Bytestring : d = Front(b)
  BY <1>2, FrontIs DEF Bytestring
<1>4. /\ p.r \in Nat /\ p.s \in Nat /\ parse_der(d) = {p}
  BY <1>3, DerNumbers
<1>5. PICK r \in Nat, s \in Nat, t \in Nat :
        r = p.r /\ s = p.s /\ t = SECP256K1_ORDER - p.s /\ t = N - s /\ s <= N
  <2>1. SECP256K1_ORDER - p.s \in Nat /\ p.s <= N
    BY <1>1, <1>4
  <2>. QED BY <1>1, <1>4, <2>1
<1>6. is_low_s(b) <=> s <= h
  BY <1>1, <1>3, <1>4, <1>5, LowIs
<1>7. PICK e \in Seq(Nat) : e = DerOf(r, t) /\ parse_der(e) = {[r |-> r, s |-> t]}
  BY DerReads
<1>8. PICK c : c = e \o <<1>>
  OBVIOUS
<1>9. PICK k \in Nat : k = Len(e)
  BY LenProperties
<1>10. c \in Seq(Nat) /\ Len(c) = k + 1 /\ \A i \in 1..k : c[i] = e[i]
  <2>1. PICK o \in Seq(Nat) : o = <<1>> /\ Len(o) = 1
    <3>1. <<1>> \in Seq(Nat) /\ Len(<<1>>) = 1
      OBVIOUS
    <3>. QED BY <3>1
  <2>2. 1 \in Nat
    OBVIOUS
  <2>3. c \in Seq(Nat) /\ IsJoin(e, o, k, 1, c)
    BY <1>8, <1>9, <2>1, <2>2, Joined, Zenon
  <2>4. \A i \in 1..k : i \in 1..(k + 1) /\ i <= k
    OBVIOUS
  <2>. QED BY <2>3, <2>4 DEF IsJoin
<1>11. c # << >>
  BY <1>10
<1>12. Front(c) = e
  <2>1. PICK f \in Seq(Nat) : f = Front(c) /\ IsBefore(f, c, k)
    BY <1>10, FrontIs
  <2>2. Len(f) = k /\ \A i \in 1..k : f[i] = e[i]
    BY <1>10, <2>1 DEF IsBefore
  <2>3. f \in [1..k -> Nat] /\ e \in [1..k -> Nat]
    BY <1>9, <2>2
  <2>4. f = e
    BY <2>2, <2>3
  <2>. QED BY <2>1, <2>4
<1>13. PICK q : q = [r |-> r, s |-> t] /\ q.s = t
  <2>1. [r |-> r, s |-> t].s = t
    OBVIOUS
  <2>. QED BY <2>1
<1>14. is_low_s(c) <=> t <= h
  BY <1>1, <1>7, <1>11, <1>12, <1>13, LowIs
<1>15. t <= h <=> ~(s <= h)
  <2>1. N = 2 * h + 1 /\ N \in Nat /\ h \in Nat
    BY <1>1, Zenon
  <2>2. t = N - s /\ t \in Nat /\ s \in Nat
    BY <1>5, Zenon
  <2>. QED BY <2>1, <2>2
<1>16. is_low_s(b) \in BOOLEAN /\ is_low_s(c) \in BOOLEAN
  BY DEF is_low_s
<1>17. is_low_s(b) # is_low_s(c)
  <2>1. is_low_s(b) <=> ~is_low_s(c)
    BY <1>6, <1>14, <1>15, Zenon
  <2>. QED BY <1>16, <2>1, Zenon
<1>18. c = DerOf(p.r, SECP256K1_ORDER - p.s) \o <<1>>
  BY <1>5, <1>7, <1>8
<1>. QED BY <1>17, <1>18

\* A signature has one encoding: is_valid_der_encoding passes, up to its size,
\* exactly the bytes that the numbers parse_der reads of them are written as; and
\* of s and its negative is_low_s passes one.  Of the order of the curve this
\* takes no more than that it is odd.
THEOREM SignaturesAreCanonical == WireSpec => []DerIsCanonical
<1>1. BytesOnTheirWay => DerIsCanonical
  <2> SUFFICES ASSUME bytes \in Bytestring, bytes # << >>
               PROVE  LET der == Front(bytes)
                      IN  /\ is_valid_der_encoding(bytes) <=>
                               /\ Len(bytes) <= MAX_DER_SIZE
                               /\ \E p \in parse_der(der) : der = DerOf(p.r, p.s)
                          /\ \A p \in parse_der(der) :
                               p.s \in 1..(SECP256K1_ORDER - 1) =>
                                 is_low_s(bytes) # is_low_s(DerOf(p.r, SECP256K1_ORDER - p.s) \o <<1>>)
    BY Zenon DEF BytesOnTheirWay, DerIsCanonical
  <2>1. is_valid_der_encoding(bytes) <=>
          /\ Len(bytes) <= MAX_DER_SIZE
          /\ \E p \in parse_der(Front(bytes)) : Front(bytes) = DerOf(p.r, p.s)
    BY StrictIsDer, Zenon DEF IsDer
  <2>2. ASSUME NEW p \in parse_der(Front(bytes)), p.s \in 1..(SECP256K1_ORDER - 1)
        PROVE  is_low_s(bytes) # is_low_s(DerOf(p.r, SECP256K1_ORDER - p.s) \o <<1>>)
    BY <2>2, OneIsLow, Zenon
  <2>. QED BY <2>1, <2>2, Zenon
<1>. QED BY <1>1, EditsAreBytes, PTL
==============================================================================
