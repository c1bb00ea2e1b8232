------------------------------ MODULE ScriptProofs ------------------------------
(***************************************************************************)
(* Proofs about scripts.  The parser ends on every string of bytes and     *)
(* yields operations as the interpreter's types allow them; written out    *)
(* again they are those bytes, op_length meets the same boundaries, and    *)
(* find_and_delete removes whole operations.  Then the two scripts that    *)
(* verify itself knows, the output of a P2SH spend and the script that a   *)
(* version 0 key hash stands for: turn by turn an evaluation of either     *)
(* leaves true only above the item that it holds the hash of; the script   *)
(* of a key hash, only when the signature verifies as well.                *)
(***************************************************************************)
EXTENDS VerifyProperties, ScriptEvalProofs, ScriptWalks

------------------------------------------------------------------------------
(* What the parser yields.  Parse is a recursive function over the offsets  *)
(* of a script; that there is one, and what it returns, is shown for ever   *)
(* longer rests of the script.                                              *)

\* Scripts as the interpreter's inputs are assumed to be.
Parsed == {s \in Script : \A k \in DOMAIN s.ops : ParsedOp(s.ops[k])}

\* One operation before those of a rest.
Prepend(op, rest) == [rest EXCEPT !.ops = <<op>> \o @]

\* One turn of the parser at offset i, where f holds what the rests parse to.
ParseStep(b, f, i) ==
  IF i > Len(b) THEN [ops |-> << >>, tail |-> 0]
  ELSE LET next == i + ParsedSize(b, i)
           first == i + 1 + LengthBytes(b[i])
       IN  IF next > Len(b) + 1
             THEN [ops |-> << >>, tail |-> Len(b) + 1 - i]
           ELSE Prepend([opcode |-> b[i], data |-> SubSeq(b, first, next - 1)], f[next])

ParseFrom(b) == CHOOSE f : f = [i \in 1..(Len(b) + 1) |-> ParseStep(b, f, i)]

LEMMA ParseIs == ASSUME NEW b PROVE Parse(b) = ParseFrom(b)[1]
BY DEF Parse, ParseFrom, ParseStep, Prepend

\* A length field of one byte at most is that byte.
LEMMA LittleEndianIs ==
  ASSUME NEW b, NEW i \in Nat, NEW n \in {0, 1, 2, 4},
         \A k \in i..(i + n - 1) : b[k] \in 0..255
  PROVE  /\ LittleEndian(b, i, n) \in Nat
         /\ n = 0 => LittleEndian(b, i, n) = 0
         /\ n = 1 => LittleEndian(b, i, n) <= 255
<1> DEFINE A(k) == IF k < n THEN b[i + k] ELSE 0
           p == A(0)
           q == A(1)
           r == A(2)
           s == A(3)
<1>1. \A k \in 0..3 : A(k) \in 0..255
  <2> TAKE k \in 0..3
  <2>1. k < n => i + k \in i..(i + n - 1)
    OBVIOUS
  <2>. QED BY <2>1
<1>2. LittleEndian(b, i, n) = p + 256 * q + 65536 * r + 16777216 * s
  BY DEF LittleEndian
<1>3. p \in 0..255 /\ q \in 0..255 /\ r \in 0..255 /\ s \in 0..255
  BY <1>1
<1>4. /\ n \in {0, 1} => q = 0 /\ r = 0 /\ s = 0
      /\ n = 0 => p = 0
  OBVIOUS
<1> HIDE DEF p, q, r, s
<1>. QED BY <1>2, <1>3, <1>4

LEMMA LengthBytesIs ==
  ASSUME NEW v \in 0..255
  PROVE  /\ LengthBytes(v) \in {0, 1, 2, 4}
         /\ v < 76 \/ v > 78 => LengthBytes(v) = 0
         /\ v = 76 => LengthBytes(v) = 1
BY DEF LengthBytes, OP_PUSHDATA1, OP_PUSHDATA2, OP_PUSHDATA4

LEMMA DataLengthIs ==
  ASSUME NEW b, NEW i \in Nat, NEW v \in 0..255, b[i] = v,
         \A k \in (i + 1)..(i + LengthBytes(v)) : b[k] \in 0..255
  PROVE  /\ DataLength(b, i) \in Nat
         /\ v < 76 => DataLength(b, i) = v
         /\ v = 76 => DataLength(b, i) <= 255
         /\ v > 78 => DataLength(b, i) = 0
<1>1. CASE v < 76
  BY <1>1 DEF DataLength, OP_PUSHDATA1
<1>2. CASE ~(v < 76)
  <2>1. PICK n \in {0, 1, 2, 4} : n = LengthBytes(v)
    BY LengthBytesIs
  <2>2. DataLength(b, i) = LittleEndian(b, i + 1, n)
    BY <1>2, <2>1 DEF DataLength, OP_PUSHDATA1
  <2>3. \A k \in (i + 1)..(i + 1 + n - 1) : b[k] \in 0..255
    BY <2>1
  <2>4. /\ LittleEndian(b, i + 1, n) \in Nat
        /\ n = 0 => LittleEndian(b, i + 1, n) = 0
        /\ n = 1 => LittleEndian(b, i + 1, n) <= 255
    BY <2>3, LittleEndianIs
  <2>5. (v = 76 => n = 1) /\ (v > 78 => n = 0)
    BY <2>1, LengthBytesIs
  <2>. QED BY <1>2, <2>2, <2>4, <2>5
<1>. QED BY <1>1, <1>2

\* An offset in a script, with room for d bytes of data after the opcode.
Offset(b, i, d) == b \in Item /\ i \in 1..Len(b) /\ d \in Nat /\ i + d <= Len(b)

LEMMA OffsetIs ==
  ASSUME NEW b \in Item
  PROVE  /\ Len(b) \in Nat
         /\ \A i \in 1..Len(b) : i \in Nat /\ b[i] \in 0..255 /\ Offset(b, i, 0)
<1>1. b \in Seq(Byte) /\ Len(b) \in Nat
  BY LenProperties DEF Item
<1>2. \A k \in 1..Len(b) : b[k] \in 0..255
  BY <1>1, ElementOfSeq DEF Byte
<1>. QED BY <1>1, <1>2 DEF Offset

\* An operation takes at least its opcode, and its data are what is announced.
Announced(b, i, v, l, d) ==
  /\ b[i] = v /\ LengthBytes(v) = l /\ DataLength(b, i) = d
  /\ ParsedSize(b, i) = 1 + l + d
  /\ v < 76 => d = v
  /\ v = 76 => d <= 255
  /\ v > 78 => d = 0

LEMMA ParsedSizeIs ==
  ASSUME NEW b, NEW i, Offset(b, i, 0)
  PROVE  \E size \in Nat \ {0} :
           /\ ParsedSize(b, i) = size
           /\ i + size <= Len(b) + 1 =>
                \E v \in 0..255, l \in Nat, d \in Nat : Announced(b, i, v, l, d)
<1>1. PICK n : n = Len(b)
  OBVIOUS
<1>2. n \in Nat /\ (\A k \in 1..n : b[k] \in 0..255) /\ i \in 1..n
  BY <1>1, OffsetIs DEF Offset
<1>3. PICK v \in 0..255 : b[i] = v
  BY <1>2
<1>4. PICK l \in {0, 1, 2, 4} : l = LengthBytes(v)
  BY LengthBytesIs
<1>5. CASE i + l > n
  <2>1. ParsedSize(b, i) = n + 1
    BY <1>1, <1>3, <1>4, <1>5, Zenon DEF ParsedSize
  <2>2. n + 1 \in Nat \ {0} /\ ~(i + (n + 1) <= n + 1)
    BY <1>2
  <2>. QED BY <1>1, <2>1, <2>2, Zenon
<1>6. CASE ~(i + l > n)
  <2>1. \A k \in (i + 1)..(i + l) : b[k] \in 0..255
    BY <1>2, <1>6
  <2>2. PICK d \in Nat :
          /\ d = DataLength(b, i)
          /\ v < 76 => d = v
          /\ v = 76 => d <= 255
          /\ v > 78 => d = 0
    <3>1. i \in Nat
      BY <1>2
    <3>2. \A k \in (i + 1)..(i + LengthBytes(v)) : b[k] \in 0..255
      BY <1>4, <2>1, Zenon
    <3>3. /\ DataLength(b, i) \in Nat
          /\ v < 76 => DataLength(b, i) = v
          /\ v = 76 => DataLength(b, i) <= 255
          /\ v > 78 => DataLength(b, i) = 0
      BY <1>3, <3>1, <3>2, DataLengthIs, Zenon
    <3>. QED BY <3>3, Zenon
  <2>3. ParsedSize(b, i) = 1 + l + d
    <3>1. LengthBytes(b[i]) = l
      BY <1>3, <1>4, Zenon
    <3>2. ParsedSize(b, i) = IF i + l > n THEN n + 1 ELSE 1 + l + d
      BY <1>1, <2>2, <3>1, Zenon DEF ParsedSize
    <3>. QED BY <1>6, <3>2, Zenon
  <2>4. Announced(b, i, v, l, d)
    <3>1. b[i] = v /\ LengthBytes(v) = l /\ DataLength(b, i) = d
      BY <1>3, <1>4, <2>2, Zenon
    <3>. QED BY <2>2, <2>3, <3>1, Zenon DEF Announced
  <2>5. 1 + l + d \in Nat \ {0} /\ l \in Nat
    OBVIOUS
  <2>. QED BY <2>3, <2>4, <2>5, Zenon
<1>. QED BY <1>5, <1>6

\* One operation before what is parsed after it.
LEMMA ParseOne ==
  ASSUME NEW op \in ScriptOp, ParsedOp(op), NEW s \in Parsed
  PROVE  Prepend(op, s) \in Parsed
<1>1. s = [ops |-> s.ops, tail |-> s.tail] /\ s.ops \in Seq(ScriptOp) /\ s.tail \in Nat
  BY DEF Parsed, Script
<1>2. <<op>> \in Seq(ScriptOp) /\ Len(<<op>>) = 1 /\ <<op>>[1] = op
  OBVIOUS
<1> DEFINE ops == <<op>> \o s.ops
<1>3. /\ ops \in Seq(ScriptOp) /\ Len(ops) = 1 + Len(s.ops)
      /\ \A k \in 1..Len(ops) : ops[k] = IF k <= 1 THEN op ELSE s.ops[k - 1]
  BY <1>1, <1>2, ConcatProperties
<1>4. \A k \in DOMAIN ops : ParsedOp(ops[k])
  <2> SUFFICES ASSUME NEW k \in DOMAIN ops PROVE ParsedOp(ops[k])
    OBVIOUS
  <2>1. k \in 1..Len(ops)
    BY <1>3, LenProperties
  <2>2. CASE k <= 1
    BY <1>3, <2>1, <2>2
  <2>3. CASE ~(k <= 1)
    <3>1. k - 1 \in DOMAIN s.ops /\ ops[k] = s.ops[k - 1]
      BY <1>1, <1>3, <2>1, <2>3, LenProperties
    <3>. QED BY <3>1 DEF Parsed
  <2>. QED BY <2>2, <2>3
<1>5. Prepend(op, s) = [ops |-> ops, tail |-> s.tail]
  <2>1. PICK os : os = ops
    OBVIOUS
  <2>2. [s EXCEPT !.ops = os] = [ops |-> os, tail |-> s.tail]
    BY <1>1
  <2>. QED BY <2>1, <2>2 DEF Prepend
<1>. HIDE DEF ops
<1>6. [ops |-> ops, tail |-> s.tail] \in Parsed
  BY <1>1, <1>3, <1>4 DEF Parsed, Script
<1>. QED BY <1>5, <1>6

LEMMA AnnouncedOp ==
  ASSUME NEW v \in 0..255, NEW d \in Nat, NEW data \in Seq(Byte), Len(data) = d,
         v < 76 => d = v, v = 76 => d <= 255, v > 78 => d = 0,
         NEW op, op = [opcode |-> v, data |-> data]
  PROVE  op \in ScriptOp /\ ParsedOp(op)
<1>1. op \in ScriptOp
  BY DEF ScriptOp, Opcode, Item
<1>2. d = 0 => data = << >>
  BY EmptySeq
<1>3. op.opcode = v /\ op.data = data
  OBVIOUS
<1>4. CASE v < 76
  BY <1>1, <1>3, <1>4 DEF ParsedOp, OP_PUSHDATA1
<1>5. CASE v = 76
  BY <1>1, <1>3, <1>5 DEF ParsedOp, OP_PUSHDATA1
<1>6. CASE v \in {77, 78}
  BY <1>1, <1>3, <1>6 DEF ParsedOp, OP_PUSHDATA2, OP_PUSHDATA4
<1>7. CASE v > 78
  BY <1>1, <1>2, <1>3, <1>7 DEF ParsedOp, OP_PUSHDATA4
<1>. QED BY <1>4, <1>5, <1>6, <1>7

\* One turn of the parser yields parsed operations if the later ones did.
LEMMA ParseTurn ==
  ASSUME NEW b \in Item, NEW i \in 1..(Len(b) + 1), NEW f,
         \A j \in (i + 1)..(Len(b) + 1) : f[j] \in Parsed
  PROVE  ParseStep(b, f, i) \in Parsed
<1>1. b \in Seq(Byte) /\ Len(b) \in Nat
  BY LenProperties DEF Item
<1> DEFINE Nothing(t) == [ops |-> << >>, tail |-> t]
<1>2. \A t \in Nat : Nothing(t) \in Parsed
  <2> TAKE t \in Nat
  <2>1. << >> \in Seq(ScriptOp) /\ DOMAIN << >> = {}
    OBVIOUS
  <2>. QED BY <2>1 DEF Parsed, Script
<1>3. CASE i > Len(b)
  <2>1. ParseStep(b, f, i) = Nothing(0)
    BY <1>3 DEF ParseStep
  <2>. QED BY <1>2, <2>1
<1>4. CASE ~(i > Len(b)) /\ i + ParsedSize(b, i) > Len(b) + 1
  <2>1. ParseStep(b, f, i) = Nothing(Len(b) + 1 - i)
    BY <1>4 DEF ParseStep
  <2>. QED BY <1>1, <1>2, <1>4, <2>1
<1>5. CASE ~(i > Len(b)) /\ ~(i + ParsedSize(b, i) > Len(b) + 1)
  <2>1. PICK n \in Nat : n = Len(b) /\ (\A k \in 1..n : b[k] \in Byte)
    BY <1>1
  <2>2. i \in 1..n
    BY <1>5, <2>1
  <2>3. PICK v \in 0..255, l \in Nat, d \in Nat :
          Announced(b, i, v, l, d) /\ i + (1 + l + d) <= n + 1
    <3>1. PICK size \in Nat \ {0} :
            /\ ParsedSize(b, i) = size
            /\ i + size <= Len(b) + 1 =>
                 \E v \in 0..255, l \in Nat, d \in Nat : Announced(b, i, v, l, d)
      BY <2>1, <2>2, OffsetIs, ParsedSizeIs
    <3>2. i + size <= n + 1
      BY <1>5, <2>1, <2>2, <3>1
    <3>. QED BY <2>1, <3>1, <3>2 DEF Announced
  <2> DEFINE next == i + (1 + l + d)
             first == i + 1 + l
             data == SubSeq(b, first, next - 1)
             op == [opcode |-> v, data |-> data]
  <2>4. /\ first \in Int /\ next - 1 \in Int /\ next \in (i + 1)..(n + 1)
        /\ first..(next - 1) \subseteq 1..n
        /\ (IF first <= next - 1 THEN next - 1 - first + 1 ELSE 0) = d
    BY <2>2, <2>3
  <2>5. data \in Seq(Byte) /\ Len(data) = d
    <3>1. \A k \in first..(next - 1) : b[k] \in Byte
      BY <2>1, <2>4
    <3>. HIDE DEF first, next
    <3>. QED BY <2>4, <3>1, SubSeqProperties
  <2>6. op \in ScriptOp /\ ParsedOp(op)
    <3>. HIDE DEF data
    <3>. QED BY <2>3, <2>5, AnnouncedOp DEF Announced
  <2>7. ParseStep(b, f, i) = Prepend(op, f[next])
    BY <1>5, <2>3 DEF ParseStep, Announced
  <2>. HIDE DEF op, next
  <2>8. f[next] \in Parsed
    BY <2>1, <2>4
  <2>. QED BY <2>6, <2>7, <2>8, ParseOne
<1>. QED BY <1>3, <1>4, <1>5

\* It looks at later offsets only.
LEMMA ParseLooksAhead ==
  ASSUME NEW b \in Item, NEW i \in 1..(Len(b) + 1), NEW f, NEW g,
         \A j \in (i + 1)..(Len(b) + 1) : f[j] = g[j]
  PROVE  ParseStep(b, f, i) = ParseStep(b, g, i)
<1>1. Len(b) \in Nat
  BY LenProperties DEF Item
<1>2. CASE i > Len(b) \/ i + ParsedSize(b, i) > Len(b) + 1
  BY <1>2 DEF ParseStep
<1>3. CASE ~(i > Len(b) \/ i + ParsedSize(b, i) > Len(b) + 1)
  <2>1. ParsedSize(b, i) \in Nat \ {0}
    BY <1>1, <1>3, OffsetIs, ParsedSizeIs
  <2>2. i + ParsedSize(b, i) \in (i + 1)..(Len(b) + 1)
    BY <1>1, <1>3, <2>1
  <2>3. f[i + ParsedSize(b, i)] = g[i + ParsedSize(b, i)]
    BY <2>2
  <2>. QED BY <2>3 DEF ParseStep
<1>. QED BY <1>2, <1>3

\* The parser ends on every script.
LEMMA ParseExists ==
  ASSUME NEW b \in Item
  PROVE  /\ ParseFrom(b) \in [1..(Len(b) + 1) -> Parsed]
         /\ \A i \in 1..(Len(b) + 1) : ParseFrom(b)[i] = ParseStep(b, ParseFrom(b), i)
<1> DEFINE end == Len(b) + 1
           ParsesTail(m, f) == /\ f \in [(end - m)..end -> Parsed]
                         /\ \A i \in (end - m)..end : f[i] = ParseStep(b, f, i)
           T == {m \in 0..Len(b) : ~\E f : ParsesTail(m, f)}
<1>1. Len(b) \in Nat
  BY LenProperties DEF Item
<1>2. ASSUME NEW m \in 0..Len(b), NEW g, m = 0 \/ ParsesTail(m - 1, g)
      PROVE  \E f : ParsesTail(m, f)
  <2> DEFINE k == end - m
             f == [i \in k..end |-> IF i = k THEN ParseStep(b, g, k) ELSE g[i]]
  <2>1. k \in 1..end
    BY <1>1
  <2>2. m # 0 => end - (m - 1) = k + 1
    BY <1>1
  <2>3. \A j \in (k + 1)..end : g[j] \in Parsed /\ g[j] = ParseStep(b, g, j) /\ f[j] = g[j]
    <3> TAKE j \in (k + 1)..end
    <3>1. j \in k..end /\ j # k
      BY <1>1, <2>1
    <3>2. m # 0
      BY <1>1
    <3>3. g \in [(k + 1)..end -> Parsed] /\ g[j] = ParseStep(b, g, j)
      BY <1>2, <2>2, <3>2
    <3>4. f[j] = g[j]
      BY <3>1
    <3>. QED BY <3>3, <3>4
  <2>4. ParseStep(b, g, k) \in Parsed
    BY <2>1, <2>3, ParseTurn
  <2>5. f \in [k..end -> Parsed]
    <3>1. ASSUME NEW j \in k..end PROVE f[j] \in Parsed
      <4>1. j = k \/ j \in (k + 1)..end
        BY <1>1, <2>1
      <4>2. CASE j = k
        BY <2>4, <4>2
      <4>3. CASE j \in (k + 1)..end
        BY <2>3, <4>3
      <4>. QED BY <4>1, <4>2, <4>3
    <3>. QED BY <3>1
  <2>6. f[k] = ParseStep(b, g, k)
    BY <1>1, <2>1
  <2>7. ASSUME NEW i \in k..end PROVE f[i] = ParseStep(b, f, i)
    <3>1. i \in 1..end
      BY <1>1, <2>1
    <3>2. \A j \in (i + 1)..end : f[j] = g[j]
      <4> TAKE j \in (i + 1)..end
      <4>1. j \in (k + 1)..end
        BY <1>1, <2>1
      <4>. QED BY <2>3, <4>1
    <3>3. ParseStep(b, f, i) = ParseStep(b, g, i)
      <4>. HIDE DEF f, k
      <4>. QED BY <3>1, <3>2, ParseLooksAhead
    <3>4. f[i] = ParseStep(b, g, i)
      <4>1. i = k \/ i \in (k + 1)..end
        BY <1>1, <2>1
      <4>. HIDE DEF f, k
      <4>. QED BY <2>3, <2>6, <4>1
    <3>. QED BY <3>3, <3>4
  <2>8. ParsesTail(m, f)
    BY <2>5, <2>7
  <2>. QED BY <2>8
<1>3. T = {}
  <2> SUFFICES ASSUME T # {} PROVE FALSE
    OBVIOUS
  <2>1. T \in SUBSET Nat
    BY <1>1
  <2>2. PICK m \in T : \A k \in T : m <= k
    <3>. HIDE DEF T
    <3>. QED BY <2>1, LeastOf
  <2>3. m \in 0..Len(b) /\ ~\E f : ParsesTail(m, f)
    BY <2>2
  <2>4. m # 0 => m - 1 \in 0..Len(b) /\ m - 1 \notin T
    <3>1. m # 0 => m - 1 \in 0..Len(b) /\ ~(m <= m - 1)
      BY <1>1, <2>3
    <3>. HIDE DEF T
    <3>. QED BY <2>2, <3>1
  <2>5. m # 0 => \E g : ParsesTail(m - 1, g)
    BY <2>4
  <2>. HIDE DEF ParsesTail, T
  <2>6. \E g : m = 0 \/ ParsesTail(m - 1, g)
    BY <2>5
  <2>. QED BY <1>2, <2>3, <2>6
<1>4. Len(b) \in 0..Len(b) /\ end - Len(b) = 1
  BY <1>1
<1>5. PICK f : ParsesTail(Len(b), f)
  BY <1>3, <1>4
<1>6. f = [i \in 1..end |-> ParseStep(b, f, i)]
  BY <1>4, <1>5
<1>7. ParseFrom(b) = [i \in 1..end |-> ParseStep(b, ParseFrom(b), i)]
  BY <1>6 DEF ParseFrom
<1>. HIDE DEF ParsesTail
<1>8. \A i \in 1..end : ParseFrom(b)[i] = ParseStep(b, ParseFrom(b), i)
  BY <1>7
<1>9. DOMAIN ParseFrom(b) = 1..end
  BY <1>7
<1> DEFINE U == {m \in 0..Len(b) : ParseFrom(b)[end - m] \notin Parsed}
<1>10. U = {}
  <2> SUFFICES ASSUME U # {} PROVE FALSE
    OBVIOUS
  <2>1. U \in SUBSET Nat
    BY <1>1
  <2>2. PICK m \in U : \A k \in U : m <= k
    <3>. HIDE DEF U
    <3>. QED BY <2>1, LeastOf
  <2>3. m \in 0..Len(b) /\ ParseFrom(b)[end - m] \notin Parsed /\ end - m \in 1..end
    BY <1>1, <2>2
  <2>4. \A j \in (end - m + 1)..end : ParseFrom(b)[j] \in Parsed
    <3> TAKE j \in (end - m + 1)..end
    <3>1. end - j \in 0..Len(b) /\ end - j < m /\ end - (end - j) = j
      BY <1>1, <2>3
    <3>2. end - j \notin U
      BY <1>1, <2>2, <2>3, <3>1
    <3>. QED BY <3>1, <3>2
  <2>. HIDE DEF U, end
  <2>5. ParseStep(b, ParseFrom(b), end - m) \in Parsed
    BY <2>3, <2>4, ParseTurn DEF end
  <2>. QED BY <1>8, <2>3, <2>5
<1>11. \A i \in 1..end : ParseFrom(b)[i] \in Parsed
  <2> TAKE i \in 1..end
  <2>1. end - i \in 0..Len(b) /\ end - (end - i) = i
    BY <1>1
  <2>2. end - i \notin U
    BY <1>10
  <2>. QED BY <2>1, <2>2
<1>12. ParseFrom(b) \in [1..end -> Parsed]
  BY <1>7, <1>11
<1>. QED BY <1>8, <1>12

\* What a script parses to is a script of operations as the interpreter's types
\* allow them (Script.ops).
LEMMA ParseType == ASSUME NEW b \in Item PROVE Parse(b) \in Parsed
<1>1. Len(b) \in Nat
  BY LenProperties DEF Item
<1>2. 1 \in 1..(Len(b) + 1)
  BY <1>1
<1>. QED BY <1>2, ParseExists, ParseIs

\* At the end of a script there is nothing to parse.
LEMMA ParseAtEnd ==
  ASSUME NEW b \in Item
  PROVE  ParseFrom(b)[Len(b) + 1] = [ops |-> << >>, tail |-> 0]
<1>1. Len(b) \in Nat
  BY LenProperties DEF Item
<1>2. Len(b) + 1 \in 1..(Len(b) + 1) /\ Len(b) + 1 > Len(b)
  BY <1>1
<1>. QED BY <1>2, ParseExists DEF ParseStep

------------------------------------------------------------------------------
(* Operations as bytes.                                                    *)

LEMMA SizeFieldIs ==
  ASSUME NEW size \in Nat, NEW n \in {0, 1, 2, 4}
  PROVE  /\ SizeField(size, n) \in Seq(Byte) /\ Len(SizeField(size, n)) = n
         /\ \A k \in 1..n : SizeField(size, n)[k] = ByteAt(size, k)
<1>1. \A k \in 1..n : k \in 1..4
  OBVIOUS
<1>2. \A k \in 1..n : ByteAt(size, k) \in Byte
  BY <1>1, ByteAtType, SMT
<1>. QED BY <1>2 DEF SizeField

\* An operation written out, byte by byte.
WrittenOp(op, l, d) ==
  /\ OpBytes(op) \in Seq(Byte) /\ Len(OpBytes(op)) = 1 + l + d
  /\ OpBytes(op)[1] = op.opcode
  /\ \A k \in 1..l : OpBytes(op)[1 + k] = ByteAt(d, k)
  /\ \A k \in 1..d : OpBytes(op)[1 + l + k] = op.data[k]

LEMMA OpBytesIs ==
  ASSUME NEW op \in ScriptOp, NEW l \in {0, 1, 2, 4}, NEW d \in Nat,
         l = LengthBytes(op.opcode), d = Len(op.data)
  PROVE  WrittenOp(op, l, d)
<1>1. PICK v \in Byte, data \in Seq(Byte) : v = op.opcode /\ data = op.data
  BY DEF ScriptOp, Opcode, Item, Byte
<1>2. PICK field \in Seq(Byte) :
        /\ field = SizeField(d, l) /\ Len(field) = l
        /\ \A k \in 1..l : field[k] = ByteAt(d, k)
  BY SizeFieldIs
<1>3. PICK code \in Seq(Byte) : code = <<v>> /\ Len(code) = 1 /\ code[1] = v
  <2>1. <<v>> \in Seq(Byte) /\ Len(<<v>>) = 1 /\ <<v>>[1] = v
    OBVIOUS
  <2>. QED BY <2>1
<1>4. PICK head : head = code \o field
  OBVIOUS
<1>5. head \in Seq(Byte) /\ IsJoin(code, field, 1, l, head)
  <2>1. 1 \in Nat /\ l \in Nat
    OBVIOUS
  <2>. QED BY <1>2, <1>3, <1>4, <2>1, Joined, Zenon
<1>6. PICK all : all = head \o data
  OBVIOUS
<1>7. Len(head) = 1 + l /\ 1 + l \in Nat
  BY <1>5 DEF IsJoin
<1>8. all \in Seq(Byte) /\ IsJoin(head, data, 1 + l, d, all)
  BY <1>1, <1>5, <1>6, <1>7, Joined, Zenon
<1>9. OpBytes(op) = all
  BY <1>1, <1>2, <1>3, <1>4, <1>6 DEF OpBytes
<1>10. /\ Len(all) = 1 + l + d
       /\ \A i \in 1..(1 + l + d) : all[i] = IF i <= 1 + l THEN head[i] ELSE data[i - (1 + l)]
       /\ \A i \in 1..(1 + l) : head[i] = IF i <= 1 THEN code[i] ELSE field[i - 1]
  BY <1>5, <1>8 DEF IsJoin
<1>11. all[1] = v
  <2>1. 1 \in 1..(1 + l + d) /\ 1 \in 1..(1 + l)
    OBVIOUS
  <2>. QED BY <1>3, <1>10, <2>1
<1>12. ASSUME NEW k \in 1..l PROVE all[1 + k] = ByteAt(d, k)
  <2>1. PICK i \in 1..(1 + l) : i = 1 + k /\ i \in 1..(1 + l + d) /\ i <= 1 + l /\ ~(i <= 1)
                                /\ i - 1 = k
    OBVIOUS
  <2>2. all[i] = head[i] /\ head[i] = field[i - 1]
    BY <1>10, <2>1
  <2>. QED BY <1>2, <2>1, <2>2
<1>13. ASSUME NEW k \in 1..d PROVE all[1 + l + k] = data[k]
  <2>1. PICK i \in 1..(1 + l + d) : i = 1 + l + k /\ ~(i <= 1 + l) /\ i - (1 + l) = k
    <3>1. l \in Nat /\ k \in Nat /\ 1 <= k /\ k <= d
      OBVIOUS
    <3>2. /\ 1 + l + k \in 1..(1 + l + d) /\ ~(1 + l + k <= 1 + l)
          /\ 1 + l + k - (1 + l) = k
      BY <3>1
    <3>. QED BY <3>2
  <2>2. all[i] = data[i - (1 + l)]
    BY <1>10, <2>1
  <2>. QED BY <2>1, <2>2
<1>. QED BY <1>1, <1>8, <1>9, <1>10, <1>11, <1>12, <1>13 DEF WrittenOp

LEMMA OpBytesType ==
  ASSUME NEW op \in ScriptOp
  PROVE  /\ OpBytes(op) \in Seq(Byte) /\ op_length(op) \in Nat
         /\ Len(OpBytes(op)) = op_length(op)
<1>1. PICK l \in {0, 1, 2, 4} : l = LengthBytes(op.opcode)
  <2>1. PICK v \in 0..255 : v = op.opcode
    BY DEF ScriptOp, Opcode
  <2>. QED BY <2>1, LengthBytesIs
<1>2. PICK d \in Nat : d = Len(op.data)
  BY LenProperties DEF ScriptOp, Item
<1>3. WrittenOp(op, l, d)
  BY <1>1, <1>2, OpBytesIs
<1>. QED BY <1>1, <1>2, <1>3 DEF WrittenOp, op_length

\* Operations are written out one after the other.
LEMMA WrittenType ==
  ASSUME NEW ops \in Seq(ScriptOp), NEW n \in Nat, n = Len(ops), NEW t
  PROVE  /\ [k \in 1..n |-> OpBytes(ops[k])] \in [1..n -> Seq(Byte)]
         /\ Serialize([ops |-> ops, tail |-> t]) = FlattenSeq([k \in 1..n |-> OpBytes(ops[k])])
         /\ Serialize([ops |-> ops, tail |-> t]) \in Seq(Byte)
<1> DEFINE c == [k \in 1..n |-> OpBytes(ops[k])]
<1>1. c \in [1..n -> Seq(Byte)]
  <2>1. ASSUME NEW k \in 1..n PROVE OpBytes(ops[k]) \in Seq(Byte)
    <3>1. PICK op \in ScriptOp : op = ops[k]
      OBVIOUS
    <3>. QED BY <3>1, OpBytesType
  <2>. QED BY <2>1
<1>2. Serialize([ops |-> ops, tail |-> t]) = FlattenSeq(c)
  BY DEF Serialize
<1>. HIDE DEF c
<1>3. FlattenSeq(c) \in Seq(Byte)
  BY <1>1, FlattenType
<1>. QED BY <1>1, <1>2, <1>3 DEF c

\* t is the operation op and then the n operations of s.
Headed(op, s, n, t) ==
  /\ t.ops \in Seq(ScriptOp) /\ Len(t.ops) = n + 1 /\ t.tail = s.tail
  /\ t.ops[1] = op
  /\ \A k \in 1..n : t.ops[k + 1] = s.ops[k]

LEMMA PrependIs ==
  ASSUME NEW op \in ScriptOp, NEW s \in Script, NEW n \in Nat, n = Len(s.ops)
  PROVE  Headed(op, s, n, Prepend(op, s))
<1>1. s = [ops |-> s.ops, tail |-> s.tail] /\ s.ops \in Seq(ScriptOp) /\ s.tail \in Nat
  BY DEF Script
<1>2. PICK ops \in Seq(ScriptOp), t \in Nat : ops = s.ops /\ n = Len(ops) /\ t = s.tail
  BY <1>1
<1>3. PICK one \in Seq(ScriptOp) : one = <<op>> /\ Len(one) = 1 /\ one[1] = op
  <2>1. <<op>> \in Seq(ScriptOp) /\ Len(<<op>>) = 1 /\ <<op>>[1] = op
    OBVIOUS
  <2>. QED BY <2>1
<1>4. PICK all : all = one \o ops
  OBVIOUS
<1>5. all \in Seq(ScriptOp) /\ IsJoin(one, ops, 1, n, all)
  <2>1. 1 \in Nat
    OBVIOUS
  <2>. QED BY <1>2, <1>3, <1>4, <2>1, Joined, Zenon
<1>6. /\ Len(all) = n + 1 /\ all[1] = op
      /\ \A k \in 1..n : all[k + 1] = ops[k]
  <2>1. Len(all) = 1 + n /\ \A i \in 1..(1 + n) : all[i] = IF i <= 1 THEN one[i] ELSE ops[i - 1]
    BY <1>5 DEF IsJoin
  <2>2. 1 \in 1..(1 + n)
    OBVIOUS
  <2>3. \A k \in 1..n : k + 1 \in 1..(1 + n) /\ ~(k + 1 <= 1) /\ k + 1 - 1 = k
    OBVIOUS
  <2>. QED BY <1>3, <2>1, <2>2, <2>3
<1>7. PICK r : r = Prepend(op, s) /\ r = [ops |-> all, tail |-> t]
  <2>1. [s EXCEPT !.ops = all] = [ops |-> all, tail |-> t]
    BY <1>1, <1>2
  <2>. QED BY <1>2, <1>3, <1>4, <2>1 DEF Prepend
<1>. QED BY <1>2, <1>5, <1>6, <1>7 DEF Headed

\* Writing a script out begins with its first operation.
LEMMA SerializeFirst ==
  ASSUME NEW op \in ScriptOp, NEW s \in Script
  PROVE  /\ Serialize(Prepend(op, s)) = OpBytes(op) \o Serialize(s)
         /\ Serialize(s) \in Seq(Byte)
<1>1. s = [ops |-> s.ops, tail |-> s.tail] /\ s.ops \in Seq(ScriptOp) /\ s.tail \in Nat
  BY DEF Script
<1>2. PICK ops \in Seq(ScriptOp), n \in Nat, t \in Nat : ops = s.ops /\ n = Len(ops) /\ t = s.tail
  BY <1>1, LenProperties
<1>3. PICK r : r = Prepend(op, s) /\ Headed(op, s, n, r)
  BY <1>2, PrependIs
<1>4. PICK all \in Seq(ScriptOp), m \in Nat :
        /\ all = r.ops /\ m = n + 1 /\ Len(all) = m /\ all[1] = op
        /\ \A k \in 1..n : all[k + 1] = ops[k]
  BY <1>2, <1>3 DEF Headed
<1> DEFINE c == [k \in 1..n |-> OpBytes(ops[k])]
           d == [k \in 1..m |-> OpBytes(all[k])]
<1>5. /\ c \in [1..n -> Seq(Byte)] /\ d \in [1..m -> Seq(Byte)]
      /\ Serialize([ops |-> ops, tail |-> t]) = FlattenSeq(c)
      /\ Serialize([ops |-> ops, tail |-> t]) \in Seq(Byte)
      /\ Serialize([ops |-> all, tail |-> t]) = FlattenSeq(d)
  BY <1>2, <1>4, WrittenType
<1>6. OneMore(c, n, d)
  <2>1. ASSUME NEW k \in 1..n PROVE d[k + 1] = c[k]
    <3>1. k + 1 \in 1..m
      BY <1>4
    <3>2. all[k + 1] = ops[k]
      BY <1>4
    <3>. QED BY <3>1, <3>2
  <2>. HIDE DEF c, d
  <2>. QED BY <2>1 DEF OneMore
<1>7. d[1] = OpBytes(op)
  <2>1. 1 \in 1..m
    BY <1>4
  <2>. QED BY <1>4, <2>1
<1>. HIDE DEF c, d
<1>8. FlattenSeq(d) = d[1] \o FlattenSeq(c)
  <2>1. m = n + 1
    BY <1>4
  <2>2. c \in [1..n -> Seq(Byte)] /\ d \in [1..(n + 1) -> Seq(Byte)]
    BY <1>5, <2>1
  <2>. QED BY <1>6, <2>2, FlattenFirst
<1>9. Prepend(op, s) = [ops |-> all, tail |-> t]
  <2>1. PICK os : os = <<op>> \o s.ops
    OBVIOUS
  <2>2. r = [ops |-> os, tail |-> t]
    <3>1. [s EXCEPT !.ops = os] = [ops |-> os, tail |-> t]
      BY <1>1, <1>2
    <3>. QED BY <1>3, <2>1, <3>1 DEF Prepend
  <2>. QED BY <1>3, <1>4, <2>2
<1>. QED BY <1>1, <1>2, <1>5, <1>7, <1>8, <1>9

\* The size of a script is that of its operations as they are written out, and
\* of its tail.
LEMMA SizeIs ==
  ASSUME NEW s \in Parsed
  PROVE  ScriptSize(s) = s.tail + Len(Serialize(s))
<1>1. s = [ops |-> s.ops, tail |-> s.tail] /\ s.ops \in Seq(ScriptOp) /\ s.tail \in Nat
  BY DEF Parsed, Script
<1>2. PICK ops \in Seq(ScriptOp), n \in Nat, t \in Nat :
        ops = s.ops /\ n = Len(ops) /\ t = s.tail
  BY <1>1, LenProperties
<1> DEFINE c == [k \in 1..n |-> OpBytes(ops[k])]
<1>3. c \in [1..n -> Seq(Byte)] /\ Serialize(s) = FlattenSeq(c)
  BY <1>1, <1>2, WrittenType
<1>4. \A k \in 1..n : /\ c[k] \in Seq(Byte)
                      /\ op_length(ops[k]) \in Nat /\ Len(c[k]) = op_length(ops[k])
  <2> TAKE k \in 1..n
  <2>1. PICK op \in ScriptOp : op = ops[k]
    BY <1>2
  <2>. QED BY <2>1, OpBytesType
<1>. HIDE DEF c
<1>5. PICK f \in [0..n -> Seq(Byte)] : Flat(c, n, f) /\ f[n] = FlattenSeq(c)
  BY <1>3, FlattenIs
<1> DEFINE Step(u, k) == IF k = 0 THEN t ELSE u[k - 1] + op_length(ops[k])
           upto == CHOOSE u : u = [k \in 0..n |-> Step(u, k)]
           sizes == [k \in 0..n |-> t + Len(f[k])]
<1>6. ScriptSize(s) = upto[n]
  BY <1>2 DEF ScriptSize
<1>7. \A k \in 0..n : sizes[k] = t + Len(f[k]) /\ Len(f[k]) \in Nat
  <2> TAKE k \in 0..n
  <2>1. f[k] \in Seq(Byte)
    OBVIOUS
  <2>. QED BY <2>1, LenProperties
<1>8. \A k \in 1..n : sizes[k] = sizes[k - 1] + op_length(ops[k])
  <2> TAKE k \in 1..n
  <2>1. PICK u \in Seq(Byte), v \in Seq(Byte) : u = f[k - 1] /\ v = c[k]
    BY <1>4
  <2>2. f[k] = u \o v
    BY <1>5, <2>1 DEF Flat
  <2>3. Len(u \o v) = Len(u) + Len(v) /\ Len(u) \in Nat /\ Len(v) \in Nat
    BY ConcatProperties, LenProperties
  <2>4. k \in 0..n /\ k - 1 \in 0..n
    OBVIOUS
  <2>5. sizes[k] = t + Len(f[k]) /\ sizes[k - 1] = t + Len(f[k - 1])
    BY <2>4
  <2>6. Len(v) = op_length(ops[k])
    BY <1>4, <2>1
  <2>7. PICK x \in Nat, y \in Nat : x = Len(u) /\ y = Len(v)
    BY <2>3
  <2>8. sizes[k] = t + (x + y) /\ sizes[k - 1] = t + x
    <3>. HIDE DEF sizes
    <3>. QED BY <2>1, <2>2, <2>3, <2>5, <2>7
  <2>9. t + (x + y) = (t + x) + y
    OBVIOUS
  <2>. HIDE DEF sizes
  <2>. QED BY <2>6, <2>7, <2>8, <2>9
<1>9. sizes[0] = t
  <2>1. 0 \in 0..n /\ f[0] = << >>
    BY <1>5 DEF Flat
  <2>. QED BY <2>1
<1>10. sizes = [k \in 0..n |-> Step(sizes, k)]
  <2>1. ASSUME NEW k \in 0..n PROVE sizes[k] = Step(sizes, k)
    <3>1. k = 0 \/ k \in 1..n
      OBVIOUS
    <3>. HIDE DEF sizes
    <3>. QED BY <1>8, <1>9, <3>1
  <2>2. sizes = [k \in 0..n |-> sizes[k]]
    OBVIOUS
  <2>. HIDE DEF sizes, Step
  <2>. QED BY <2>1, <2>2
<1>11. upto = [k \in 0..n |-> Step(upto, k)]
  <2>. HIDE DEF sizes, Step
  <2>. QED BY <1>10
<1>. HIDE DEF upto, sizes
<1>12. \A k \in 0..n : upto[k] = Step(upto, k)
  <2>. HIDE DEF Step
  <2>. QED BY <1>11
<1> DEFINE P == {k \in 0..n : upto[k] = sizes[k]}
<1>13. 0 \in P
  BY <1>9, <1>12
<1>14. ASSUME NEW k \in 1..n, k - 1 \in P PROVE k \in P
  <2>1. k \in 0..n /\ k # 0
    OBVIOUS
  <2>2. upto[k] = upto[k - 1] + op_length(ops[k])
    BY <1>12, <2>1
  <2>3. upto[k - 1] = sizes[k - 1]
    BY <1>14
  <2>4. sizes[k] = sizes[k - 1] + op_length(ops[k])
    BY <1>8
  <2>. QED BY <2>1, <2>2, <2>3, <2>4
<1>15. upto[n] = sizes[n]
  <2>. HIDE DEF P
  <2>0. \A k \in 1..n : k - 1 \in P => k \in P
    BY <1>14
  <2>1. \A k \in 0..n : k \in P
    BY <1>13, <2>0, Upwards
  <2>2. n \in P
    BY <2>1
  <2>. QED BY <2>2 DEF P
<1>16. sizes[n] = t + Len(f[n])
  <2>1. n \in 0..n
    OBVIOUS
  <2>. QED BY <1>7, <2>1
<1>17. s.tail = t /\ f[n] = Serialize(s)
  BY <1>2, <1>3, <1>5
<1>. QED BY <1>6, <1>15, <1>16, <1>17

------------------------------------------------------------------------------
(* The length field of a push.                                             *)

\* v has the bytes p, q, r and s, the least significant first.
Digits(v, p, q, r, s) ==
  /\ v = p + 256 * (q + 256 * (r + 256 * s))
  /\ ByteAt(v, 1) = p /\ ByteAt(v, 2) = q /\ ByteAt(v, 3) = r /\ ByteAt(v, 4) = s

LEMMA DigitsAre ==
  ASSUME NEW p \in 0..255, NEW q \in 0..255, NEW r \in 0..255, NEW s \in 0..255,
         NEW v, v = p + 256 * (q + 256 * (r + 256 * s))
  PROVE  Digits(v, p, q, r, s)
<1>1. PICK x \in Nat, y \in Nat : y = r + 256 * s /\ x = q + 256 * y
  OBVIOUS
<1>2. v \in Nat /\ v = p + 256 * x
  BY <1>1
<1>3. v % 256 = p /\ v \div 256 = x
  BY <1>2
<1>4. x % 256 = q /\ x \div 256 = y
  BY <1>1
<1>5. y % 256 = r /\ y \div 256 = s /\ s % 256 = s
  BY <1>1
<1>6. v \div 65536 = y
  BY <1>1, <1>2
<1>7. v \div TWO24 = s
  BY <1>1, <1>2, SMT DEF TWO24
<1>8. /\ ByteAt(v, 1) = v % 256 /\ ByteAt(v, 2) = (v \div 256) % 256
      /\ ByteAt(v, 3) = (v \div 65536) % 256 /\ ByteAt(v, 4) = (v \div TWO24) % 256
  BY DEF ByteAt
<1>. QED BY <1>3, <1>4, <1>5, <1>6, <1>7, <1>8 DEF Digits

ThreeDigits(v) == \E p \in 0..255, q \in 0..255, r \in 0..255 : Digits(v, p, q, r, 0)

LEMMA DigitsOf ==
  ASSUME NEW v \in Nat, v < TWO24
  PROVE  ThreeDigits(v)
<1>1. PICK x \in Nat, p \in 0..255 : v = p + 256 * x
  <2>1. v % 256 \in 0..255 /\ v \div 256 \in Nat /\ v = (v % 256) + 256 * (v \div 256)
    OBVIOUS
  <2>. QED BY <2>1
<1>2. PICK r \in Nat, q \in 0..255 : x = q + 256 * r
  <2>1. x % 256 \in 0..255 /\ x \div 256 \in Nat /\ x = (x % 256) + 256 * (x \div 256)
    OBVIOUS
  <2>. QED BY <2>1
<1>3. r \in 0..255
  BY <1>1, <1>2, SMT DEF TWO24
<1>4. v = p + 256 * (q + 256 * (r + 256 * 0)) /\ 0 \in 0..255
  BY <1>1, <1>2
<1>5. Digits(v, p, q, r, 0)
  BY <1>3, <1>4, DigitsAre
<1>. QED BY <1>3, <1>5 DEF ThreeDigits

\* A length that is read from a field is written to it again.
LEMMA FieldOfLength ==
  ASSUME NEW b, NEW i \in Nat, NEW n \in {0, 1, 2, 4},
         \A k \in i..(i + n - 1) : b[k] \in 0..255
  PROVE  \A k \in 1..n : ByteAt(LittleEndian(b, i, n), k) = b[i + k - 1]
<1> DEFINE A(k) == IF k < n THEN b[i + k] ELSE 0
           p == A(0)
           q == A(1)
           r == A(2)
           s == A(3)
<1>1. \A k \in 0..3 : A(k) \in 0..255
  <2> TAKE k \in 0..3
  <2>1. k < n => i + k \in i..(i + n - 1)
    OBVIOUS
  <2>. QED BY <2>1
<1>2. p \in 0..255 /\ q \in 0..255 /\ r \in 0..255 /\ s \in 0..255
  BY <1>1
<1>3. PICK v : v = LittleEndian(b, i, n)
  OBVIOUS
<1>4. v = p + 256 * (q + 256 * (r + 256 * s))
  <2>1. v = p + 256 * q + 65536 * r + 16777216 * s
    BY <1>3, SMT DEF LittleEndian
  <2>. HIDE DEF p, q, r, s
  <2>. QED BY <1>2, <2>1, SMT
<1>5. Digits(v, p, q, r, s)
  <2>. HIDE DEF p, q, r, s
  <2>. QED BY <1>2, <1>4, DigitsAre
<1>6. ByteAt(v, 1) = A(0) /\ ByteAt(v, 2) = A(1) /\ ByteAt(v, 3) = A(2) /\ ByteAt(v, 4) = A(3)
  <2>. HIDE DEF A
  <2>. QED BY <1>5 DEF Digits
<1>7. ASSUME NEW k \in 1..n PROVE ByteAt(v, k) = b[i + k - 1]
  <2>1. k \in {1, 2, 3, 4} /\ k - 1 < n /\ i + (k - 1) = i + k - 1
    OBVIOUS
  <2>2. ByteAt(v, k) = A(k - 1)
    <3>. HIDE DEF A
    <3>. QED BY <1>6, <2>1
  <2>3. A(k - 1) = b[i + (k - 1)]
    BY <2>1
  <2>. QED BY <2>1, <2>2, <2>3
<1>. QED BY <1>3, <1>7

\* The n bytes at offset i are the first ones of v.
FieldHolds(b, i, n, v) == \A k \in 1..n : b[i + k - 1] = ByteAt(v, k)

\* v has room in n bytes, and in three.
FitsField(v, n) ==
  v < TWO24 /\ (n = 1 => v <= 255) /\ (n = 2 => v <= 65535)

\* A length that fits the field it is written to is read from it again.
LEMMA LengthOfField ==
  ASSUME NEW b, NEW i \in Nat, NEW n \in {1, 2, 4}, NEW v \in Nat,
         FitsField(v, n), FieldHolds(b, i, n, v)
  PROVE  LittleEndian(b, i, n) = v
<1>1. PICK p \in 0..255, q \in 0..255, r \in 0..255 : Digits(v, p, q, r, 0)
  <2>1. ThreeDigits(v)
    BY DigitsOf DEF FitsField
  <2>. QED BY <2>1 DEF ThreeDigits
<1>2. (n = 1 => q = 0 /\ r = 0) /\ (n = 2 => r = 0)
  BY <1>1 DEF Digits, FitsField
<1> DEFINE A(k) == IF k < n THEN b[i + k] ELSE 0
<1>3. \A k \in 0..3 : k < n => A(k) = ByteAt(v, k + 1)
  <2> TAKE k \in 0..3
  <2>1. k < n => k + 1 \in 1..n /\ i + (k + 1) - 1 = i + k
    OBVIOUS
  <2>2. \A m \in 1..n : b[i + m - 1] = ByteAt(v, m)
    BY DEF FieldHolds
  <2>. QED BY <2>1, <2>2
<1>4. \A k \in 0..3 : ~(k < n) => A(k) = 0
  OBVIOUS
<1>5. LittleEndian(b, i, n) = A(0) + 256 * A(1) + 65536 * A(2) + 16777216 * A(3)
  BY SMT DEF LittleEndian
<1>. HIDE DEF A
<1>6. A(0) = p /\ A(1) = q /\ A(2) = r /\ A(3) = 0
  <2>1. ByteAt(v, 1) = p /\ ByteAt(v, 2) = q /\ ByteAt(v, 3) = r /\ ByteAt(v, 4) = 0
    BY <1>1 DEF Digits
  <2>2. 0 < n /\ 0 + 1 = 1 /\ 1 + 1 = 2 /\ 2 + 1 = 3 /\ 3 + 1 = 4
    OBVIOUS
  <2>3. A(0) = p
    BY <1>3, <2>1, <2>2
  <2>4. A(1) = q
    <3>1. CASE n = 1
      BY <1>2, <1>4, <3>1
    <3>2. CASE n # 1
      BY <1>3, <2>1, <2>2, <3>2
    <3>. QED BY <3>1, <3>2
  <2>5. A(2) = r
    <3>1. CASE n = 4
      BY <1>3, <2>1, <2>2, <3>1
    <3>2. CASE n # 4
      BY <1>2, <1>4, <3>2
    <3>. QED BY <3>1, <3>2
  <2>6. A(3) = 0
    <3>1. CASE n = 4
      BY <1>3, <2>1, <2>2, <3>1
    <3>2. CASE n # 4
      BY <1>4, <3>2
    <3>. QED BY <3>1, <3>2
  <2>. QED BY <2>3, <2>4, <2>5, <2>6
<1>7. v = p + 256 * (q + 256 * (r + 256 * 0))
  BY <1>1 DEF Digits
<1>. QED BY <1>5, <1>6, <1>7, SMT

------------------------------------------------------------------------------
(* What the two walks do at an offset where an operation begins.           *)

\* The part of b from i up to m.
IsPart(b, i, m, c) ==
  /\ Len(c) = m + 1 - i
  /\ \A k \in 1..(m + 1 - i) : c[k] = b[i + k - 1]

LEMMA PartOf ==
  ASSUME NEW S, NEW b \in Seq(S), NEW i \in Nat, NEW m \in Nat,
         1 <= i, i <= m + 1, m <= Len(b)
  PROVE  SubSeq(b, i, m) \in Seq(S) /\ IsPart(b, i, m, SubSeq(b, i, m))
<1>1. PICK n \in Nat : n = Len(b) /\ \A k \in 1..n : b[k] \in S
  BY LenProperties, ElementOfSeq
<1>2. \A k \in i..m : b[k] \in S
  BY <1>1
<1>3. i \in Int /\ m \in Int
  OBVIOUS
<1>4. /\ SubSeq(b, i, m) \in Seq(S)
      /\ Len(SubSeq(b, i, m)) = IF i <= m THEN m - i + 1 ELSE 0
      /\ \A k \in 1..(m - i + 1) : SubSeq(b, i, m)[k] = b[i + k - 1]
  BY <1>2, <1>3, SubSeqProperties
<1>5. (IF i <= m THEN m - i + 1 ELSE 0) = m + 1 - i /\ m - i + 1 = m + 1 - i
  OBVIOUS
<1>. QED BY <1>4, <1>5 DEF IsPart

LEMMA PartIs ==
  ASSUME NEW b \in Item, NEW i \in Nat, NEW m \in Nat, 1 <= i, i <= m + 1, m <= Len(b)
  PROVE  SubSeq(b, i, m) \in Item /\ IsPart(b, i, m, SubSeq(b, i, m))
BY PartOf DEF Item

\* Two parts that meet.
LEMMA PartsMeet ==
  ASSUME NEW b \in Item, NEW i \in Nat, NEW j \in Nat, NEW m \in Nat,
         1 <= i, i <= j, j <= m + 1, m <= Len(b)
  PROVE  SubSeq(b, i, j - 1) \o SubSeq(b, j, m) = SubSeq(b, i, m)
<1>0. PICK n \in Nat : n = Len(b)
  BY LenProperties DEF Item
<1>1. PICK h \in Nat : h = j - 1
  OBVIOUS
<1>2. PICK s \in Item : s = SubSeq(b, i, h) /\ IsPart(b, i, h, s)
  <2>1. i <= h + 1 /\ h <= Len(b)
    BY <1>0, <1>1
  <2>2. SubSeq(b, i, h) \in Item /\ IsPart(b, i, h, SubSeq(b, i, h))
    BY <2>1, PartIs, Zenon
  <2>. QED BY <2>2
<1>3. PICK t \in Item : t = SubSeq(b, j, m) /\ IsPart(b, j, m, t)
  <2>1. 1 <= j
    OBVIOUS
  <2>2. SubSeq(b, j, m) \in Item /\ IsPart(b, j, m, SubSeq(b, j, m))
    BY <2>1, PartIs, Zenon
  <2>. QED BY <2>2
<1>4. PICK u \in Item : u = SubSeq(b, i, m) /\ IsPart(b, i, m, u)
  <2>1. i <= m + 1
    OBVIOUS
  <2>2. SubSeq(b, i, m) \in Item /\ IsPart(b, i, m, SubSeq(b, i, m))
    BY <2>1, PartIs, Zenon
  <2>. QED BY <2>2
<1>5. PICK x \in Nat, y \in Nat : x = h + 1 - i /\ y = m + 1 - j /\ m + 1 - i = x + y
                                 /\ i + x = j
  <2>1. h + 1 - i \in Nat /\ m + 1 - j \in Nat /\ m + 1 - i = (h + 1 - i) + (m + 1 - j)
        /\ i + (h + 1 - i) = j
    BY <1>1
  <2>. QED BY <2>1
<1>6. Len(s) = x /\ Len(t) = y /\ Len(u) = x + y
  BY <1>2, <1>3, <1>4, <1>5 DEF IsPart
<1>7. PICK c : c = s \o t
  OBVIOUS
<1>8. c \in Seq(Byte) /\ IsJoin(s, t, x, y, c)
  <2>1. s \in Seq(Byte) /\ t \in Seq(Byte)
    BY DEF Item
  <2>. QED BY <1>6, <1>7, <2>1, Joined, Zenon
<1>9. ASSUME NEW k \in 1..(x + y) PROVE c[k] = u[k]
  <2>1. u[k] = b[i + k - 1]
    BY <1>4, <1>5 DEF IsPart
  <2>2. c[k] = IF k <= x THEN s[k] ELSE t[k - x]
    BY <1>8 DEF IsJoin
  <2>3. CASE k <= x
    <3>1. k \in 1..(h + 1 - i)
      BY <1>5, <2>3
    <3>2. s[k] = b[i + k - 1]
      BY <1>2, <3>1 DEF IsPart
    <3>. QED BY <2>1, <2>2, <2>3, <3>2
  <2>4. CASE ~(k <= x)
    <3>1. k - x \in 1..(m + 1 - j) /\ j + (k - x) - 1 = i + k - 1
      BY <1>5, <2>4
    <3>2. t[k - x] = b[j + (k - x) - 1]
      BY <1>3, <3>1 DEF IsPart
    <3>. QED BY <2>1, <2>2, <2>4, <3>1, <3>2
  <2>. QED BY <2>3, <2>4
<1>10. c = u
  <2>1. u \in Seq(Byte) /\ Len(c) = x + y
    BY <1>8 DEF Item, IsJoin
  <2>. QED BY <1>6, <1>8, <1>9, <2>1, SeqEqual
<1>. QED BY <1>1, <1>2, <1>3, <1>4, <1>7, <1>10

\* The bytes of a length are those that the parser read.
LEMMA FieldIs ==
  ASSUME NEW b \in Item, NEW i \in Nat, NEW v \in 0..255, NEW l \in Nat, NEW d \in Nat,
         1 <= i, Announced(b, i, v, l, d), i + l <= Len(b)
  PROVE  FieldHolds(b, i + 1, l, d)
<1>1. PICK n \in Nat : n = Len(b) /\ \A k \in 1..n : b[k] \in 0..255
  BY LenProperties, ElementOfSeq DEF Item, Byte
<1>2. l \in {0, 1, 2, 4} /\ (v < 76 => l = 0)
  BY LengthBytesIs DEF Announced
<1>3. CASE l = 0
  BY <1>3 DEF FieldHolds
<1>4. CASE l # 0
  <2>1. d = LittleEndian(b, i + 1, l)
    BY <1>2, <1>4 DEF Announced, DataLength, OP_PUSHDATA1
  <2>2. PICK j \in Nat : j = i + 1
    OBVIOUS
  <2>3. \A k \in j..(j + l - 1) : b[k] \in 0..255
    <3> TAKE k \in j..(j + l - 1)
    <3>1. k \in 1..n
      BY <1>1, <2>2
    <3>. QED BY <1>1, <3>1
  <2>4. \A k \in 1..l : ByteAt(LittleEndian(b, j, l), k) = b[j + k - 1]
    BY <1>2, <2>3, FieldOfLength
  <2>. QED BY <2>1, <2>2, <2>4 DEF FieldHolds
<1>. QED BY <1>3, <1>4

\* op is the operation at offset i, with l bytes of length and d of data.
OpOf(b, i, l, d, op) ==
  /\ op \in ScriptOp /\ ParsedOp(op) /\ Len(op.data) = d
  /\ op_length(op) = 1 + l + d
  /\ OpBytes(op) = SubSeq(b, i, i + l + d)

\* An operation is the bytes that it was parsed from.
LEMMA OpIsItsBytes ==
  ASSUME NEW b \in Item, NEW i \in Nat, NEW v \in 0..255, NEW l \in Nat, NEW d \in Nat,
         1 <= i, Announced(b, i, v, l, d), i + l + d <= Len(b),
         NEW op, op = [opcode |-> v, data |-> SubSeq(b, i + 1 + l, i + l + d)]
  PROVE  OpOf(b, i, l, d, op)
<1>0. PICK n \in Nat : n = Len(b)
  BY LenProperties DEF Item
<1>1. PICK j \in Nat, m \in Nat : j = i + 1 + l /\ m = i + l + d
  OBVIOUS
<1>2. PICK data \in Item : data = SubSeq(b, j, m) /\ IsPart(b, j, m, data)
  <2>1. 1 <= j /\ j <= m + 1 /\ m <= Len(b)
    BY <1>0, <1>1
  <2>2. SubSeq(b, j, m) \in Item /\ IsPart(b, j, m, SubSeq(b, j, m))
    BY <2>1, PartIs, Zenon
  <2>. QED BY <2>2
<1>3. PICK all \in Item : all = SubSeq(b, i, m) /\ IsPart(b, i, m, all)
  <2>1. i <= m + 1 /\ m <= Len(b)
    BY <1>0, <1>1
  <2>2. SubSeq(b, i, m) \in Item /\ IsPart(b, i, m, SubSeq(b, i, m))
    BY <2>1, PartIs, Zenon
  <2>. QED BY <2>2
<1>4. op = [opcode |-> v, data |-> data]
  BY <1>1, <1>2
<1>5. Len(data) = d /\ Len(all) = 1 + l + d
  <2>1. m + 1 - j = d /\ m + 1 - i = 1 + l + d
    BY <1>1
  <2>. QED BY <1>2, <1>3, <2>1 DEF IsPart
<1>6. op \in ScriptOp /\ ParsedOp(op)
  <2>1. data \in Seq(Byte)
    BY DEF Item
  <2>2. /\ v < 76 => d = v
        /\ v = 76 => d <= 255
        /\ v > 78 => d = 0
    BY DEF Announced
  <2>. QED BY <1>4, <1>5, <2>1, <2>2, AnnouncedOp, Zenon
<1>7. op.opcode = v /\ op.data = data
  BY <1>4
<1>8. l = LengthBytes(v) /\ l \in {0, 1, 2, 4} /\ b[i] = v
  BY LengthBytesIs DEF Announced
<1>9. WrittenOp(op, l, d)
  BY <1>5, <1>6, <1>7, <1>8, OpBytesIs
<1>10. FieldHolds(b, i + 1, l, d)
  <2>1. i + l <= Len(b)
    BY <1>0
  <2>. QED BY <2>1, FieldIs, Zenon
<1>11. PICK w \in Seq(Byte) : w = OpBytes(op) /\ Len(w) = 1 + l + d
  BY <1>9 DEF WrittenOp
<1>12. ASSUME NEW k \in 1..(1 + l + d) PROVE w[k] = all[k]
  <2>1. all[k] = b[i + k - 1]
    <3>1. m + 1 - i = 1 + l + d
      BY <1>1
    <3>. QED BY <1>3, <3>1 DEF IsPart
  <2>2. CASE k = 1
    <3>1. w[1] = v /\ i + 1 - 1 = i
      BY <1>7, <1>9, <1>11 DEF WrittenOp
    <3>. QED BY <1>8, <2>1, <2>2, <3>1
  <2>3. CASE k # 1 /\ k <= 1 + l
    <3>1. PICK h \in 1..l : h = k - 1 /\ k = 1 + h /\ i + k - 1 = i + 1 + h - 1
      <4>1. k - 1 \in 1..l /\ k = 1 + (k - 1) /\ i + k - 1 = i + 1 + (k - 1) - 1
        BY <2>3
      <4>. QED BY <4>1
    <3>2. w[1 + h] = ByteAt(d, h)
      BY <1>9, <1>11 DEF WrittenOp
    <3>3. b[i + 1 + h - 1] = ByteAt(d, h)
      BY <1>10 DEF FieldHolds
    <3>. QED BY <2>1, <3>1, <3>2, <3>3
  <2>4. CASE k > 1 + l
    <3>1. PICK h \in 1..d : k = 1 + l + h /\ i + k - 1 = j + h - 1
      <4>1. k - (1 + l) \in 1..d /\ k = 1 + l + (k - (1 + l))
            /\ i + k - 1 = j + (k - (1 + l)) - 1
        BY <1>1, <2>4
      <4>. QED BY <4>1
    <3>2. w[1 + l + h] = data[h]
      BY <1>7, <1>9, <1>11 DEF WrittenOp
    <3>3. data[h] = b[j + h - 1]
      <4>1. m + 1 - j = d
        BY <1>1
      <4>. QED BY <1>2, <4>1 DEF IsPart
    <3>. QED BY <2>1, <3>1, <3>2, <3>3
  <2>. QED BY <2>2, <2>3, <2>4
<1>13. w = all
  <2>1. all \in Seq(Byte)
    BY DEF Item
  <2>. QED BY <1>5, <1>11, <1>12, <2>1, SeqEqual
<1>14. op_length(op) = 1 + l + d
  BY <1>5, <1>7, <1>8 DEF op_length
<1>. QED BY <1>1, <1>3, <1>5, <1>6, <1>7, <1>11, <1>13, <1>14 DEF OpOf

\* The parser takes op at offset i and goes on at next, and so does op_length.
Takes(b, i, op, next) ==
  /\ op \in ScriptOp /\ ParsedOp(op)
  /\ op.opcode = b[i] /\ Len(op.data) = DataLength(b, i)
  /\ next = i + op_length(op)
  /\ ParseFrom(b)[i] = Prepend(op, ParseFrom(b)[next])
  /\ SubSeq(b, i, next - 1) = OpBytes(op)
  /\ OpLengthAt(b, i) = op_length(op)

\* The parser stops at offset i, and op_length takes all that is left.
StopsAt(b, i) ==
  /\ ParseFrom(b)[i] = [ops |-> << >>, tail |-> Len(b) + 1 - i]
  /\ OpLengthAt(b, i) = Len(b) + 1 - i

TakesOne(b, i) ==
  \E op \in ScriptOp, next \in (i + 1)..(Len(b) + 1) : Takes(b, i, op, next)

LEMMA TakesOrStops ==
  ASSUME NEW b \in Item, NEW i \in 1..Len(b)
  PROVE  StopsAt(b, i) \/ TakesOne(b, i)
<1>1. PICK n \in Nat : n = Len(b) /\ \A k \in 1..n : b[k] \in 0..255
  BY LenProperties, ElementOfSeq DEF Item, Byte
<1>2. i \in 1..n /\ i \in Nat /\ 1 <= i
  BY <1>1
<1>3. PICK v \in 0..255 : v = b[i]
  BY <1>1, <1>2
<1>4. PICK l \in {0, 1, 2, 4} : l = LengthBytes(v)
  BY LengthBytesIs
<1>5. ParseFrom(b)[i] = ParseStep(b, ParseFrom(b), i)
  <2>1. i \in 1..(Len(b) + 1)
    BY <1>1
  <2>. QED BY <2>1, ParseExists
<1>6. PICK size \in Nat \ {0} :
        /\ ParsedSize(b, i) = size
        /\ i + size <= Len(b) + 1 =>
             \E w \in 0..255, m \in Nat, d \in Nat : Announced(b, i, w, m, d)
  BY OffsetIs, ParsedSizeIs
<1>7. CASE i + size > n + 1
  <2>1. ParseFrom(b)[i] = [ops |-> << >>, tail |-> Len(b) + 1 - i]
    <3>1. ~(i > Len(b)) /\ i + ParsedSize(b, i) > Len(b) + 1
      BY <1>1, <1>6, <1>7
    <3>. QED BY <1>5, <3>1, Zenon DEF ParseStep
  <2>2. OpLengthAt(b, i) = Len(b) + 1 - i
    <3>1. CASE i + l > n
      BY <1>1, <1>3, <1>4, <3>1 DEF OpLengthAt
    <3>2. CASE ~(i + l > n)
      <4>1. size = 1 + l + DataLength(b, i)
        BY <1>1, <1>3, <1>4, <1>6, <3>2 DEF ParsedSize
      <4>2. size > n + 1 - i
        BY <1>2, <1>7
      <4>3. OpLengthAt(b, i) = IF i + l > n \/ size > n + 1 - i THEN n + 1 - i ELSE size
        BY <1>1, <1>3, <1>4, <4>1 DEF OpLengthAt
      <4>. QED BY <1>1, <4>2, <4>3
    <3>. QED BY <3>1, <3>2
  <2>. QED BY <2>1, <2>2 DEF StopsAt
<1>8. CASE ~(i + size > n + 1)
  <2>1. PICK d \in Nat : Announced(b, i, v, l, d)
    <3>1. i + size <= Len(b) + 1
      BY <1>1, <1>2, <1>8
    <3>2. PICK w \in 0..255, m \in Nat, d \in Nat : Announced(b, i, w, m, d)
      BY <1>6, <3>1
    <3>3. w = v /\ m = l
      BY <1>3, <1>4, <3>2 DEF Announced
    <3>. QED BY <3>2, <3>3
  <2>2. size = 1 + l + d
    BY <1>6, <2>1 DEF Announced
  <2>3. l \in Nat /\ i + l + d <= n /\ ~(i + l > n)
    BY <1>2, <1>8, <2>2
  <2>4. PICK op : op = [opcode |-> v, data |-> SubSeq(b, i + 1 + l, i + l + d)]
    OBVIOUS
  <2>5. /\ op \in ScriptOp /\ ParsedOp(op) /\ Len(op.data) = d
        /\ op_length(op) = 1 + l + d
        /\ OpBytes(op) = SubSeq(b, i, i + l + d)
    <3>1. i + l + d <= Len(b)
      BY <1>1, <2>3
    <3>2. OpOf(b, i, l, d, op)
      BY <1>2, <2>1, <2>3, <2>4, <3>1, OpIsItsBytes, Zenon
    <3>. QED BY <3>2 DEF OpOf
  <2>6. PICK next \in (i + 1)..(n + 1) : next = i + size /\ next - 1 = i + l + d
    <3>1. i + size \in (i + 1)..(n + 1) /\ i + size - 1 = i + l + d
      BY <1>2, <1>8, <2>2
    <3>. QED BY <3>1
  <2>7. ParseFrom(b)[i] = Prepend(op, ParseFrom(b)[next])
    <3>1. ~(i > Len(b)) /\ ~(next > Len(b) + 1)
      BY <1>1, <1>2, <2>6
    <3>2. i + ParsedSize(b, i) = next /\ i + 1 + LengthBytes(b[i]) = i + 1 + l
      BY <1>3, <1>4, <1>6, <2>6
    <3>3. ParseStep(b, ParseFrom(b), i) =
            Prepend([opcode |-> b[i], data |-> SubSeq(b, i + 1 + l, next - 1)], ParseFrom(b)[next])
      BY <3>1, <3>2, Zenon DEF ParseStep
    <3>. QED BY <1>3, <1>5, <2>4, <2>6, <3>3
  <2>8. OpLengthAt(b, i) = op_length(op)
    <3>1. d = DataLength(b, i)
      BY <2>1 DEF Announced
    <3>2. OpLengthAt(b, i) = IF i + l > n \/ 1 + l + d > n + 1 - i THEN n + 1 - i ELSE 1 + l + d
      BY <1>1, <1>3, <1>4, <3>1 DEF OpLengthAt
    <3>3. ~(1 + l + d > n + 1 - i)
      BY <1>2, <2>3
    <3>. QED BY <2>3, <2>5, <3>2, <3>3
  <2>9. Takes(b, i, op, next)
    <3>1. op.opcode = b[i] /\ Len(op.data) = DataLength(b, i)
      BY <1>3, <2>1, <2>4, <2>5 DEF Announced
    <3>2. next = i + op_length(op) /\ SubSeq(b, i, next - 1) = OpBytes(op)
      BY <2>2, <2>5, <2>6
    <3>. QED BY <2>5, <2>7, <2>8, <3>1, <3>2, Zenon DEF Takes
  <2>. QED BY <1>1, <2>5, <2>9 DEF TakesOne
<1>. QED BY <1>1, <1>2, <1>6, <1>7, <1>8

\* op_length always advances, and never beyond the end.
LEMMA LengthAdvances ==
  ASSUME NEW b \in Item, NEW i \in 1..Len(b)
  PROVE  OpLengthAt(b, i) \in 1..(Len(b) + 1 - i)
<1>1. PICK n \in Nat : n = Len(b)
  BY LenProperties DEF Item
<1>2. CASE StopsAt(b, i)
  BY <1>1, <1>2 DEF StopsAt
<1>3. CASE TakesOne(b, i)
  <2>1. PICK op \in ScriptOp, next \in (i + 1)..(n + 1) : Takes(b, i, op, next)
    BY <1>1, <1>3 DEF TakesOne
  <2>2. PICK x \in Nat : x = op_length(op)
    BY OpBytesType
  <2>3. next = i + x /\ OpLengthAt(b, i) = x
    BY <2>1, <2>2 DEF Takes
  <2>. QED BY <1>1, <2>3
<1>. QED BY <1>2, <1>3, TakesOrStops

LEMMA SerializeNone ==
  ASSUME NEW t
  PROVE  Serialize([ops |-> << >>, tail |-> t]) = << >>
<1>1. << >> \in Seq(ScriptOp) /\ Len(<< >>) = 0 /\ 0 \in Nat
  OBVIOUS
<1>2. PICK ops \in Seq(ScriptOp), n \in Nat : ops = << >> /\ n = 0 /\ n = Len(ops)
  BY <1>1
<1> DEFINE c == [k \in 1..n |-> OpBytes(ops[k])]
<1>3. c \in [1..n -> Seq(Byte)] /\ Serialize([ops |-> ops, tail |-> t]) = FlattenSeq(c)
  BY <1>2, WrittenType
<1>. HIDE DEF c
<1>4. PICK f \in [0..n -> Seq(Byte)] : Flat(c, n, f) /\ f[n] = FlattenSeq(c)
  BY <1>3, FlattenIs
<1>. QED BY <1>2, <1>3, <1>4 DEF Flat

LEMMA NoPart ==
  ASSUME NEW b \in Item, NEW i \in 1..(Len(b) + 1)
  PROVE  SubSeq(b, i, i - 1) = << >>
<1>1. PICK n \in Nat : n = Len(b)
  BY LenProperties DEF Item
<1>2. i \in Int /\ i - 1 \in Int /\ i - 1 < i
  BY <1>1
<1>. QED BY <1>2, SubSeqEmpty

\* What is parsed from offset i on is the bytes from there up to the tail.
KeptFrom(b, i) ==
  LET s == ParseFrom(b)[i]
  IN  /\ s.tail \in 0..(Len(b) + 1 - i)
      /\ Serialize(s) = SubSeq(b, i, Len(b) - s.tail)
      /\ s.tail > 0 => OpLengthAt(b, Len(b) + 1 - s.tail) = s.tail

LEMMA KeptAtEnd ==
  ASSUME NEW b \in Item
  PROVE  KeptFrom(b, Len(b) + 1)
<1>1. PICK n \in Nat : n = Len(b)
  BY LenProperties DEF Item
<1>2. PICK s : s = ParseFrom(b)[n + 1] /\ s = [ops |-> << >>, tail |-> 0]
  BY <1>1, ParseAtEnd
<1>3. Serialize(s) = << >> /\ s.tail = 0
  BY <1>2, SerializeNone
<1>4. SubSeq(b, n + 1, n) = << >>
  <2>1. n + 1 \in 1..(Len(b) + 1) /\ n + 1 - 1 = n
    BY <1>1
  <2>. QED BY <2>1, NoPart
<1>5. n - 0 = n /\ 0 \in 0..(n + 1 - (n + 1)) /\ ~(0 > 0)
  BY <1>1
<1>. QED BY <1>1, <1>2, <1>3, <1>4, <1>5 DEF KeptFrom

LEMMA KeptAtStop ==
  ASSUME NEW b \in Item, NEW i \in 1..Len(b), StopsAt(b, i)
  PROVE  KeptFrom(b, i)
<1>1. PICK n \in Nat : n = Len(b)
  BY LenProperties DEF Item
<1>2. PICK t \in Nat : t = n + 1 - i /\ n - t = i - 1 /\ n + 1 - t = i /\ t > 0
  <2>1. n + 1 - i \in Nat /\ n - (n + 1 - i) = i - 1 /\ n + 1 - (n + 1 - i) = i /\ n + 1 - i > 0
    BY <1>1
  <2>. QED BY <2>1
<1>3. PICK s : s = ParseFrom(b)[i] /\ s = [ops |-> << >>, tail |-> t] /\ OpLengthAt(b, i) = t
  BY <1>1, <1>2 DEF StopsAt
<1>4. Serialize(s) = << >> /\ s.tail = t
  BY <1>3, SerializeNone
<1>5. SubSeq(b, i, i - 1) = << >>
  <2>1. i \in 1..(Len(b) + 1)
    BY <1>1
  <2>. QED BY <2>1, NoPart
<1>6. t \in 0..(n + 1 - i)
  BY <1>2
<1>. QED BY <1>1, <1>2, <1>3, <1>4, <1>5, <1>6 DEF KeptFrom

LEMMA KeptAtTake ==
  ASSUME NEW b \in Item, NEW i \in 1..Len(b), NEW op \in ScriptOp,
         NEW next \in (i + 1)..(Len(b) + 1), Takes(b, i, op, next), KeptFrom(b, next)
  PROVE  KeptFrom(b, i)
<1>1. PICK n \in Nat : n = Len(b)
  BY LenProperties DEF Item
<1>2. next \in 1..(n + 1) /\ i \in 1..n /\ next > i
  BY <1>1
<1>3. PICK r \in Parsed : r = ParseFrom(b)[next]
  BY <1>1, <1>2, ParseExists
<1>4. PICK s : s = ParseFrom(b)[i] /\ s = Prepend(op, r)
  BY <1>3 DEF Takes
<1>5. s.tail = r.tail
  <2>1. r = [ops |-> r.ops, tail |-> r.tail]
    BY DEF Parsed, Script
  <2>2. PICK os : os = <<op>> \o r.ops
    OBVIOUS
  <2>3. [r EXCEPT !.ops = os].tail = r.tail
    BY <2>1
  <2>. QED BY <1>4, <2>2, <2>3 DEF Prepend
<1>6. PICK t \in 0..(n + 1 - next) : t = r.tail
  BY <1>1, <1>3 DEF KeptFrom
<1>7. Serialize(r) = SubSeq(b, next, n - t) /\ (t > 0 => OpLengthAt(b, n + 1 - t) = t)
  BY <1>1, <1>3, <1>6 DEF KeptFrom
<1>8. Serialize(s) = OpBytes(op) \o Serialize(r)
  BY <1>4, SerializeFirst DEF Parsed
<1>9. OpBytes(op) = SubSeq(b, i, next - 1)
  BY DEF Takes
<1>10. SubSeq(b, i, next - 1) \o SubSeq(b, next, n - t) = SubSeq(b, i, n - t)
  <2>1. PICK m \in Nat : m = n - t /\ next <= m + 1 /\ m <= n
    <3>1. n - t \in Nat /\ next <= n - t + 1 /\ n - t <= n
      BY <1>2, <1>6
    <3>. QED BY <3>1
  <2>2. i \in Nat /\ next \in Nat /\ 1 <= i /\ i <= next /\ m <= Len(b)
    BY <1>1, <1>2, <2>1
  <2>3. SubSeq(b, i, next - 1) \o SubSeq(b, next, m) = SubSeq(b, i, m)
    BY <2>1, <2>2, PartsMeet, Zenon
  <2>. QED BY <2>1, <2>3
<1>11. t \in 0..(n + 1 - i)
  BY <1>2, <1>6
<1>. QED BY <1>1, <1>4, <1>5, <1>6, <1>7, <1>8, <1>9, <1>10, <1>11 DEF KeptFrom

LEMMA KeptEverywhere ==
  ASSUME NEW b \in Item
  PROVE  \A i \in 1..(Len(b) + 1) : KeptFrom(b, i)
<1>1. PICK n \in Nat : n = Len(b)
  BY LenProperties DEF Item
<1>2. PICK m \in Nat : m = n + 1
  OBVIOUS
<1> DEFINE P == {i \in 1..m : KeptFrom(b, i)}
<1>3. ASSUME NEW i \in 1..m, \A j \in (i + 1)..m : j \in P
      PROVE  i \in P
  <2>1. CASE i = m
    BY <1>1, <1>2, <2>1, KeptAtEnd
  <2>2. CASE i # m
    <3>1. i \in 1..Len(b)
      BY <1>1, <1>2, <2>2
    <3>2. CASE StopsAt(b, i)
      BY <3>1, <3>2, KeptAtStop
    <3>3. CASE TakesOne(b, i)
      <4>1. PICK op \in ScriptOp, next \in (i + 1)..(Len(b) + 1) : Takes(b, i, op, next)
        BY <3>3 DEF TakesOne
      <4>2. KeptFrom(b, next)
        <5>1. next \in (i + 1)..m
          BY <1>1, <1>2
        <5>2. next \in P
          BY <1>3, <5>1
        <5>. QED BY <5>2
      <4>3. KeptFrom(b, i)
        BY <3>1, <4>1, <4>2, KeptAtTake
      <4>. QED BY <4>3
    <3>. QED BY <3>1, <3>2, <3>3, TakesOrStops
  <2>. QED BY <2>1, <2>2
<1>4. \A i \in 1..m : i \in P
  <2>. HIDE DEF P
  <2>1. \A i \in 1..m : (\A j \in (i + 1)..m : j \in P) => i \in P
    BY <1>3
  <2>. QED BY <2>1, Backwards
<1>5. \A i \in 1..m : KeptFrom(b, i)
  BY <1>4
<1>. QED BY <1>1, <1>2, <1>5

\* Every script is kept by its parser.
LEMMA KeepsBytes == ASSUME NEW b \in Item PROVE ParseKeepsBytes(b)
<1>1. PICK n \in Nat : n = Len(b)
  BY LenProperties DEF Item
<1>2. PICK s \in Parsed : s = Parse(b) /\ s = ParseFrom(b)[1]
  BY ParseType, ParseIs
<1>3. KeptFrom(b, 1)
  <2>1. 1 \in 1..(Len(b) + 1)
    BY <1>1
  <2>. QED BY <2>1, KeptEverywhere
<1>4. PICK t \in 0..n : t = s.tail /\ Serialize(s) = SubSeq(b, 1, n - t)
  <2>1. n + 1 - 1 = n
    BY <1>1
  <2>. QED BY <1>1, <1>2, <1>3, <2>1 DEF KeptFrom
<1>5. \A k \in DOMAIN s.ops : ParsedOp(s.ops[k])
  BY DEF Parsed
<1>6. ScriptSize(s) = n
  <2>1. PICK m \in Nat : m = n - t /\ 1 <= m + 1 /\ m <= n /\ m + 1 - 1 = n - t /\ t + (n - t) = n
    <3>1. n - t \in Nat /\ 1 <= n - t + 1 /\ n - t <= n /\ n - t + 1 - 1 = n - t /\ t + (n - t) = n
      BY <1>4
    <3>. QED BY <3>1
  <2>2. IsPart(b, 1, m, SubSeq(b, 1, m))
    <3>1. 1 \in Nat /\ 1 <= 1 /\ m <= Len(b)
      BY <1>1, <2>1
    <3>. QED BY <2>1, <3>1, PartIs, Zenon
  <2>3. Len(Serialize(s)) = n - t
    BY <1>4, <2>1, <2>2 DEF IsPart
  <2>4. ScriptSize(s) = t + Len(Serialize(s))
    BY <1>4, SizeIs
  <2>. QED BY <2>1, <2>3, <2>4
<1>. QED BY <1>1, <1>2, <1>4, <1>5, <1>6 DEF ParseKeepsBytes

\* How many bytes are before operation k of a script.
BytesBefore(s, k) == Len(Serialize([ops |-> SubSeq(s.ops, 1, k - 1), tail |-> 0]))

LEMMA BeforeFirst == ASSUME NEW s \in Parsed PROVE BytesBefore(s, 1) = 0
<1>1. SubSeq(s.ops, 1, 0) = << >> /\ 1 - 1 = 0
  BY SubSeqEmpty
<1>2. Serialize([ops |-> << >>, tail |-> 0]) = << >>
  BY SerializeNone
<1>. QED BY <1>1, <1>2 DEF BytesBefore

LEMMA BeforeLater ==
  ASSUME NEW op \in ScriptOp, NEW s \in Parsed, NEW k \in 1..Len(s.ops)
  PROVE  /\ BytesBefore(s, k) \in Nat
         /\ BytesBefore(Prepend(op, s), k + 1) = op_length(op) + BytesBefore(s, k)
<1>1. s \in Script /\ s.ops \in Seq(ScriptOp)
  BY DEF Parsed, Script
<1>2. PICK n \in Nat : n = Len(s.ops)
  BY <1>1, LenProperties
<1>3. PICK t : t = Prepend(op, s) /\ Headed(op, s, n, t)
  BY <1>1, <1>2, PrependIs
<1>4. PICK a \in Seq(ScriptOp), c \in Seq(ScriptOp) : a = s.ops /\ c = t.ops
  BY <1>1, <1>3 DEF Headed
<1>5. Len(a) = n /\ Len(c) = n + 1 /\ c[1] = op /\ \A j \in 1..n : c[j + 1] = a[j]
  BY <1>2, <1>3, <1>4 DEF Headed
<1>6. PICK h \in Nat : h = k - 1 /\ h + 1 = k /\ h <= n /\ k + 1 - 1 = k /\ k \in Nat /\ k <= n
  <2>1. k - 1 \in Nat /\ k - 1 + 1 = k /\ k - 1 <= n /\ k + 1 - 1 = k /\ k \in Nat /\ k <= n
    BY <1>2
  <2>. QED BY <2>1
<1>7. PICK x \in Seq(ScriptOp) : x = SubSeq(a, 1, h) /\ IsPart(a, 1, h, x)
  <2>1. 1 \in Nat /\ 1 <= 1 /\ 1 <= h + 1 /\ h <= Len(a)
    BY <1>5, <1>6
  <2>2. SubSeq(a, 1, h) \in Seq(ScriptOp) /\ IsPart(a, 1, h, SubSeq(a, 1, h))
    BY <2>1, PartOf, Zenon
  <2>. QED BY <2>2
<1>8. PICK y \in Seq(ScriptOp) : y = SubSeq(c, 1, k) /\ IsPart(c, 1, k, y)
  <2>1. 1 \in Nat /\ 1 <= 1 /\ 1 <= k + 1 /\ k <= Len(c)
    BY <1>5, <1>6
  <2>2. SubSeq(c, 1, k) \in Seq(ScriptOp) /\ IsPart(c, 1, k, SubSeq(c, 1, k))
    BY <1>6, <2>1, PartOf, Zenon
  <2>. QED BY <2>2
<1>9. Len(x) = h /\ Len(y) = k
  <2>1. h + 1 - 1 = h /\ k + 1 - 1 = k
    BY <1>6
  <2>. QED BY <1>7, <1>8, <2>1 DEF IsPart
<1>10. /\ \A j \in 1..h : x[j] = a[j]
       /\ \A j \in 1..k : y[j] = c[j]
  <2>1. h + 1 - 1 = h /\ k + 1 - 1 = k
    BY <1>6
  <2>2. \A j \in Nat : 1 + j - 1 = j
    OBVIOUS
  <2>3. (\A j \in 1..h : j \in Nat) /\ (\A j \in 1..k : j \in Nat)
    BY <1>6
  <2>. QED BY <1>7, <1>8, <2>1, <2>2, <2>3 DEF IsPart
<1>11. PICK u : u = [ops |-> x, tail |-> 0]
  OBVIOUS
<1>12. u \in Parsed /\ u.ops = x /\ u.tail = 0
  <2>1. u.ops = x /\ u.tail = 0 /\ u \in Script
    BY <1>11 DEF Script
  <2>2. \A j \in 1..n : ParsedOp(a[j])
    <3>1. DOMAIN s.ops = 1..n
      BY <1>1, <1>2, LenProperties
    <3>. QED BY <1>4, <3>1 DEF Parsed
  <2>3. \A j \in DOMAIN x : ParsedOp(x[j])
    <3> TAKE j \in DOMAIN x
    <3>1. j \in 1..h
      BY <1>9, LenProperties
    <3>2. j \in 1..n
      BY <1>6, <3>1
    <3>. QED BY <1>10, <2>2, <3>1, <3>2
  <2>. QED BY <2>1, <2>3 DEF Parsed
<1>13. PICK w : w = Prepend(op, u) /\ Headed(op, u, h, w)
  <2>1. u \in Script /\ h = Len(u.ops)
    BY <1>9, <1>12 DEF Parsed
  <2>. QED BY <2>1, PrependIs
<1>14. w.ops = y /\ w.tail = 0
  <2>1. w.ops \in Seq(ScriptOp) /\ Len(w.ops) = k
    BY <1>6, <1>13 DEF Headed
  <2>2. ASSUME NEW j \in 1..k PROVE w.ops[j] = y[j]
    <3>1. y[j] = c[j]
      BY <1>10
    <3>2. CASE j = 1
      BY <1>5, <1>13, <3>1, <3>2 DEF Headed
    <3>3. CASE j # 1
      <4>1. PICK m \in 1..h : j = m + 1 /\ m \in 1..n
        <5>1. j - 1 \in 1..h /\ j = (j - 1) + 1 /\ j - 1 \in 1..n
          BY <1>6, <3>3
        <5>. QED BY <5>1
      <4>2. w.ops[m + 1] = x[m]
        BY <1>12, <1>13 DEF Headed
      <4>3. x[m] = a[m] /\ c[m + 1] = a[m]
        BY <1>5, <1>10, <4>1
      <4>. QED BY <3>1, <4>1, <4>2, <4>3
    <3>. QED BY <3>2, <3>3
  <2>3. w.ops = y
    BY <1>9, <2>1, <2>2, SeqEqual
  <2>. QED BY <1>12, <1>13, <2>3 DEF Headed
<1>15. w = [ops |-> y, tail |-> 0]
  <2>1. u = [ops |-> x, tail |-> 0]
    BY <1>11
  <2>2. PICK os : os = <<op>> \o u.ops
    OBVIOUS
  <2>3. [u EXCEPT !.ops = os] = [ops |-> os, tail |-> 0]
    BY <2>1
  <2>4. w = [ops |-> os, tail |-> 0]
    BY <1>13, <2>2, <2>3 DEF Prepend
  <2>. QED BY <1>14, <2>4
<1>16. Serialize(w) = OpBytes(op) \o Serialize(u) /\ Serialize(u) \in Seq(Byte)
  <2>1. u \in Script
    BY <1>12 DEF Parsed
  <2>. QED BY <1>13, <2>1, SerializeFirst
<1>17. BytesBefore(s, k) = Len(Serialize(u)) /\ BytesBefore(t, k + 1) = Len(Serialize(w))
  BY <1>4, <1>6, <1>7, <1>8, <1>11, <1>15 DEF BytesBefore
<1>18. Len(Serialize(w)) = op_length(op) + Len(Serialize(u)) /\ Len(Serialize(u)) \in Nat
  <2>1. PICK p \in Seq(Byte), q \in Seq(Byte) : p = OpBytes(op) /\ q = Serialize(u)
    BY <1>16, OpBytesType
  <2>2. Len(p) = op_length(op)
    BY <2>1, OpBytesType
  <2>3. Len(p \o q) = Len(p) + Len(q) /\ Len(q) \in Nat
    BY ConcatProperties, LenProperties
  <2>. QED BY <1>16, <2>1, <2>2, <2>3
<1>. QED BY <1>3, <1>17, <1>18

\* From offset i on, op_length steps over the operations that were parsed.
Agreed(b, i) ==
  LET s == ParseFrom(b)[i]
  IN  \A k \in DOMAIN s.ops : OpLengthAt(b, i + BytesBefore(s, k)) = op_length(s.ops[k])

LEMMA AgreedAtTake ==
  ASSUME NEW b \in Item, NEW i \in 1..Len(b), NEW op \in ScriptOp,
         NEW next \in (i + 1)..(Len(b) + 1), Takes(b, i, op, next), Agreed(b, next)
  PROVE  Agreed(b, i)
<1>1. PICK n \in Nat : n = Len(b)
  BY LenProperties DEF Item
<1>2. PICK r \in Parsed : r = ParseFrom(b)[next]
  <2>1. next \in 1..(Len(b) + 1)
    BY <1>1
  <2>. QED BY <2>1, ParseExists
<1>3. PICK s \in Parsed : s = ParseFrom(b)[i] /\ s = Prepend(op, r)
  <2>1. i \in 1..(Len(b) + 1)
    BY <1>1
  <2>. QED BY <1>2, <2>1, ParseExists DEF Takes
<1>4. PICK m \in Nat : m = Len(r.ops) /\ DOMAIN r.ops = 1..m /\ r \in Script
  BY LenProperties DEF Parsed, Script
<1>5. Headed(op, r, m, s)
  BY <1>3, <1>4, PrependIs
<1>6. DOMAIN s.ops = 1..(m + 1)
  BY <1>5, LenProperties DEF Headed
<1>7. ASSUME NEW k \in 1..(m + 1)
      PROVE  OpLengthAt(b, i + BytesBefore(s, k)) = op_length(s.ops[k])
  <2>1. CASE k = 1
    <3>1. BytesBefore(s, 1) = 0 /\ i + 0 = i
      BY <1>1, BeforeFirst
    <3>2. s.ops[1] = op
      BY <1>5 DEF Headed
    <3>3. OpLengthAt(b, i) = op_length(op)
      BY DEF Takes
    <3>. QED BY <2>1, <3>1, <3>2, <3>3
  <2>2. CASE k # 1
    <3>1. PICK h \in 1..m : k = h + 1
      <4>1. k - 1 \in 1..m /\ k = (k - 1) + 1
        BY <2>2
      <4>. QED BY <4>1
    <3>2. PICK x \in Nat : x = BytesBefore(r, h) /\ BytesBefore(s, k) = op_length(op) + x
      BY <1>3, <1>4, <3>1, BeforeLater
    <3>3. i + BytesBefore(s, k) = next + x
      <4>1. PICK y \in Nat : y = op_length(op)
        BY OpBytesType
      <4>2. next = i + y
        BY <4>1 DEF Takes
      <4>. QED BY <1>1, <3>2, <4>1, <4>2
    <3>4. s.ops[k] = r.ops[h]
      BY <1>5, <3>1 DEF Headed
    <3>5. OpLengthAt(b, next + x) = op_length(r.ops[h])
      BY <1>2, <1>4, <3>2 DEF Agreed
    <3>. QED BY <3>3, <3>4, <3>5
  <2>. QED BY <2>1, <2>2
<1>. QED BY <1>3, <1>6, <1>7 DEF Agreed

LEMMA NothingAgreed ==
  ASSUME NEW b, NEW i, NEW t, ParseFrom(b)[i] = [ops |-> << >>, tail |-> t]
  PROVE  Agreed(b, i)
<1>1. DOMAIN ParseFrom(b)[i].ops = {}
  OBVIOUS
<1>. QED BY <1>1 DEF Agreed

LEMMA AgreedEverywhere ==
  ASSUME NEW b \in Item
  PROVE  \A i \in 1..(Len(b) + 1) : Agreed(b, i)
<1>1. PICK n \in Nat : n = Len(b)
  BY LenProperties DEF Item
<1>2. PICK m \in Nat : m = n + 1
  OBVIOUS
<1> DEFINE P == {i \in 1..m : Agreed(b, i)}
<1>3. ASSUME NEW i \in 1..m, \A j \in (i + 1)..m : j \in P
      PROVE  i \in P
  <2>1. CASE i = m
    <3>1. Agreed(b, Len(b) + 1)
      BY ParseAtEnd, NothingAgreed
    <3>. QED BY <1>1, <1>2, <2>1, <3>1
  <2>2. CASE i # m
    <3>1. i \in 1..Len(b)
      BY <1>1, <1>2, <2>2
    <3>2. CASE StopsAt(b, i)
      <4>1. Agreed(b, i)
        BY <3>2, NothingAgreed DEF StopsAt
      <4>. QED BY <4>1
    <3>3. CASE TakesOne(b, i)
      <4>1. PICK op \in ScriptOp, next \in (i + 1)..(Len(b) + 1) : Takes(b, i, op, next)
        BY <3>3 DEF TakesOne
      <4>2. Agreed(b, next)
        <5>1. next \in (i + 1)..m
          BY <1>1, <1>2
        <5>2. next \in P
          BY <1>3, <5>1
        <5>. QED BY <5>2
      <4>3. Agreed(b, i)
        BY <3>1, <4>1, <4>2, AgreedAtTake
      <4>. QED BY <4>3
    <3>. QED BY <3>1, <3>2, <3>3, TakesOrStops
  <2>. QED BY <2>1, <2>2
<1>4. \A i \in 1..m : i \in P
  <2>. HIDE DEF P
  <2>1. \A i \in 1..m : (\A j \in (i + 1)..m : j \in P) => i \in P
    BY <1>3
  <2>. QED BY <2>1, Backwards
<1>5. \A i \in 1..m : Agreed(b, i)
  BY <1>4
<1>. QED BY <1>1, <1>2, <1>5

\* The two walks over the bytes of a script meet the same operations.
LEMMA Agree == ASSUME NEW b \in Item PROVE WalksAgree(b)
<1>1. PICK n \in Nat : n = Len(b)
  BY LenProperties DEF Item
<1>2. PICK s : s = Parse(b) /\ s = ParseFrom(b)[1]
  BY ParseIs
<1>3. KeptFrom(b, 1) /\ Agreed(b, 1)
  <2>1. 1 \in 1..(Len(b) + 1)
    BY <1>1
  <2>. QED BY <2>1, KeptEverywhere, AgreedEverywhere
<1>4. \A k \in DOMAIN s.ops : OpLengthAt(b, 1 + BytesBefore(s, k)) = op_length(s.ops[k])
  BY <1>2, <1>3 DEF Agreed
<1>5. s.tail > 0 => OpLengthAt(b, Len(b) + 1 - s.tail) = s.tail
  BY <1>2, <1>3 DEF KeptFrom
<1>6. \A i \in 1..Len(b) : OpLengthAt(b, i) \in 1..(Len(b) + 1 - i)
  BY LengthAdvances
<1>. QED BY <1>2, <1>4, <1>5, <1>6 DEF WalksAgree, BytesBefore

------------------------------------------------------------------------------
(* Deleting the push of a signature.                                       *)

\* What is left of one operation.
Remains(op, patterns) == IF op \in patterns THEN << >> ELSE <<op>>

LEMMA RemainsType ==
  ASSUME NEW op \in ScriptOp, NEW patterns
  PROVE  Remains(op, patterns) \in Seq(ScriptOp)
<1>1. << >> \in Seq(ScriptOp) /\ <<op>> \in Seq(ScriptOp)
  OBVIOUS
<1>. QED BY <1>1, Zenon DEF Remains

LEMMA DeletesIs ==
  ASSUME NEW ops \in Seq(ScriptOp), NEW n \in Nat, n = Len(ops), NEW patterns
  PROVE  /\ [k \in 1..n |-> Remains(ops[k], patterns)] \in [1..n -> Seq(ScriptOp)]
         /\ find_and_delete(ops, patterns) =
              FlattenSeq([k \in 1..n |-> Remains(ops[k], patterns)])
         /\ find_and_delete(ops, patterns) \in Seq(ScriptOp)
<1> DEFINE c == [k \in 1..n |-> Remains(ops[k], patterns)]
<1>1. c \in [1..n -> Seq(ScriptOp)]
  <2>1. ASSUME NEW k \in 1..n PROVE Remains(ops[k], patterns) \in Seq(ScriptOp)
    <3>1. PICK op \in ScriptOp : op = ops[k]
      OBVIOUS
    <3>. QED BY <3>1, RemainsType
  <2>. QED BY <2>1
<1>2. find_and_delete(ops, patterns) = FlattenSeq(c)
  BY DEF find_and_delete, Remains
<1>. HIDE DEF c
<1>3. FlattenSeq(c) \in Seq(ScriptOp)
  BY <1>1, FlattenType
<1>. QED BY <1>1, <1>2, <1>3 DEF c

LEMMA DeletesFirst ==
  ASSUME NEW op \in ScriptOp, NEW s \in Script, NEW patterns
  PROVE  /\ find_and_delete(Prepend(op, s).ops, patterns) =
              Remains(op, patterns) \o find_and_delete(s.ops, patterns)
         /\ find_and_delete(s.ops, patterns) \in Seq(ScriptOp)
<1>1. PICK ops \in Seq(ScriptOp), n \in Nat : ops = s.ops /\ n = Len(ops)
  BY LenProperties DEF Script
<1>2. PICK t : t = Prepend(op, s) /\ Headed(op, s, n, t)
  BY <1>1, PrependIs
<1>3. PICK all \in Seq(ScriptOp), m \in Nat :
        /\ all = t.ops /\ m = n + 1 /\ Len(all) = m /\ all[1] = op
        /\ \A k \in 1..n : all[k + 1] = ops[k]
  BY <1>1, <1>2 DEF Headed
<1> DEFINE c == [k \in 1..n |-> Remains(ops[k], patterns)]
           d == [k \in 1..m |-> Remains(all[k], patterns)]
<1>4. /\ c \in [1..n -> Seq(ScriptOp)] /\ d \in [1..m -> Seq(ScriptOp)]
      /\ find_and_delete(ops, patterns) = FlattenSeq(c)
      /\ find_and_delete(ops, patterns) \in Seq(ScriptOp)
      /\ find_and_delete(all, patterns) = FlattenSeq(d)
  BY <1>1, <1>3, DeletesIs
<1>5. OneMore(c, n, d)
  <2>1. ASSUME NEW k \in 1..n PROVE d[k + 1] = c[k]
    <3>1. k + 1 \in 1..m
      BY <1>3
    <3>2. all[k + 1] = ops[k]
      BY <1>3
    <3>. QED BY <3>1, <3>2
  <2>. HIDE DEF c, d
  <2>. QED BY <2>1 DEF OneMore
<1>6. d[1] = Remains(op, patterns)
  <2>1. 1 \in 1..m
    BY <1>3
  <2>. QED BY <1>3, <2>1
<1>. HIDE DEF c, d
<1>7. FlattenSeq(d) = d[1] \o FlattenSeq(c)
  <2>1. m = n + 1
    BY <1>3
  <2>2. c \in [1..n -> Seq(ScriptOp)] /\ d \in [1..(n + 1) -> Seq(ScriptOp)]
    BY <1>4, <2>1
  <2>. QED BY <1>5, <2>2, FlattenFirst
<1>. QED BY <1>1, <1>2, <1>3, <1>4, <1>6, <1>7

\* Nothing is deleted from nothing.
LEMMA DeletesNothing == ASSUME NEW patterns PROVE find_and_delete(<< >>, patterns) = << >>
<1>1. << >> \in Seq(ScriptOp) /\ Len(<< >>) = 0 /\ 0 \in Nat
  OBVIOUS
<1>2. PICK ops \in Seq(ScriptOp), n \in Nat : ops = << >> /\ n = 0 /\ n = Len(ops)
  BY <1>1
<1> DEFINE c == [k \in 1..n |-> Remains(ops[k], patterns)]
<1>3. c \in [1..n -> Seq(ScriptOp)] /\ find_and_delete(ops, patterns) = FlattenSeq(c)
  BY <1>2, DeletesIs
<1>. HIDE DEF c
<1>4. PICK f \in [0..n -> Seq(ScriptOp)] : Flat(c, n, f) /\ f[n] = FlattenSeq(c)
  BY <1>3, FlattenIs
<1>. QED BY <1>2, <1>3, <1>4 DEF Flat

\* The push of a signature, written out in m bytes.
IsPush(sig, op, m, p) ==
  /\ op = encode_push(sig) /\ op \in ScriptOp /\ op.data = sig
  /\ p = OpBytes(op) /\ p \in Item /\ m = op_length(op) /\ Len(p) = m
  /\ \/ LengthBytes(op.opcode) = 0 /\ op.opcode = Len(sig) /\ Len(sig) < 76
     \/ LengthBytes(op.opcode) \in {1, 2, 4} /\ FitsField(Len(sig), LengthBytes(op.opcode))
        /\ ~(op.opcode < 76)

LEMMA PushIs ==
  ASSUME NEW sig \in Item, Len(sig) < TWO24
  PROVE  \E op \in ScriptOp, m \in Nat \ {0}, p \in Item : IsPush(sig, op, m, p)
<1>1. PICK n \in Nat : n = Len(sig) /\ n < TWO24
  BY LenProperties DEF Item
<1>2. PICK v \in 0..255 :
        /\ v = IF n < OP_PUSHDATA1 THEN n
               ELSE IF n <= 255 THEN OP_PUSHDATA1
               ELSE IF n <= 65535 THEN OP_PUSHDATA2 ELSE OP_PUSHDATA4
  BY DEF OP_PUSHDATA1, OP_PUSHDATA2, OP_PUSHDATA4
<1>3. PICK op : op = encode_push(sig) /\ op = [opcode |-> v, data |-> sig]
  <2>1. encode_push(sig) =
          [opcode |-> IF n < OP_PUSHDATA1 THEN n
                      ELSE IF n <= 255 THEN OP_PUSHDATA1
                      ELSE IF n <= 65535 THEN OP_PUSHDATA2 ELSE OP_PUSHDATA4,
           data |-> sig]
    BY <1>1, SMT DEF encode_push
  <2>2. encode_push(sig) = [opcode |-> v, data |-> sig]
    BY <1>2, <2>1, SMT
  <2>. QED BY <2>2
<1>4. op \in ScriptOp /\ op.opcode = v /\ op.data = sig
  BY <1>3 DEF ScriptOp, Opcode
<1>5. \/ LengthBytes(v) = 0 /\ v = n /\ n < 76
      \/ LengthBytes(v) \in {1, 2, 4} /\ FitsField(n, LengthBytes(v)) /\ ~(v < 76)
  <2>1. CASE n < OP_PUSHDATA1
    <3>1. v = n /\ n < 76
      BY <1>2, <2>1 DEF OP_PUSHDATA1
    <3>. QED BY <3>1, LengthBytesIs
  <2>2. CASE ~(n < OP_PUSHDATA1) /\ n <= 255
    <3>1. v = 76 /\ LengthBytes(v) = 1
      BY <1>2, <2>2, LengthBytesIs DEF OP_PUSHDATA1
    <3>. QED BY <1>1, <2>2, <3>1 DEF FitsField
  <2>3. CASE ~(n < OP_PUSHDATA1) /\ ~(n <= 255) /\ n <= 65535
    <3>1. v = 77
      BY <1>2, <2>3, SMT DEF OP_PUSHDATA1, OP_PUSHDATA2
    <3>2. LengthBytes(v) = 2
      BY <3>1 DEF OP_PUSHDATA1, OP_PUSHDATA2, OP_PUSHDATA4, LengthBytes
    <3>. QED BY <1>1, <2>3, <3>1, <3>2 DEF FitsField
  <2>4. CASE ~(n < OP_PUSHDATA1) /\ ~(n <= 255) /\ ~(n <= 65535)
    <3>1. v = 78 /\ LengthBytes(v) = 4
      BY <1>2, <2>4 DEF OP_PUSHDATA1, OP_PUSHDATA2, OP_PUSHDATA4, LengthBytes
    <3>. QED BY <1>1, <3>1 DEF FitsField
  <2>. QED BY <2>1, <2>2, <2>3, <2>4
<1>6. PICK p \in Item, m \in Nat : p = OpBytes(op) /\ m = op_length(op) /\ Len(p) = m
  BY <1>4, OpBytesType DEF Item
<1>7. m # 0
  <2>1. LengthBytes(v) \in Nat
    BY <1>5
  <2>2. m = 1 + LengthBytes(v) + n
    BY <1>1, <1>4, <1>6 DEF op_length
  <2>. QED BY <2>1, <2>2
<1>8. IsPush(sig, op, m, p)
  BY <1>1, <1>3, <1>4, <1>5, <1>6 DEF IsPush
<1>. QED BY <1>4, <1>7, <1>8

\* At an offset where the parser takes an operation, the push of a signature
\* occurs only as that whole operation.
LEMMA OccursIs ==
  ASSUME NEW b \in Item, NEW i \in 1..Len(b), NEW op \in ScriptOp, NEW next \in 1..(Len(b) + 1),
         Takes(b, i, op, next), NEW sig \in Item, NEW pat \in ScriptOp,
         NEW m \in Nat \ {0}, NEW p \in Item, IsPush(sig, pat, m, p)
  PROVE  OccursAt(b, i, p) <=> op = pat
<1>1. PICK n \in Nat : n = Len(b)
  BY LenProperties DEF Item
<1>2. Len(p) = m /\ p = OpBytes(pat) /\ m = op_length(pat)
  BY DEF IsPush
<1>3. i \in Nat /\ 1 <= i /\ next \in 1..(n + 1)
  BY <1>1
<1>4. ASSUME op = pat PROVE OccursAt(b, i, p)
  <2>1. next = i + m /\ SubSeq(b, i, next - 1) = p
    BY <1>2, <1>4 DEF Takes
  <2>2. i + m <= n + 1
    BY <1>3, <2>1
  <2>. QED BY <1>1, <1>2, <2>1, <2>2 DEF OccursAt
<1>5. ASSUME OccursAt(b, i, p) PROVE op = pat
  <2>1. i + m <= n + 1 /\ SubSeq(b, i, i + m - 1) = p
    BY <1>1, <1>2, <1>5 DEF OccursAt
  <2>2. PICK d \in Nat : d = Len(sig)
    BY LenProperties DEF Item
  <2>3. PICK l \in {0, 1, 2, 4}, v \in 0..255 : l = LengthBytes(v) /\ v = pat.opcode
    <3>1. PICK v \in 0..255 : v = pat.opcode
      BY DEF ScriptOp, Opcode
    <3>. QED BY <3>1, LengthBytesIs
  <2>4. pat.data = sig /\ m = 1 + l + d /\ WrittenOp(pat, l, d)
    <3>1. pat.data = sig
      BY DEF IsPush
    <3>2. m = 1 + l + d
      BY <1>2, <2>2, <2>3, <3>1 DEF op_length
    <3>. QED BY <2>2, <2>3, <3>1, <3>2, OpBytesIs
  <2>5. ASSUME NEW k \in 1..m PROVE p[k] = b[i + k - 1]
    <3>1. PICK h \in Nat : h = i + m - 1 /\ i <= h + 1 /\ h <= n /\ h + 1 - i = m
      <4>1. i + m - 1 \in Nat /\ i <= i + m - 1 + 1 /\ i + m - 1 <= n /\ i + m - 1 + 1 - i = m
        BY <1>3, <2>1
      <4>. QED BY <4>1
    <3>2. IsPart(b, i, h, SubSeq(b, i, h))
      BY <1>1, <1>3, <3>1, PartIs
    <3>. QED BY <2>1, <3>1, <3>2 DEF IsPart
  <2>6. b[i] = v
    <3>1. 1 \in 1..m /\ i + 1 - 1 = i
      BY <1>3
    <3>2. p[1] = v
      BY <1>2, <2>3, <2>4 DEF WrittenOp
    <3>. QED BY <2>5, <3>1, <3>2
  <2>7. DataLength(b, i) = d
    <3>1. CASE l = 0
      <4>1. v = d /\ v < OP_PUSHDATA1
        BY <2>2, <2>3, <3>1 DEF IsPush, OP_PUSHDATA1
      <4>. QED BY <2>6, <4>1 DEF DataLength
    <3>2. CASE l # 0
      <4>1. l \in {1, 2, 4} /\ FitsField(d, l) /\ ~(v < OP_PUSHDATA1)
        BY <2>2, <2>3, <3>2 DEF IsPush, OP_PUSHDATA1
      <4>2. PICK j \in Nat : j = i + 1
        BY <1>3
      <4>3. FieldHolds(b, j, l, d)
        <5>1. ASSUME NEW k \in 1..l PROVE b[j + k - 1] = ByteAt(d, k)
          <6>1. 1 + k \in 1..m /\ i + (1 + k) - 1 = j + k - 1
            BY <1>3, <2>4, <4>2
          <6>2. p[1 + k] = ByteAt(d, k)
            BY <1>2, <2>4 DEF WrittenOp
          <6>. QED BY <2>5, <6>1, <6>2
        <5>. QED BY <5>1 DEF FieldHolds
      <4>4. LittleEndian(b, j, l) = d
        BY <4>1, <4>3, LengthOfField, Zenon
      <4>. QED BY <2>3, <2>6, <4>1, <4>2, <4>4 DEF DataLength
    <3>. QED BY <3>1, <3>2
  <2>8. op.opcode = v /\ Len(op.data) = d /\ op_length(op) = m
    <3>1. op.opcode = v /\ Len(op.data) = d
      BY <2>6, <2>7 DEF Takes
    <3>. QED BY <2>3, <2>4, <3>1 DEF op_length
  <2>9. OpBytes(op) = p
    <3>1. next = i + m /\ SubSeq(b, i, next - 1) = OpBytes(op)
      BY <2>8, Zenon DEF Takes
    <3>2. next - 1 = i + m - 1
      BY <3>1
    <3>. QED BY <2>1, <3>1, <3>2
  <2>10. WrittenOp(op, l, d)
    BY <2>3, <2>8, OpBytesIs
  <2>11. op.data = sig
    <3>1. op.data \in Seq(Byte) /\ sig \in Seq(Byte)
      BY DEF ScriptOp, Item
    <3>2. ASSUME NEW k \in 1..d PROVE op.data[k] = sig[k]
      <4>1. OpBytes(op)[1 + l + k] = op.data[k]
        BY <2>10 DEF WrittenOp
      <4>2. OpBytes(pat)[1 + l + k] = sig[k]
        BY <2>4 DEF WrittenOp
      <4>. QED BY <1>2, <2>9, <4>1, <4>2
    <3>. QED BY <2>2, <2>8, <3>1, <3>2, SeqEqual
  <2>12. op = [opcode |-> op.opcode, data |-> op.data]
         /\ pat = [opcode |-> pat.opcode, data |-> pat.data]
    BY DEF ScriptOp
  <2>. QED BY <2>3, <2>4, <2>8, <2>11, <2>12
<1>. QED BY <1>4, <1>5

\* One turn of find_and_delete at offset i, where f holds what is left of the
\* rests.
DeleteStep(b, p, f, i) ==
  IF i > Len(b) THEN << >>
  ELSE IF OccursAt(b, i, p) THEN f[i + Len(p)]
  ELSE LET next == i + OpLengthAt(b, i)
       IN  SubSeq(b, i, next - 1) \o f[next]

DeleteFrom(b, p) == CHOOSE f : f = [i \in 1..(Len(b) + 1) |-> DeleteStep(b, p, f, i)]

LEMMA DeleteIs ==
  ASSUME NEW b, NEW p, Len(p) # 0
  PROVE  FindAndDelete(b, p) = DeleteFrom(b, p)[1]
BY DEF FindAndDelete, DeleteFrom, DeleteStep

\* find_and_delete ends on every script.
LEMMA DeleteExists ==
  ASSUME NEW b \in Item, NEW p \in Item, NEW m \in Nat \ {0}, m = Len(p)
  PROVE  \A i \in 1..(Len(b) + 1) :
           DeleteFrom(b, p)[i] = DeleteStep(b, p, DeleteFrom(b, p), i)
<1>1. PICK n \in Nat : n = Len(b)
  BY LenProperties DEF Item
<1> DEFINE N == [i \in 1..n |-> IF OccursAt(b, i, p) THEN i + m ELSE i + OpLengthAt(b, i)]
<1>2. \A i \in 1..n : i < N[i] /\ N[i] \in 1..(n + 1)
  <2> TAKE i \in 1..n
  <2>1. CASE OccursAt(b, i, p)
    <3>1. i + m <= n + 1
      BY <1>1, <2>1 DEF OccursAt
    <3>. QED BY <2>1, <3>1
  <2>2. CASE ~OccursAt(b, i, p)
    <3>1. PICK x \in 1..(n + 1 - i) : x = OpLengthAt(b, i)
      BY <1>1, LengthAdvances
    <3>. QED BY <2>2, <3>1
  <2>. QED BY <2>1, <2>2
<1>3. N \in [1..n -> 1..(n + 1)]
  BY <1>2
<1> DEFINE Left(i, x) == IF OccursAt(b, i, p) THEN x ELSE SubSeq(b, i, N[i] - 1) \o x
           G == [i \in 1..n |-> [x \in Item |-> Left(i, x)]]
<1>4. ASSUME NEW i \in 1..n, NEW x \in Item PROVE Left(i, x) \in Item
  <2>1. PICK h \in Nat : h = N[i] - 1 /\ i <= h + 1 /\ h <= Len(b)
    <3>1. N[i] - 1 \in Nat /\ i <= N[i] - 1 + 1 /\ N[i] - 1 <= n
      BY <1>2
    <3>. QED BY <1>1, <3>1
  <2>2. SubSeq(b, i, h) \in Item
    <3>1. i \in Nat /\ 1 <= i
      OBVIOUS
    <3>. QED BY <2>1, <3>1, PartIs
  <2>3. SubSeq(b, i, h) \o x \in Item
    BY <2>2, ConcatProperties DEF Item
  <2>. QED BY <2>1, <2>3
<1>5. G \in [1..n -> [Item -> Item]]
  <2>1. ASSUME NEW i \in 1..n PROVE G[i] \in [Item -> Item]
    <3>1. \A x \in Item : Left(i, x) \in Item
      BY <1>4
    <3>. HIDE DEF Left
    <3>. QED BY <3>1
  <2>. HIDE DEF Left
  <2>2. G \in [1..n -> [Item -> Item]] <=> \A i \in 1..n : G[i] \in [Item -> Item]
    OBVIOUS
  <2>. HIDE DEF G
  <2>. QED BY <2>1, <2>2
<1>6. << >> \in Item
  BY DEF Item
<1>7. PICK f \in [1..(n + 1) -> Item] : Jumps(n, N, G, << >>, f)
  <2>. HIDE DEF N, G
  <2>1. \A i \in 1..n : i < N[i]
    BY <1>2
  <2>. QED BY <1>3, <1>5, <1>6, <2>1, JumpsExist
<1>8. ASSUME NEW i \in 1..(n + 1) PROVE f[i] = DeleteStep(b, p, f, i)
  <2>1. CASE i > n
    BY <1>1, <1>7, <2>1 DEF Jumps, DeleteStep
  <2>2. CASE ~(i > n)
    <3>1. i \in 1..n
      BY <2>2
    <3>2. f[i] = G[i][f[N[i]]]
      BY <1>7, <2>2 DEF Jumps
    <3>3. f[N[i]] \in Item
      BY <1>2, <1>7, <3>1
    <3>4. G[i][f[N[i]]] = Left(i, f[N[i]])
      <4>. HIDE DEF Left, N
      <4>. QED BY <3>1, <3>3
    <3>5. N[i] = IF OccursAt(b, i, p) THEN i + m ELSE i + OpLengthAt(b, i)
      BY <3>1
    <3>. HIDE DEF N, G
    <3>6. f[i] = IF OccursAt(b, i, p) THEN f[N[i]] ELSE SubSeq(b, i, N[i] - 1) \o f[N[i]]
      BY <3>2, <3>4
    <3>7. CASE OccursAt(b, i, p)
      BY <1>1, <2>2, <3>5, <3>6, <3>7 DEF DeleteStep
    <3>8. CASE ~OccursAt(b, i, p)
      BY <1>1, <2>2, <3>5, <3>6, <3>8 DEF DeleteStep
    <3>. QED BY <3>7, <3>8
  <2>. QED BY <2>1, <2>2
<1>9. f = [i \in 1..(n + 1) |-> DeleteStep(b, p, f, i)]
  <2>1. f = [i \in 1..(n + 1) |-> f[i]]
    BY <1>7
  <2>. QED BY <1>8, <2>1
<1>10. DeleteFrom(b, p) = [i \in 1..(n + 1) |-> DeleteStep(b, p, DeleteFrom(b, p), i)]
  BY <1>1, <1>9 DEF DeleteFrom
<1>. QED BY <1>1, <1>10

\* From offset i on, what is left of the bytes is what is left of the
\* operations.
Deleted(b, p, op, i) ==
  LET s == ParseFrom(b)[i]
  IN  s.tail = 0 =>
        DeleteFrom(b, p)[i] = Serialize([ops |-> find_and_delete(s.ops, {op}), tail |-> 0])

LEMMA DeletedAtTake ==
  ASSUME NEW b \in Item, NEW i \in 1..Len(b), NEW op \in ScriptOp,
         NEW next \in (i + 1)..(Len(b) + 1), Takes(b, i, op, next),
         NEW sig \in Item, NEW pat \in ScriptOp,
         NEW m \in Nat \ {0}, NEW p \in Item, IsPush(sig, pat, m, p),
         Deleted(b, p, pat, next)
  PROVE  Deleted(b, p, pat, i)
<1>1. PICK n \in Nat : n = Len(b)
  BY LenProperties DEF Item
<1>2. next \in 1..(n + 1) /\ i \in 1..(n + 1) /\ ~(i > n)
  BY <1>1
<1>3. PICK r \in Parsed : r = ParseFrom(b)[next]
  BY <1>1, <1>2, ParseExists
<1>4. PICK s : s = ParseFrom(b)[i] /\ s = Prepend(op, r)
  BY <1>3 DEF Takes
<1>5. PICK k \in Nat : k = Len(r.ops) /\ r \in Script
  BY LenProperties DEF Parsed, Script
<1>6. s.tail = r.tail
  BY <1>4, <1>5, PrependIs DEF Headed
<1>7. PICK f : f = DeleteFrom(b, p) /\ m = Len(p)
  BY DEF IsPush
<1>8. f[i] = DeleteStep(b, p, f, i)
  BY <1>1, <1>2, <1>7, DeleteExists
<1>9. PICK q \in Seq(ScriptOp) :
        /\ q = find_and_delete(r.ops, {pat})
        /\ find_and_delete(s.ops, {pat}) = Remains(op, {pat}) \o q
  <2>1. PICK pats : pats = {pat}
    OBVIOUS
  <2>2. r \in Script
    BY <1>5
  <2>3. /\ find_and_delete(Prepend(op, r).ops, pats) =
             Remains(op, pats) \o find_and_delete(r.ops, pats)
        /\ find_and_delete(r.ops, pats) \in Seq(ScriptOp)
    BY <2>2, DeletesFirst
  <2>. QED BY <1>4, <2>1, <2>3
<1>10. OccursAt(b, i, p) <=> op = pat
  BY <1>1, <1>2, OccursIs
<1>11. r.tail = 0 => f[next] = Serialize([ops |-> q, tail |-> 0])
  BY <1>3, <1>7, <1>9 DEF Deleted
<1>12. next = i + op_length(op) /\ OpLengthAt(b, i) = op_length(op)
       /\ SubSeq(b, i, next - 1) = OpBytes(op)
  BY DEF Takes
<1>13. CASE op = pat
  <2>1. Remains(op, {pat}) \o q = q
    <3>1. << >> \o q = q
      BY ConcatEmptySeq
    <3>2. Remains(op, {pat}) = << >>
      BY <1>13 DEF Remains
    <3>. QED BY <3>1, <3>2
  <2>2. f[i] = f[next]
    <3>1. op_length(op) = m
      BY <1>13 DEF IsPush
    <3>. QED BY <1>1, <1>2, <1>7, <1>8, <1>10, <1>12, <1>13, <3>1 DEF DeleteStep
  <2>. QED BY <1>4, <1>6, <1>7, <1>9, <1>11, <2>1, <2>2 DEF Deleted
<1>14. CASE op # pat
  <2>1. Remains(op, {pat}) = <<op>>
    BY <1>14 DEF Remains
  <2>2. f[i] = OpBytes(op) \o f[next]
    BY <1>1, <1>2, <1>8, <1>10, <1>12, <1>14 DEF DeleteStep
  <2>3. PICK u : u = [ops |-> q, tail |-> 0]
    OBVIOUS
  <2>4. u \in Script
    BY <2>3 DEF Script
  <2>5. Prepend(op, u) = [ops |-> <<op>> \o q, tail |-> 0]
    <3>1. PICK os : os = <<op>> \o q
      OBVIOUS
    <3>2. [u EXCEPT !.ops = os] = [ops |-> os, tail |-> 0] /\ u.ops = q
      BY <2>3
    <3>. QED BY <3>1, <3>2 DEF Prepend
  <2>6. Serialize(Prepend(op, u)) = OpBytes(op) \o Serialize(u)
    BY <2>4, SerializeFirst
  <2>. QED BY <1>4, <1>6, <1>7, <1>9, <1>11, <2>1, <2>2, <2>3, <2>5, <2>6 DEF Deleted
<1>. QED BY <1>13, <1>14

LEMMA DeletedAtEnd ==
  ASSUME NEW b \in Item, NEW p \in Item, NEW m \in Nat \ {0}, m = Len(p), NEW op
  PROVE  Deleted(b, p, op, Len(b) + 1)
<1>1. PICK n \in Nat : n = Len(b)
  BY LenProperties DEF Item
<1>2. ParseFrom(b)[n + 1].ops = << >>
  BY <1>1, ParseAtEnd
<1>3. find_and_delete(<< >>, {op}) = << >>
  BY DeletesNothing
<1>4. Serialize([ops |-> << >>, tail |-> 0]) = << >>
  BY SerializeNone
<1>5. DeleteFrom(b, p)[n + 1] = << >>
  <2>1. n + 1 \in 1..(Len(b) + 1) /\ n + 1 > Len(b)
    BY <1>1
  <2>2. DeleteFrom(b, p)[n + 1] = DeleteStep(b, p, DeleteFrom(b, p), n + 1)
    BY <2>1, DeleteExists
  <2>. QED BY <2>1, <2>2 DEF DeleteStep
<1>. QED BY <1>1, <1>2, <1>3, <1>4, <1>5 DEF Deleted

LEMMA DeletedAtStop ==
  ASSUME NEW b \in Item, NEW i \in 1..Len(b), StopsAt(b, i), NEW p, NEW op
  PROVE  Deleted(b, p, op, i)
<1>1. PICK n \in Nat : n = Len(b)
  BY LenProperties DEF Item
<1>2. ParseFrom(b)[i].tail = n + 1 - i
  BY <1>1 DEF StopsAt
<1>3. n + 1 - i # 0
  BY <1>1
<1>. QED BY <1>2, <1>3 DEF Deleted

LEMMA DeletedEverywhere ==
  ASSUME NEW b \in Item, NEW sig \in Item, NEW pat \in ScriptOp,
         NEW m \in Nat \ {0}, NEW p \in Item, IsPush(sig, pat, m, p)
  PROVE  \A i \in 1..(Len(b) + 1) : Deleted(b, p, pat, i)
<1>1. PICK n \in Nat : n = Len(b)
  BY LenProperties DEF Item
<1>2. PICK e \in Nat : e = n + 1
  OBVIOUS
<1> DEFINE P == {i \in 1..e : Deleted(b, p, pat, i)}
<1>3. ASSUME NEW i \in 1..e, \A j \in (i + 1)..e : j \in P
      PROVE  i \in P
  <2>1. CASE i = e
    <3>1. m = Len(p)
      BY DEF IsPush
    <3>2. Deleted(b, p, pat, Len(b) + 1)
      BY <3>1, DeletedAtEnd
    <3>. QED BY <1>1, <1>2, <2>1, <3>2
  <2>2. CASE i # e
    <3>1. i \in 1..Len(b)
      BY <1>1, <1>2, <2>2
    <3>2. CASE StopsAt(b, i)
      BY <3>1, <3>2, DeletedAtStop
    <3>3. CASE TakesOne(b, i)
      <4>1. PICK op \in ScriptOp, next \in (i + 1)..(Len(b) + 1) : Takes(b, i, op, next)
        BY <3>3 DEF TakesOne
      <4>2. Deleted(b, p, pat, next)
        <5>1. next \in (i + 1)..e
          BY <1>1, <1>2
        <5>2. next \in P
          BY <1>3, <5>1
        <5>. QED BY <5>2
      <4>3. Deleted(b, p, pat, i)
        BY <3>1, <4>1, <4>2, DeletedAtTake
      <4>. QED BY <4>3
    <3>. QED BY <3>1, <3>2, <3>3, TakesOrStops
  <2>. QED BY <2>1, <2>2
<1>4. \A i \in 1..e : i \in P
  <2>. HIDE DEF P
  <2>1. \A i \in 1..e : (\A j \in (i + 1)..e : j \in P) => i \in P
    BY <1>3
  <2>. QED BY <2>1, Backwards
<1>5. \A i \in 1..e : Deleted(b, p, pat, i)
  BY <1>4
<1>. QED BY <1>1, <1>2, <1>5

\* Deleting bytes is deleting operations.
LEMMA DeletesOps ==
  ASSUME NEW b \in Item, NEW sig \in Item, Len(sig) < TWO24
  PROVE  DeletesWholeOps(b, sig)
<1>1. PICK n \in Nat : n = Len(b)
  BY LenProperties DEF Item
<1>2. PICK pat \in ScriptOp, m \in Nat \ {0}, p \in Item : IsPush(sig, pat, m, p)
  BY PushIs
<1>3. PICK s \in Parsed : s = Parse(b) /\ s = ParseFrom(b)[1]
  BY ParseType, ParseIs
<1>4. Deleted(b, p, pat, 1)
  <2>1. 1 \in 1..(Len(b) + 1)
    BY <1>1
  <2>. QED BY <1>2, <2>1, DeletedEverywhere
<1>5. PushBytes(sig) = p /\ encode_push(sig) = pat /\ Len(p) # 0
  BY <1>2 DEF PushBytes, IsPush
<1>6. FindAndDelete(b, p) = DeleteFrom(b, p)[1]
  BY <1>5, DeleteIs
<1>7. ~Truncated(s) => s.tail = 0
  BY DEF Truncated, Parsed, Script
<1>. QED BY <1>3, <1>4, <1>5, <1>6, <1>7 DEF DeletesWholeOps, Deleted

------------------------------------------------------------------------------
(* Every script that is reached is a string of bytes.                      *)

LEMMA BytesInit == NoBytes => bytes \in Item
BY DEF NoBytes, Item

LEMMA BytesNext == bytes \in Item /\ [AppendByte]_bytes => (bytes \in Item)'
<1> SUFFICES ASSUME bytes \in Item, AppendByte PROVE bytes' \in Item
  OBVIOUS
<1>1. PICK byte \in Byte : bytes' = Append(bytes, byte)
  BY WalksAssumption DEF AppendByte
<1>. QED BY <1>1, AppendProperties DEF Item

\* Parsing loses and invents nothing, whatever the bytes of the script.
THEOREM ParsesFaithfully == WalksSpec => []ParseIsFaithful
<1>1. bytes \in Item => ParseIsFaithful
  BY KeepsBytes DEF ParseIsFaithful
<1>. QED BY <1>1, BytesInit, BytesNext, PTL DEF WalksSpec

\* The parser and op_length agree on where operations begin, also in a script
\* that ends in a truncated push.
THEOREM WalksMeet == WalksSpec => []BoundariesAgree
<1>1. bytes \in Item => BoundariesAgree
  BY Agree DEF BoundariesAgree
<1>. QED BY <1>1, BytesInit, BytesNext, PTL DEF WalksSpec

\* find_and_delete removes whole operations, whatever bytes the other pushes
\* hold and however long the signature is.
THEOREM DeletesByOperation == WalksSpec => []DeletionIsByOperation
<1>1. bytes \in Item => DeletionIsByOperation
  BY DeletesOps, WalksAssumption DEF DeletionIsByOperation
<1>. QED BY <1>1, BytesInit, BytesNext, PTL DEF WalksSpec

------------------------------------------------------------------------------
(* The two scripts that verify knows.                                      *)

\* The parser at an operation without a length field.
Short(v, d) == d \in 0..75 /\ (d = v \/ (d = 0 /\ v \in 79..255))

LEMMA ShortIs ==
  ASSUME NEW v \in 0..255, NEW d, Short(v, d)
  PROVE  LengthBytes(v) = 0 /\ d \in Nat /\ (v < 76 \/ v > 78) /\ (IF v < 76 THEN d = v ELSE d = 0)
BY LengthBytesIs DEF Short

GoesOn(b, i, d) ==
  /\ ParseFrom(b)[i + 1 + d] \in Parsed
  /\ ParseFrom(b)[i] = Prepend([opcode |-> b[i], data |-> SubSeq(b, i + 1, i + d)],
                               ParseFrom(b)[i + 1 + d])

LEMMA ParseAt ==
  ASSUME NEW b, NEW i, NEW d, Offset(b, i, d), Short(b[i], d)
  PROVE  GoesOn(b, i, d)
<1>1. PICK n : n = Len(b)
  OBVIOUS
<1>2. /\ n \in Nat /\ (\A k \in 1..n : b[k] \in 0..255) /\ i \in 1..n
      /\ d \in Nat /\ i + d <= n
  BY <1>1, OffsetIs DEF Offset
<1>3. i \in 1..(n + 1) /\ i + 1 + d \in 1..(n + 1)
  BY <1>2
<1>4. ParseFrom(b)[i] = ParseStep(b, ParseFrom(b), i) /\ ParseFrom(b)[i + 1 + d] \in Parsed
  BY <1>1, <1>3, ParseExists DEF Offset
<1>5. PICK v \in 0..255 : v = b[i]
  BY <1>2
<1>6. LengthBytes(v) = 0 /\ (v < 76 \/ v > 78) /\ (IF v < 76 THEN d = v ELSE d = 0)
  BY <1>5, ShortIs
<1>7. DataLength(b, i) = d
  <2>1. \A k \in (i + 1)..(i + LengthBytes(v)) : b[k] \in 0..255
    BY <1>2, <1>6
  <2>2. /\ v < 76 => DataLength(b, i) = v
        /\ v > 78 => DataLength(b, i) = 0
    <3>1. i \in Nat /\ b[i] = v
      BY <1>2, <1>5
    <3>. QED BY <2>1, <3>1, DataLengthIs, Zenon
  <2>. QED BY <1>6, <2>2
<1>8. /\ ~(i > n) /\ ~(i + 0 > n) /\ 1 + 0 + d = 1 + d
      /\ i + (1 + d) = i + 1 + d /\ ~(i + 1 + d > n + 1)
      /\ i + 1 + 0 = i + 1 /\ i + 1 + d - 1 = i + d
  BY <1>2
<1>9. ParsedSize(b, i) = 1 + d
  BY <1>1, <1>5, <1>6, <1>7, <1>8, Zenon DEF ParsedSize
<1>10. PICK l, size : l = LengthBytes(b[i]) /\ size = ParsedSize(b, i)
  OBVIOUS
<1>11. l = 0 /\ size = 1 + d
  BY <1>5, <1>6, <1>9, <1>10, Zenon
<1>12. PICK next, first, last :
          /\ next = i + size /\ next = i + 1 + d
          /\ first = i + 1 + l /\ first = i + 1
          /\ last = next - 1 /\ last = i + d
  BY <1>2, <1>11
<1>13. i + ParsedSize(b, i) = next /\ i + 1 + LengthBytes(b[i]) = first
  BY <1>10, <1>12, Zenon
<1>14. ~(i > Len(b)) /\ ~(next > Len(b) + 1)
  BY <1>1, <1>8, <1>12, Zenon
<1>15. \A f : ParseStep(b, f, i) =
               Prepend([opcode |-> b[i], data |-> SubSeq(b, first, next - 1)], f[next])
  BY <1>13, <1>14, Zenon DEF ParseStep
<1>16. PICK f : f = ParseFrom(b)
  OBVIOUS
<1>17. ParseStep(b, f, i) = Prepend([opcode |-> b[i], data |-> SubSeq(b, first, last)], f[next])
  BY <1>12, <1>15
<1>18. ParseFrom(b)[i] = Prepend([opcode |-> b[i], data |-> SubSeq(b, i + 1, i + d)],
                                 ParseFrom(b)[i + 1 + d])
  BY <1>4, <1>12, <1>16, <1>17
<1>. QED BY <1>4, <1>18, Zenon DEF GoesOn

\* Script t is operation op and then script s.
HeadsOps(op, s, t) ==
  /\ Len(s.ops) \in Nat /\ Len(t.ops) = Len(s.ops) + 1
  /\ t.ops[1] = op
  /\ Len(s.ops) >= 1 => t.ops[2] = s.ops[1]
  /\ Len(s.ops) >= 2 => t.ops[3] = s.ops[2]
  /\ Len(s.ops) >= 3 => t.ops[4] = s.ops[3]
  /\ Len(s.ops) >= 4 => t.ops[5] = s.ops[4]

LEMMA Prepended ==
  ASSUME NEW op, NEW s \in Parsed
  PROVE  HeadsOps(op, s, Prepend(op, s))
<1>1. s = [ops |-> s.ops, tail |-> s.tail] /\ s.ops \in Seq(ScriptOp \cup {op})
  BY SeqMonotonic DEF Parsed, Script
<1>2. <<op>> \in Seq(ScriptOp \cup {op}) /\ Len(<<op>>) = 1 /\ <<op>>[1] = op
  OBVIOUS
<1> DEFINE ops == <<op>> \o s.ops
<1>3. /\ Len(ops) = 1 + Len(s.ops) /\ Len(s.ops) \in Nat
      /\ \A k \in 1..Len(ops) : ops[k] = IF k <= 1 THEN op ELSE s.ops[k - 1]
  BY <1>1, <1>2, ConcatProperties, LenProperties
<1>4. Prepend(op, s) = [ops |-> ops, tail |-> s.tail]
  <2>1. PICK os : os = ops
    OBVIOUS
  <2>2. [s EXCEPT !.ops = os] = [ops |-> os, tail |-> s.tail]
    BY <1>1
  <2>. QED BY <2>1, <2>2 DEF Prepend
<1>. HIDE DEF ops
<1>5. ops[1] = op /\ Len(ops) = Len(s.ops) + 1
  BY <1>3
<1>7. /\ Len(s.ops) >= 1 => ops[2] = s.ops[1]
      /\ Len(s.ops) >= 2 => ops[3] = s.ops[2]
      /\ Len(s.ops) >= 3 => ops[4] = s.ops[3]
      /\ Len(s.ops) >= 4 => ops[5] = s.ops[4]
  BY <1>3
<1>8. [ops |-> ops, tail |-> s.tail].ops = ops
  OBVIOUS
<1>. QED BY <1>3, <1>4, <1>5, <1>7, <1>8, Zenon DEF HeadsOps

LEMMA OpAt ==
  ASSUME NEW b \in Item, NEW i \in Nat, NEW d \in Nat,
         1 <= i, i + d <= Len(b), Short(b[i], d)
  PROVE  GoesOn(b, i, d)
<1>1. Offset(b, i, d)
  <2>1. PICK n \in Nat : n = Len(b)
    BY OffsetIs
  <2>2. i \in 1..n
    BY <2>1
  <2>. QED BY <2>1, <2>2 DEF Offset
<1>. QED BY <1>1, ParseAt, Zenon

\* The three operations of a P2SH output.
LEMMA P2SHOps ==
  ASSUME NEW b \in Item, is_p2sh(b)
  PROVE  /\ Len(Parse(b).ops) = 3
         /\ Parse(b).ops[1].opcode = OP_HASH160
         /\ Parse(b).ops[2].opcode = 20 /\ Parse(b).ops[2].data = SubSeq(b, 3, 22)
         /\ Parse(b).ops[3].opcode = OP_EQUAL
<1>1. Len(b) = 23 /\ b[1] = 169 /\ b[2] = 20 /\ b[23] = 135
  BY DEF is_p2sh, OP_HASH160, OP_EQUAL
<1> DEFINE P(k) == ParseFrom(b)[k]
           Q(k, d) == [opcode |-> b[k], data |-> SubSeq(b, k + 1, k + d)]
<1>2. GoesOn(b, 1, 0) /\ GoesOn(b, 2, 20) /\ GoesOn(b, 23, 0)
  <2>1. Short(b[1], 0) /\ Short(b[2], 20) /\ Short(b[23], 0)
    BY <1>1 DEF Short
  <2>2. 1 + 0 <= Len(b) /\ 2 + 20 <= Len(b) /\ 23 + 0 <= Len(b)
    BY <1>1
  <2>3. /\ 0 \in Nat /\ 1 \in Nat /\ 2 \in Nat /\ 20 \in Nat /\ 23 \in Nat
        /\ 1 <= 1 /\ 1 <= 2 /\ 1 <= 23
    OBVIOUS
  <2>. QED BY <2>1, <2>2, <2>3, OpAt, Zenon
<1>3. P(24) = [ops |-> << >>, tail |-> 0]
  <2>1. Len(b) + 1 = 24
    BY <1>1
  <2>. QED BY <2>1, ParseAtEnd
<1>4. /\ P(2) \in Parsed /\ P(1) = Prepend(Q(1, 0), P(2))
      /\ P(23) \in Parsed /\ P(2) = Prepend(Q(2, 20), P(23))
      /\ P(24) \in Parsed /\ P(23) = Prepend(Q(23, 0), P(24))
  <2>1. /\ 1 + 1 + 0 = 2 /\ 2 + 1 + 20 = 23 /\ 23 + 1 + 0 = 24
    OBVIOUS
  <2>. QED BY <1>2, <2>1 DEF GoesOn
<1>5. Parse(b) = P(1)
  BY ParseIs
<1>6. PICK p1, p2, p3, p4 : p1 = P(1) /\ p2 = P(2) /\ p3 = P(23) /\ p4 = P(24)
  OBVIOUS
<1>7. PICK q1, q2, q3 : q1 = Q(1, 0) /\ q2 = Q(2, 20) /\ q3 = Q(23, 0)
  OBVIOUS
<1>. HIDE DEF P, Q
<1>8. /\ p1 = Prepend(q1, p2) /\ p2 = Prepend(q2, p3) /\ p3 = Prepend(q3, p4)
      /\ p2 \in Parsed /\ p3 \in Parsed /\ p4 \in Parsed /\ Len(p4.ops) = 0
  BY <1>3, <1>4, <1>6, <1>7
<1>9. /\ Len(p1.ops) = 3 /\ p1.ops[1] = q1 /\ p1.ops[2] = q2 /\ p1.ops[3] = q3
  <2>1. HeadsOps(q3, p4, p3) /\ HeadsOps(q2, p3, p2) /\ HeadsOps(q1, p2, p1)
    BY <1>8, Prepended, Zenon
  <2>2. Len(p3.ops) = 1 /\ p3.ops[1] = q3
    BY <1>8, <2>1 DEF HeadsOps
  <2>3. Len(p2.ops) = 2 /\ p2.ops[1] = q2 /\ p2.ops[2] = q3
    BY <2>1, <2>2 DEF HeadsOps
  <2>4. HeadsOps(q1, p2, p1)
    BY <2>1
  <2>. QED BY <2>3, <2>4 DEF HeadsOps
<1>10. Q(1, 0).opcode = 169 /\ Q(2, 20).opcode = 20 /\ Q(2, 20).data = SubSeq(b, 3, 22)
       /\ Q(23, 0).opcode = 135
  BY <1>1 DEF Q
<1>. QED BY <1>5, <1>6, <1>7, <1>9, <1>10 DEF OP_HASH160, OP_EQUAL

LEMMA KeyHashBytes ==
  ASSUME NEW hash \in Item, Len(hash) = 20
  PROVE  /\ P2WPKHScript(hash) \in Item /\ Len(P2WPKHScript(hash)) = 25
         /\ P2WPKHScript(hash)[1] = 118 /\ P2WPKHScript(hash)[2] = 169
         /\ P2WPKHScript(hash)[3] = 20 /\ P2WPKHScript(hash)[24] = 136
         /\ P2WPKHScript(hash)[25] = 172
         /\ SubSeq(P2WPKHScript(hash), 4, 23) = hash
<1>1. PICK head, tail : head = <<118, 169, 20>> /\ tail = <<136, 172>>
  OBVIOUS
<1>2. /\ head \in Seq(Byte) /\ tail \in Seq(Byte) /\ hash \in Seq(Byte)
      /\ Len(head) = 3 /\ Len(tail) = 2
      /\ head[1] = 118 /\ head[2] = 169 /\ head[3] = 20 /\ tail[1] = 136 /\ tail[2] = 172
  BY <1>1 DEF Item, Byte
<1>3. PICK c : c = head \o hash
  OBVIOUS
<1>4. PICK b : b = c \o tail /\ b = P2WPKHScript(hash)
  BY <1>1, <1>3 DEF P2WPKHScript, OP_DUP, OP_HASH160, OP_EQUALVERIFY, OP_CHECKSIG
<1>5. c \in Seq(Byte) /\ IsJoin(head, hash, 3, 20, c)
  <2>1. 3 \in Nat /\ 20 \in Nat
    OBVIOUS
  <2>2. head \in Seq(Byte) /\ hash \in Seq(Byte) /\ Len(head) = 3 /\ Len(hash) = 20
    BY <1>2
  <2>. QED BY <1>3, <2>1, <2>2, Joined
<1>6. Len(c) = 23 /\ \A i \in 1..23 : c[i] = IF i <= 3 THEN head[i] ELSE hash[i - 3]
  BY <1>5 DEF IsJoin
<1>7. b \in Seq(Byte) /\ IsJoin(c, tail, 23, 2, b)
  <2>1. 23 \in Nat /\ 2 \in Nat
    OBVIOUS
  <2>2. c \in Seq(Byte) /\ tail \in Seq(Byte) /\ Len(c) = 23 /\ Len(tail) = 2
    BY <1>2, <1>5, <1>6
  <2>. QED BY <1>4, <2>1, <2>2, Joined
<1>8. /\ Len(b) = 25
      /\ \A i \in 1..25 : b[i] = IF i <= 23 THEN c[i] ELSE tail[i - 23]
  BY <1>7 DEF IsJoin
<1>9. b[1] = 118 /\ b[2] = 169 /\ b[3] = 20 /\ b[24] = 136 /\ b[25] = 172
  BY <1>2, <1>6, <1>8
<1>10. \A i \in 1..20 : b[4 + i - 1] = hash[i]
  <2> TAKE i \in 1..20
  <2>1. PICK j : j = 4 + i - 1
    OBVIOUS
  <2>2. j \in 1..25 /\ j \in 1..23 /\ ~(j <= 3) /\ j <= 23 /\ j - 3 = i
    BY <2>1
  <2>. QED BY <1>6, <1>8, <2>1, <2>2
<1>11. SubSeq(b, 4, 23) = hash
  <2>1. \A i \in 4..23 : b[i] \in Byte
    <3> TAKE i \in 4..23
    <3>1. i \in 1..Len(b)
      BY <1>8
    <3>. QED BY <1>7, <3>1, ElementOfSeq
  <2>2. PICK s : s = SubSeq(b, 4, 23)
    OBVIOUS
  <2>3. /\ s \in Seq(Byte) /\ Len(s) = IF 4 <= 23 THEN 23 - 4 + 1 ELSE 0
        /\ \A i \in 1..(23 - 4 + 1) : s[i] = b[4 + i - 1]
    BY <2>1, <2>2, SubSeqProperties
  <2>4. Len(s) = 20
    BY <2>3
  <2>5. \A i \in 1..20 : s[i] = b[4 + i - 1]
    <3> TAKE i \in 1..20
    <3>1. i \in 1..(23 - 4 + 1)
      OBVIOUS
    <3>. QED BY <2>3, <3>1, Zenon
  <2>6. Len(s) = Len(hash) /\ \A i \in 1..Len(s) : s[i] = hash[i]
    BY <1>10, <2>4, <2>5, Zenon
  <2>7. s = hash
    BY <1>2, <2>3, <2>6, SeqEqual
  <2>. QED BY <2>2, <2>7
<1>. QED BY <1>4, <1>7, <1>8, <1>9, <1>11 DEF Item

\* The five operations that a key hash stands for.
LEMMA KeyHashOps ==
  ASSUME NEW hash \in Item, Len(hash) = 20
  PROVE  /\ Len(Parse(P2WPKHScript(hash)).ops) = 5
         /\ Parse(P2WPKHScript(hash)).ops[1].opcode = OP_DUP
         /\ Parse(P2WPKHScript(hash)).ops[2].opcode = OP_HASH160
         /\ Parse(P2WPKHScript(hash)).ops[3].opcode = 20
         /\ Parse(P2WPKHScript(hash)).ops[3].data = hash
         /\ Parse(P2WPKHScript(hash)).ops[4].opcode = OP_EQUALVERIFY
         /\ Parse(P2WPKHScript(hash)).ops[5].opcode = OP_CHECKSIG
         /\ Parse(P2WPKHScript(hash)).ops \in Seq(ScriptOp)
<1>0. PICK b : b = P2WPKHScript(hash)
  OBVIOUS
<1>1. /\ b \in Item /\ Len(b) = 25
      /\ b[1] = 118 /\ b[2] = 169 /\ b[3] = 20 /\ b[24] = 136 /\ b[25] = 172
      /\ SubSeq(b, 4, 23) = hash
  BY <1>0, KeyHashBytes
<1> DEFINE P(k) == ParseFrom(b)[k]
           Q(k, d) == [opcode |-> b[k], data |-> SubSeq(b, k + 1, k + d)]
<1>2. GoesOn(b, 1, 0) /\ GoesOn(b, 2, 0) /\ GoesOn(b, 3, 20) /\ GoesOn(b, 24, 0)
      /\ GoesOn(b, 25, 0)
  <2>1. Short(b[1], 0) /\ Short(b[2], 0) /\ Short(b[3], 20) /\ Short(b[24], 0)
        /\ Short(b[25], 0)
    BY <1>1 DEF Short
  <2>2. /\ 1 + 0 <= Len(b) /\ 2 + 0 <= Len(b) /\ 3 + 20 <= Len(b)
        /\ 24 + 0 <= Len(b) /\ 25 + 0 <= Len(b)
    BY <1>1
  <2>3. /\ 0 \in Nat /\ 1 \in Nat /\ 2 \in Nat /\ 3 \in Nat /\ 20 \in Nat
        /\ 24 \in Nat /\ 25 \in Nat
        /\ 1 <= 1 /\ 1 <= 2 /\ 1 <= 3 /\ 1 <= 24 /\ 1 <= 25
    OBVIOUS
  <2>4. b \in Item
    BY <1>1
  <2>5. GoesOn(b, 1, 0) /\ GoesOn(b, 2, 0) /\ GoesOn(b, 3, 20)
    BY <2>1, <2>2, <2>3, <2>4, OpAt, Zenon
  <2>6. GoesOn(b, 24, 0) /\ GoesOn(b, 25, 0)
    BY <2>1, <2>2, <2>3, <2>4, OpAt, Zenon
  <2>. QED BY <2>5, <2>6
<1>3. P(26) = [ops |-> << >>, tail |-> 0]
  <2>1. Len(b) + 1 = 26
    BY <1>1
  <2>2. ParseFrom(b)[Len(b) + 1] = [ops |-> << >>, tail |-> 0]
    BY <1>1, ParseAtEnd
  <2>. QED BY <2>1, <2>2
<1>4. /\ P(2) \in Parsed /\ P(1) = Prepend(Q(1, 0), P(2))
      /\ P(3) \in Parsed /\ P(2) = Prepend(Q(2, 0), P(3))
      /\ P(24) \in Parsed /\ P(3) = Prepend(Q(3, 20), P(24))
      /\ P(25) \in Parsed /\ P(24) = Prepend(Q(24, 0), P(25))
      /\ P(26) \in Parsed /\ P(25) = Prepend(Q(25, 0), P(26))
  <2>1. /\ 1 + 1 + 0 = 2 /\ 2 + 1 + 0 = 3 /\ 3 + 1 + 20 = 24 /\ 24 + 1 + 0 = 25
        /\ 25 + 1 + 0 = 26
    OBVIOUS
  <2>. QED BY <1>2, <2>1 DEF GoesOn
<1>5. Parse(b) = P(1) /\ Parse(b) \in Parsed
  BY <1>1, ParseIs, ParseType
<1>6. PICK p1, p2, p3, p4, p5, p6 :
        p1 = P(1) /\ p2 = P(2) /\ p3 = P(3) /\ p4 = P(24) /\ p5 = P(25) /\ p6 = P(26)
  OBVIOUS
<1>7. PICK q1, q2, q3, q4, q5 :
        q1 = Q(1, 0) /\ q2 = Q(2, 0) /\ q3 = Q(3, 20) /\ q4 = Q(24, 0) /\ q5 = Q(25, 0)
  OBVIOUS
<1>8. /\ q1.opcode = 118 /\ q2.opcode = 169 /\ q3.opcode = 20 /\ q3.data = hash
      /\ q4.opcode = 136 /\ q5.opcode = 172
  BY <1>1, <1>7
<1>. HIDE DEF P, Q
<1>9. /\ p1 = Prepend(q1, p2) /\ p2 = Prepend(q2, p3) /\ p3 = Prepend(q3, p4)
      /\ p4 = Prepend(q4, p5) /\ p5 = Prepend(q5, p6)
      /\ p2 \in Parsed /\ p3 \in Parsed /\ p4 \in Parsed /\ p5 \in Parsed /\ p6 \in Parsed
      /\ Len(p6.ops) = 0
  BY <1>3, <1>4, <1>6, <1>7
<1>10. /\ Len(p1.ops) = 5 /\ p1.ops[1] = q1 /\ p1.ops[2] = q2 /\ p1.ops[3] = q3
       /\ p1.ops[4] = q4 /\ p1.ops[5] = q5
  <2>1. HeadsOps(q5, p6, p5) /\ HeadsOps(q4, p5, p4) /\ HeadsOps(q3, p4, p3)
        /\ HeadsOps(q2, p3, p2) /\ HeadsOps(q1, p2, p1)
    BY <1>9, Prepended, Zenon
  <2>2. Len(p5.ops) = 1 /\ p5.ops[1] = q5
    BY <1>9, <2>1 DEF HeadsOps
  <2>3. Len(p4.ops) = 2 /\ p4.ops[1] = q4 /\ p4.ops[2] = q5
    <3>1. HeadsOps(q4, p5, p4)
      BY <2>1
    <3>. QED BY <2>2, <3>1 DEF HeadsOps
  <2>4. Len(p3.ops) = 3 /\ p3.ops[1] = q3 /\ p3.ops[2] = q4 /\ p3.ops[3] = q5
    <3>1. HeadsOps(q3, p4, p3)
      BY <2>1
    <3>. QED BY <2>3, <3>1 DEF HeadsOps
  <2>5. Len(p2.ops) = 4 /\ p2.ops[1] = q2 /\ p2.ops[2] = q3 /\ p2.ops[3] = q4
        /\ p2.ops[4] = q5
    <3>1. HeadsOps(q2, p3, p2)
      BY <2>1
    <3>. QED BY <2>4, <3>1 DEF HeadsOps
  <2>6. HeadsOps(q1, p2, p1)
    BY <2>1
  <2>. QED BY <2>5, <2>6 DEF HeadsOps
<1>11. Parse(b).ops \in Seq(ScriptOp)
  BY <1>5 DEF Parsed, Script
<1>12. Parse(b) = p1
  BY <1>5, <1>6
<1>13. /\ Len(Parse(b).ops) = 5 /\ Parse(b).ops[1] = q1 /\ Parse(b).ops[2] = q2
       /\ Parse(b).ops[3] = q3 /\ Parse(b).ops[4] = q4 /\ Parse(b).ops[5] = q5
  BY <1>10, <1>12
<1>. QED BY <1>0, <1>8, <1>11, <1>13
         DEF OP_DUP, OP_HASH160, OP_EQUALVERIFY, OP_CHECKSIG

(* Turns of the machine in the scripts that verify itself knows.           *)

TemplateOps == {OP_DUP, OP_HASH160, 20, OP_EQUAL, OP_EQUALVERIFY, OP_CHECKSIG}

LEMMA TemplateOpsApart ==
  ASSUME NEW op \in TemplateOps
  PROVE  /\ op \notin {OP_1NEGATE} \cup SMALL_INTS
         /\ op \notin {OP_IF, OP_NOTIF} /\ op \notin {OP_ELSE} /\ op \notin {OP_ENDIF}
         /\ op \notin {OP_VERIFY} /\ op \notin {OP_RETURN} /\ op \notin {OP_NOP}
         /\ op \notin UPGRADABLE_NOPS
         /\ op \notin {OP_TOALTSTACK} /\ op \notin {OP_FROMALTSTACK}
         /\ op \notin {OP_IFDUP} /\ op \notin {OP_DEPTH} /\ op \notin {OP_SIZE}
         /\ op \notin {OP_PICK, OP_ROLL}
         /\ op \notin UNARY_NUMERIC /\ op \notin BINARY_NUMERIC /\ op \notin {OP_WITHIN}
         /\ op \notin {OP_CODESEPARATOR} /\ op \notin {OP_CHECKSIGADD}
         /\ op \notin CHECKMULTISIG_OPCODES
         /\ op \notin {OP_CHECKLOCKTIMEVERIFY} /\ op \notin {OP_CHECKSEQUENCEVERIFY}
BY DEF TemplateOps, SMALL_INTS, UPGRADABLE_NOPS, UNARY_NUMERIC, BINARY_NUMERIC,
       CHECKMULTISIG_OPCODES,
       OP_1NEGATE, OP_1, OP_16, OP_NOP, OP_IF, OP_NOTIF,
       OP_ELSE, OP_ENDIF, OP_VERIFY, OP_RETURN, OP_TOALTSTACK, OP_FROMALTSTACK,
       OP_IFDUP, OP_DEPTH, OP_DUP, OP_PICK, OP_ROLL, OP_SIZE, OP_EQUAL, OP_EQUALVERIFY,
       OP_1ADD, OP_1SUB, OP_NEGATE, OP_ABS, OP_NOT, OP_0NOTEQUAL,
       OP_ADD, OP_SUB, OP_BOOLAND, OP_BOOLOR, OP_NUMEQUAL, OP_NUMEQUALVERIFY,
       OP_NUMNOTEQUAL, OP_LESSTHAN, OP_GREATERTHAN, OP_LESSTHANOREQUAL,
       OP_GREATERTHANOREQUAL, OP_MIN, OP_MAX, OP_WITHIN, OP_HASH160, OP_CODESEPARATOR,
       OP_CHECKSIG, OP_CHECKMULTISIG, OP_CHECKMULTISIGVERIFY, OP_NOP1,
       OP_CHECKLOCKTIMEVERIFY, OP_CHECKSEQUENCEVERIFY, OP_NOP4, OP_NOP10,
       OP_CHECKSIGADD

\* Which operation each template opcode is.
LEMMA TemplateOpsAre ==
  /\ OP_DUP \notin OP_0..OP_PUSHDATA4 /\ OP_HASH160 \notin OP_0..OP_PUSHDATA4
  /\ OP_EQUAL \notin OP_0..OP_PUSHDATA4 /\ OP_EQUALVERIFY \notin OP_0..OP_PUSHDATA4
  /\ OP_CHECKSIG \notin OP_0..OP_PUSHDATA4
  /\ OP_HASH160 \notin STACK_SHUFFLES /\ 20 \notin STACK_SHUFFLES
  /\ OP_EQUAL \notin STACK_SHUFFLES /\ OP_EQUALVERIFY \notin STACK_SHUFFLES
  /\ OP_CHECKSIG \notin STACK_SHUFFLES
  /\ OP_DUP \notin {OP_EQUAL, OP_EQUALVERIFY} /\ OP_HASH160 \notin {OP_EQUAL, OP_EQUALVERIFY}
  /\ 20 \notin {OP_EQUAL, OP_EQUALVERIFY} /\ OP_CHECKSIG \notin {OP_EQUAL, OP_EQUALVERIFY}
  /\ OP_DUP \notin HASH_OPCODES /\ 20 \notin HASH_OPCODES /\ OP_EQUAL \notin HASH_OPCODES
  /\ OP_EQUALVERIFY \notin HASH_OPCODES /\ OP_CHECKSIG \notin HASH_OPCODES
  /\ OP_DUP \notin CHECKSIG_OPCODES /\ 20 \notin CHECKSIG_OPCODES
  /\ OP_EQUAL \notin CHECKSIG_OPCODES /\ OP_EQUALVERIFY \notin CHECKSIG_OPCODES
  /\ OP_HASH160 \notin CHECKSIG_OPCODES
  /\ OP_EQUAL # OP_EQUALVERIFY /\ OP_CHECKSIG # OP_CHECKSIGVERIFY
  /\ OP_HASH160 \in HASH_OPCODES
BY DEF STACK_SHUFFLES, HASH_OPCODES, CHECKSIG_OPCODES, OP_0, OP_PUSHDATA4,
       OP_2DROP, OP_2DUP, OP_3DUP, OP_2OVER, OP_2ROT, OP_2SWAP, OP_DROP, OP_DUP,
       OP_NIP, OP_OVER, OP_ROT, OP_SWAP, OP_TUCK, OP_EQUAL, OP_EQUALVERIFY,
       OP_RIPEMD160, OP_HASH160, OP_HASH256, OP_CHECKSIG, OP_CHECKSIGVERIFY

\* A turn that goes on with stack s.
Goes(s) ==
  /\ stack' = s /\ pc' = pc + 1
  /\ UNCHANGED <<input, status, execStack, codesep, loopPhase>>

LEMMA FinishGoes ==
  ASSUME NEW s, NEW n, NEW sig, Finish(s, altstack, execStack, n, sig, "OK"),
         UNCHANGED <<codesep, loopPhase>>
  PROVE  status' = "raised" \/ Goes(s)
BY DEF Finish, Goes

LEMMA LeaveGoes ==
  ASSUME NEW s, Leave(s)
  PROVE  status' = "raised" \/ Goes(s)
<1>1. Finish(s, altstack, execStack, Count, {}, "OK") /\ UNCHANGED <<codesep, loopPhase>>
  BY DEF Leave, Plain, codeVars, multisigVars
<1>. QED BY <1>1, FinishGoes

LEMMA RaiseEnds ==
  ASSUME NEW s, NEW err, Raise(s, err), err # "OK"
  PROVE  status' = "raised"
BY DEF Raise, Plain, Finish

LEMMA ExecutesAtOp ==
  ASSUME NEW ops, Executes(ops) \/ Processes(ops) \/ Runs(ops)
  PROVE  Op \in ops
BY DEF Executes, Processes, Runs

\* The only operations that a template opcode can be.
LEMMA TemplateTurn ==
  ASSUME Next, AtOp, pc \in Nat, Executing, ~Tapscript, Op \in TemplateOps
  PROVE  status' = "raised" \/ OpPush \/ OpShuffle \/ OpEqual \/ OpHash \/ OpCheckSig
<1>0. status = "running" /\ loopPhase = "idle" /\ pc < Len(input.script.ops)
  BY DEF AtOp
<1>1. CASE RejectScriptSize \/ RejectTruncated \/ BeginLoop
  BY <1>0, <1>1 DEF RejectScriptSize, RejectTruncated, BeginLoop
<1>2. CASE EndUnbalanced \/ EndReturn
  BY <1>0, <1>2 DEF EndUnbalanced, EndReturn, AtEnd
<1>3. CASE RejectOp \/ Underflow \/ BadOpcode \/ BadNumber
  BY <1>3, RaiseEnds DEF RejectOp, Underflow, BadOpcode, BadNumber
<1>4. CASE SkipOp \/ SkippedIf
  BY <1>4 DEF SkipOp, SkippedIf
<1>5. CASE OpSmallInt \/ OpIf \/ OpElse \/ OpEndIf \/ OpVerify \/ OpReturn \/ OpNop
           \/ OpUpgradableNop
  BY <1>5, ExecutesAtOp, TemplateOpsApart
     DEF OpSmallInt, OpIf, OpElse, OpEndIf, OpVerify, OpReturn, OpNop, OpUpgradableNop
<1>6. CASE OpToAltStack \/ OpFromAltStack \/ OpIfDup \/ OpDepth \/ OpSize \/ OpPickRoll
  BY <1>6, ExecutesAtOp, TemplateOpsApart
     DEF OpToAltStack, OpFromAltStack, OpIfDup, OpDepth, OpSize, OpPickRoll
<1>7. CASE OpUnary \/ OpBinary \/ OpWithin \/ OpCodeSeparator
           \/ OpCheckLockTimeVerify \/ OpCheckSequenceVerify
  BY <1>7, ExecutesAtOp, TemplateOpsApart
     DEF OpUnary, OpBinary, OpWithin, OpCodeSeparator, OpCheckLockTimeVerify,
         OpCheckSequenceVerify
<1>8. CASE OpTapscriptCheckSig \/ OpCheckSigAdd \/ EscapeSchnorr
  BY <1>8, ExecutesAtOp, TemplateOpsApart DEF OpTapscriptCheckSig, OpCheckSigAdd, EscapeSchnorr
<1>9. CASE RefuseMultisig \/ BeginMultisig
  BY <1>9, ExecutesAtOp, TemplateOpsApart DEF RefuseMultisig, BeginMultisig
<1>10. CASE MultisigLoop \/ RaiseInMultisig \/ NullFailMultisig \/ EndMultisig
  BY <1>0, <1>10 DEF MultisigLoop, LoopStep, Compare, RefusePair, LeaveLoop, InLoop,
        RaiseInMultisig, NullFailMultisig, EndMultisig
<1>. QED BY <1>1, <1>2, <1>3, <1>4, <1>5, <1>6, <1>7, <1>8, <1>9, <1>10 DEF Next
\* What each of them does.
LEMMA PushTurn ==
  ASSUME Next, AtOp, pc \in Nat, Executing, ~Tapscript, Op = 20
  PROVE  status' = "raised" \/ Goes(Append(stack, PushData))
<1>1. Op \in TemplateOps
  BY DEF TemplateOps
<1>2. ~OpShuffle /\ ~OpEqual /\ ~OpHash /\ ~OpCheckSig
  BY ExecutesAtOp, TemplateOpsAre DEF OpShuffle, OpEqual, OpHash, OpCheckSig
<1>3. CASE OpPush
  BY <1>3, RaiseEnds, LeaveGoes DEF OpPush
<1>. QED BY <1>1, <1>2, <1>3, TemplateTurn

LEMMA DupTurn ==
  ASSUME Next, AtOp, pc \in Nat, Executing, ~Tapscript, Op = OP_DUP
  PROVE  status' = "raised" \/ Goes(Shuffled(OP_DUP, stack))
<1>1. Op \in TemplateOps
  BY DEF TemplateOps
<1>2. ~OpPush /\ ~OpEqual /\ ~OpHash /\ ~OpCheckSig
  BY ExecutesAtOp, TemplateOpsAre DEF OpPush, OpEqual, OpHash, OpCheckSig
<1>3. CASE OpShuffle
  BY <1>3, LeaveGoes DEF OpShuffle
<1>. QED BY <1>1, <1>2, <1>3, TemplateTurn

LEMMA HashTurn ==
  ASSUME Next, AtOp, pc \in Nat, Executing, ~Tapscript, Op = OP_HASH160
  PROVE  \/ status' = "raised"
         \/ Has(1) /\ Goes(Append(Drop(1), Digest(OP_HASH160, Top(1))))
<1>1. Op \in TemplateOps
  BY DEF TemplateOps
<1>2. ~OpPush /\ ~OpEqual /\ ~OpShuffle /\ ~OpCheckSig
  BY ExecutesAtOp, TemplateOpsAre DEF OpPush, OpEqual, OpShuffle, OpCheckSig
<1>3. CASE OpHash
  <2>1. Arity(Op) = 1
    BY TemplateOpsAre, ArityType
  <2>. QED BY <1>3, <2>1, LeaveGoes DEF OpHash, Runs
<1>. QED BY <1>1, <1>2, <1>3, TemplateTurn

LEMMA EqualTurn ==
  ASSUME Next, AtOp, pc \in Nat, Executing, ~Tapscript, Op \in {OP_EQUAL, OP_EQUALVERIFY}
  PROVE  \/ status' = "raised"
         \/ /\ Op = OP_EQUAL /\ Has(2)
            /\ Goes(Append(Drop(2), Bool(Top(1) = Top(2))))
         \/ Op = OP_EQUALVERIFY /\ Has(2) /\ Top(1) = Top(2) /\ Goes(Drop(2))
<1>1. Op \in TemplateOps
  BY DEF TemplateOps
<1>2. ~OpPush /\ ~OpHash /\ ~OpShuffle /\ ~OpCheckSig
  BY ExecutesAtOp, TemplateOpsAre DEF OpPush, OpHash, OpShuffle, OpCheckSig
<1>3. CASE OpEqual
  <2>1. Has(2)
    BY <1>3, ArityType DEF OpEqual, Runs
  <2>. QED BY <1>3, <2>1, TemplateOpsAre, LeaveGoes, RaiseEnds DEF OpEqual
<1>. QED BY <1>1, <1>2, <1>3, TemplateTurn

LEMMA CheckSigTurn ==
  ASSUME Next, AtOp, pc \in Nat, Executing, ~Tapscript, Op = OP_CHECKSIG
  PROVE  \/ status' = "raised"
         \/ /\ Has(2)
            /\ Goes(Append(Drop(2), Bool(EcdsaValid(Top(2), Top(1), ScriptCode({Top(2)}),
                                                    input.sigVersion))))
<1>1. Op \in TemplateOps
  BY DEF TemplateOps
<1>2. ~OpPush /\ ~OpHash /\ ~OpShuffle /\ ~OpEqual
  BY ExecutesAtOp, TemplateOpsAre DEF OpPush, OpHash, OpShuffle, OpEqual
<1>3. CASE OpCheckSig
  <2> DEFINE ok == EcdsaValid(Top(2), Top(1), ScriptCode({Top(2)}), input.sigVersion)
             detail == Detail(Top(2), Top(1), ScriptCode({Top(2)}), ok)
  <2>1. UNCHANGED <<codesep, loopPhase>>
    BY <1>3 DEF OpCheckSig, codeVars, multisigVars
  <2>2. CASE EcdsaRefusal # "OK"
    <3>1. Finish(stack, altstack, execStack, Count, {}, EcdsaRefusal)
      BY <1>3, <2>2 DEF OpCheckSig
    <3>. QED BY <2>2, <3>1 DEF Finish
  <2>3. CASE EcdsaRefusal = "OK" /\ NullFails(ok, Top(2))
    <3>1. Finish(stack, altstack, execStack, Count, detail, "SIG_NULLFAIL")
      BY <1>3, <2>3 DEF OpCheckSig
    <3>. QED BY <3>1 DEF Finish
  <2>4. CASE EcdsaRefusal = "OK" /\ ~NullFails(ok, Top(2))
    <3>1. Conclude(Drop(2), Count, detail, ok, Op = OP_CHECKSIGVERIFY, "CHECKSIGVERIFY")
      BY <1>3, <2>4 DEF OpCheckSig
    <3>2. Finish(Append(Drop(2), Bool(ok)), altstack, execStack, Count, detail, "OK")
      BY <3>1, TemplateOpsAre DEF Conclude
    <3>3. Has(2)
      BY <2>4 DEF EcdsaRefusal
    <3>. HIDE DEF ok, detail
    <3>4. status' = "raised" \/ Goes(Append(Drop(2), Bool(ok)))
      BY <2>1, <3>2, FinishGoes
    <3>. QED BY <3>3, <3>4 DEF ok
  <2>. QED BY <2>2, <2>3, <2>4
<1>. QED BY <1>1, <1>2, <1>3, TemplateTurn

\* Between turns only the ends of the loop are left, or a multi-signature check.
LEMMA BetweenTurns ==
  ASSUME Next, ~AtOp
  PROVE  \/ RejectScriptSize \/ RejectTruncated \/ BeginLoop \/ EndUnbalanced \/ EndReturn
         \/ loopPhase # "idle"
<1>1. \A ops : ~Processes(ops) /\ ~Executes(ops) /\ ~Runs(ops)
  BY DEF Processes, Executes, Runs
<1>2. CASE MultisigLoop \/ RaiseInMultisig \/ NullFailMultisig \/ EndMultisig
  BY <1>2 DEF MultisigLoop, LoopStep, Compare, RefusePair, LeaveLoop, InLoop,
        RaiseInMultisig, NullFailMultisig, EndMultisig
<1>3. CASE \/ RejectOp \/ Underflow \/ BadOpcode \/ BadNumber \/ SkipOp \/ OpPush \/ OpSmallInt
           \/ OpIf \/ SkippedIf \/ OpElse \/ OpEndIf \/ OpVerify \/ OpReturn \/ OpNop
           \/ OpUpgradableNop
  BY <1>1, <1>3, Zenon DEF RejectOp, Underflow, BadOpcode, BadNumber, SkipOp, OpPush,
       OpSmallInt, OpIf, SkippedIf, OpElse, OpEndIf, OpVerify, OpReturn, OpNop, OpUpgradableNop
<1>4. CASE \/ OpToAltStack \/ OpFromAltStack \/ OpShuffle \/ OpIfDup \/ OpDepth
           \/ OpSize \/ OpPickRoll \/ OpEqual \/ OpUnary \/ OpBinary \/ OpWithin \/ OpHash
           \/ OpCodeSeparator
  BY <1>1, <1>4, Zenon DEF OpToAltStack, OpFromAltStack, OpShuffle, OpIfDup, OpDepth,
       OpSize, OpPickRoll, OpEqual, OpUnary, OpBinary, OpWithin, OpHash, OpCodeSeparator
<1>5. CASE \/ OpCheckSig \/ OpTapscriptCheckSig \/ OpCheckSigAdd \/ EscapeSchnorr
           \/ RefuseMultisig \/ BeginMultisig \/ OpCheckLockTimeVerify \/ OpCheckSequenceVerify
  BY <1>1, <1>5, Zenon DEF OpCheckSig, OpTapscriptCheckSig, OpCheckSigAdd, EscapeSchnorr,
       RefuseMultisig, BeginMultisig, OpCheckLockTimeVerify, OpCheckSequenceVerify
<1>. QED BY <1>2, <1>3, <1>4, <1>5 DEF Next

LEMMA StartTurn ==
  ASSUME Next, status = "start", loopPhase = "idle"
  PROVE  \/ status' = "raised"
         \/ /\ status' = "running"
            /\ UNCHANGED <<input, pc, stack, execStack, codesep, loopPhase>>
<1>1. ~AtOp /\ ~EndUnbalanced /\ ~EndReturn
  BY DEF AtOp, AtEnd, EndUnbalanced, EndReturn
<1>. QED BY <1>1, BetweenTurns
         DEF RejectScriptSize, RejectTruncated, BeginLoop, Terminal, codeVars, multisigVars

LEMMA EndTurn ==
  ASSUME Next, AtEnd, pc \in Nat
  PROVE  \/ status' = "raised"
         \/ /\ status' = "returned"
            /\ UNCHANGED <<input, pc, stack, execStack, codesep, loopPhase>>
<1>1. ~AtOp /\ status = "running" /\ loopPhase = "idle"
  BY DEF AtOp, AtEnd
<1>2. EndUnbalanced \/ EndReturn
  BY <1>1, BetweenTurns DEF RejectScriptSize, RejectTruncated, BeginLoop
<1>. QED BY <1>2 DEF EndUnbalanced, EndReturn, Terminal, codeVars, multisigVars

\* An evaluation that is over takes no step.
LEMMA NoTurn ==
  ASSUME Next, status \notin {"start", "running"}, loopPhase = "idle"
  PROVE  FALSE
<1>1. ~AtOp
  BY DEF AtOp
<1>. QED BY <1>1, BetweenTurns
         DEF RejectScriptSize, RejectTruncated, BeginLoop, EndUnbalanced, EndReturn, AtEnd

LEMMA TopOfPut ==
  ASSUME NEW b \in Seq(Item), NEW x \in Item
  PROVE  /\ stack = Put1(b, x) => Top(1) = x /\ Drop(1) = b
         /\ \A y \in Item : stack = Put2(b, x, y) => Top(1) = y /\ Top(2) = x /\ Drop(2) = b
<1>1. ASSUME stack = Put1(b, x) PROVE Top(1) = x /\ Drop(1) = b
  <2>1. Len(b) \in Nat /\ Len(stack) = Len(b) + 1 /\ SubSeq(stack, 1, Len(b)) = b
        /\ stack[Len(b) + 1] = x
    BY <1>1 DEF Put1
  <2>2. Len(stack) + 1 - 1 = Len(b) + 1 /\ Len(stack) - 1 = Len(b)
    BY <2>1
  <2>. QED BY <2>1, <2>2 DEF Top, Drop
<1>2. ASSUME NEW y \in Item, stack = Put2(b, x, y)
      PROVE  Top(1) = y /\ Top(2) = x /\ Drop(2) = b
  <2>1. Len(b) \in Nat /\ Len(stack) = Len(b) + 2 /\ SubSeq(stack, 1, Len(b)) = b
        /\ stack[Len(b) + 1] = x /\ stack[Len(b) + 2] = y
    BY <1>2 DEF Put2
  <2>2. /\ Len(stack) + 1 - 1 = Len(b) + 2 /\ Len(stack) + 1 - 2 = Len(b) + 1
        /\ Len(stack) - 2 = Len(b)
    BY <2>1
  <2>. QED BY <2>1, <2>2 DEF Top, Drop
<1>. QED BY <1>1, <1>2

(* A P2SH output.                                                          *)

\* The stack after each operation of the output b, begun on stack s.
ScriptHashStack(b, s) ==
  /\ pc = 0 => stack = s
  /\ pc > 0 =>
       \E rest \in Seq(Item), x \in Item :
         /\ s = Put1(rest, x)
         /\ pc = 1 => stack = Put1(rest, Digest(OP_HASH160, x))
         /\ pc = 2 => stack = Put2(rest, Digest(OP_HASH160, x), SubSeq(b, 3, 22))
         /\ pc = 3 => stack = Put1(rest, Bool(SubSeq(b, 3, 22) = Digest(OP_HASH160, x)))

\* The machine evaluates script, of n operations, that none of them branches.
Evaluates(script, n) ==
  /\ input.script = script
  /\ status \notin {"raised", "escaped"} =>
       /\ status \in {"start", "running", "returned"}
       /\ loopPhase = "idle" /\ execStack = << >> /\ codesep = 0
       /\ pc \in 0..n
       /\ status = "start" => pc = 0
       /\ status = "returned" => pc = n

\* A step of such an evaluation raises, goes on, or is one turn.
LEMMA EvaluatesStep ==
  ASSUME NEW script, NEW n \in Nat, Len(script.ops) = n, Evaluates(script, n), Next,
         status \notin {"raised", "escaped"}
  PROVE  \/ status' = "raised"
         \/ Evaluates(script, n)' /\ pc' = pc /\ stack' = stack /\ input' = input
         \/ AtOp /\ Executing /\ pc \in 0..(n - 1)
<1>1. /\ input.script = script
      /\ status \in {"start", "running", "returned"}
      /\ loopPhase = "idle" /\ execStack = << >> /\ codesep = 0
      /\ pc \in 0..n
      /\ status = "start" => pc = 0
      /\ status = "returned" => pc = n
  BY DEF Evaluates
<1>2. CASE status = "start"
  BY <1>1, <1>2, StartTurn DEF Evaluates
<1>3. CASE status = "running" /\ pc = n
  <2>1. AtEnd
    BY <1>1, <1>3 DEF AtEnd
  <2>. QED BY <1>1, <1>3, <2>1, EndTurn DEF Evaluates
<1>4. CASE status = "running" /\ pc # n
  <2>1. AtOp /\ pc \in 0..(n - 1)
    BY <1>1, <1>4 DEF AtOp
  <2>2. Executing
    BY <1>1 DEF Executing
  <2>. QED BY <2>1, <2>2
<1>5. CASE status = "returned"
  BY <1>1, <1>5, NoTurn
<1>. QED BY <1>1, <1>2, <1>3, <1>4, <1>5

LEMMA GoesEvaluates ==
  ASSUME NEW script, NEW n \in Nat, Evaluates(script, n), NEW s, Goes(s), AtOp,
         pc \in 0..(n - 1)
  PROVE  Evaluates(script, n)'
BY DEF Evaluates, Goes, AtOp

LEMMA RaisedEvaluates ==
  ASSUME NEW script, NEW n, Evaluates(script, n), input' = input,
         status' \in {"raised", "escaped"}
  PROVE  Evaluates(script, n)'
BY DEF Evaluates

ScriptHashTurns(b, s) ==
  /\ Evaluates(Parse(b), 3) /\ ~Tapscript
  /\ status \notin {"raised", "escaped"} => ScriptHashStack(b, s)

LEMMA ScriptHashStep ==
  ASSUME DigestsAreItems, NEW b \in Item, is_p2sh(b), NEW s \in Seq(Item),
         ScriptHashTurns(b, s), LoopInTurn, Next, input' = input
  PROVE  ScriptHashTurns(b, s)'
<1>1. /\ Len(Parse(b).ops) = 3
      /\ Parse(b).ops[1].opcode = OP_HASH160
      /\ Parse(b).ops[2].opcode = 20 /\ Parse(b).ops[2].data = SubSeq(b, 3, 22)
      /\ Parse(b).ops[3].opcode = OP_EQUAL
  BY P2SHOps
<1>2. PICK h : h = SubSeq(b, 3, 22)
  OBVIOUS
<1>3. h \in Item
  <2>1. Parse(b).ops \in Seq(ScriptOp)
    BY ParseType DEF Parsed, Script
  <2>2. 2 \in 1..Len(Parse(b).ops)
    BY <1>1
  <2>3. Parse(b).ops[2] \in ScriptOp
    BY <2>1, <2>2, ElementOfSeq
  <2>. QED BY <1>1, <1>2, <2>3 DEF ScriptOp
<1>4. Evaluates(Parse(b), 3) /\ ~Tapscript /\ input.script = Parse(b) /\ Tapscript' = Tapscript
  BY DEF ScriptHashTurns, Evaluates, Tapscript
<1>5. CASE status \in {"raised", "escaped"}
  BY <1>5, NoTurn DEF LoopInTurn, InTurn
<1>6. CASE status' = "raised"
  BY <1>4, <1>6, RaisedEvaluates DEF ScriptHashTurns
<1>7. CASE /\ status \notin {"raised", "escaped"}
           /\ Evaluates(Parse(b), 3)' /\ pc' = pc /\ stack' = stack
  BY <1>4, <1>7 DEF ScriptHashTurns, ScriptHashStack
<1>8. CASE /\ status \notin {"raised", "escaped"} /\ status' # "raised"
           /\ AtOp /\ Executing /\ pc \in 0..2
  <2>1. ScriptHashStack(b, s) /\ pc \in Nat
    BY <1>8 DEF ScriptHashTurns
  <2>2. CASE pc = 0
    <3>1. Op = OP_HASH160
      BY <1>1, <1>4, <2>2 DEF Op
    <3>2. Has(1) /\ Goes(Append(Drop(1), Digest(OP_HASH160, Top(1))))
      BY <1>4, <1>8, <2>1, <3>1, HashTurn
    <3>3. stack = s /\ Len(s) >= 1
      BY <2>1, <2>2, <3>2 DEF ScriptHashStack, Has
    <3>4. PICK rest \in Seq(Item), x \in Item : s = Put1(rest, x)
      BY <3>3, TakeLast DEF Put1
    <3>5. Top(1) = x /\ Drop(1) = rest
      BY <3>3, <3>4, TopOfPut
    <3>6. stack' = Put1(rest, Digest(OP_HASH160, x)) /\ pc' = 1
      BY <2>2, <3>2, <3>5 DEF Goes, Put1
    <3>7. ScriptHashStack(b, s)'
      BY <3>4, <3>6 DEF ScriptHashStack
    <3>8. Evaluates(Parse(b), 3)'
      BY <1>4, <1>8, <3>2, GoesEvaluates
    <3>. QED BY <1>4, <3>7, <3>8 DEF ScriptHashTurns
  <2>3. CASE pc = 1
    <3>1. Op = 20 /\ PushData = h
      BY <1>1, <1>2, <1>4, <2>3 DEF Op, PushData
    <3>2. Goes(Append(stack, h))
      BY <1>4, <1>8, <2>1, <3>1, PushTurn
    <3>3. PICK rest \in Seq(Item), x \in Item :
            s = Put1(rest, x) /\ stack = Put1(rest, Digest(OP_HASH160, x))
      BY <2>1, <2>3 DEF ScriptHashStack
    <3>4. stack' = Put2(rest, Digest(OP_HASH160, x), h) /\ pc' = 2
      BY <2>3, <3>2, <3>3 DEF Goes, Put1, Put2
    <3>5. ScriptHashStack(b, s)'
      BY <1>2, <3>3, <3>4 DEF ScriptHashStack
    <3>6. Evaluates(Parse(b), 3)'
      BY <1>4, <1>8, <3>2, GoesEvaluates
    <3>. QED BY <1>4, <3>5, <3>6 DEF ScriptHashTurns
  <2>4. CASE pc = 2
    <3>1. Op = OP_EQUAL
      BY <1>1, <1>4, <2>4 DEF Op
    <3>2. Goes(Append(Drop(2), Bool(Top(1) = Top(2))))
      BY <1>4, <1>8, <2>1, <3>1, EqualTurn, TemplateOpsAre
    <3>3. PICK rest \in Seq(Item), x \in Item :
            s = Put1(rest, x) /\ stack = Put2(rest, Digest(OP_HASH160, x), h)
      BY <1>2, <2>1, <2>4 DEF ScriptHashStack
    <3>4. Digest(OP_HASH160, x) \in Item
      BY TemplateOpsAre DEF DigestsAreItems
    <3>5. Top(1) = h /\ Top(2) = Digest(OP_HASH160, x) /\ Drop(2) = rest
      BY <1>3, <3>3, <3>4, TopOfPut
    <3>6. stack' = Put1(rest, Bool(h = Digest(OP_HASH160, x))) /\ pc' = 3
      BY <2>4, <3>2, <3>5 DEF Goes, Put1
    <3>7. ScriptHashStack(b, s)'
      BY <1>2, <3>3, <3>6 DEF ScriptHashStack
    <3>8. Evaluates(Parse(b), 3)'
      BY <1>4, <1>8, <3>2, GoesEvaluates
    <3>. QED BY <1>4, <3>7, <3>8 DEF ScriptHashTurns
  <2>. QED BY <1>8, <2>2, <2>3, <2>4
<1>9. CASE status \notin {"raised", "escaped"}
  <2>1. 3 \in Nat /\ 0..(3 - 1) = 0..2
    OBVIOUS
  <2>2. \/ status' = "raised"
        \/ Evaluates(Parse(b), 3)' /\ pc' = pc /\ stack' = stack
        \/ AtOp /\ Executing /\ pc \in 0..2
    BY <1>1, <1>4, <1>9, <2>1, EvaluatesStep
  <2>. QED BY <1>6, <1>7, <1>8, <1>9, <2>2
<1>. QED BY <1>5, <1>9

\* A true value left by a P2SH output means that the item on top hashed to it.
LEMMA ScriptHashMeans ==
  ASSUME DigestsAreItems, NEW b, NEW s, ScriptHashTurns(b, s),
         status = "returned", LeavesTrue(stack)
  PROVE  \E rest \in Seq(Item), x \in Item :
           s = Put1(rest, x) /\ Digest(OP_HASH160, x) = SubSeq(b, 3, 22)
<1>1. pc = 3
  BY DEF ScriptHashTurns, Evaluates
<1>2. PICK rest \in Seq(Item), x \in Item :
        /\ s = Put1(rest, x)
        /\ stack = Put1(rest, Bool(SubSeq(b, 3, 22) = Digest(OP_HASH160, x)))
  BY <1>1 DEF ScriptHashTurns, ScriptHashStack
<1>3. PICK v : v = Bool(SubSeq(b, 3, 22) = Digest(OP_HASH160, x))
  OBVIOUS
<1>4. v \in Item
  BY <1>3, BoolType
<1>5. stack = Put1(rest, v)
  BY <1>2, <1>3
<1>6. Last(stack) = v
  BY <1>4, <1>5 DEF Put1, Last
<1>7. cast_to_bool(v)
  BY <1>6 DEF LeavesTrue
<1>8. v # << >>
  BY <1>7 DEF cast_to_bool
<1>9. SubSeq(b, 3, 22) = Digest(OP_HASH160, x)
  BY <1>3, <1>8 DEF Bool
<1>. QED BY <1>2, <1>9

(* A witness program of a key hash.                                        *)

KeyHashStack(hash, sig, key) ==
  /\ pc = 0 => stack = Put2(<< >>, sig, key)
  /\ pc = 1 => stack = Put3(<< >>, sig, key, key)
  /\ pc = 2 => stack = Put3(<< >>, sig, key, Digest(OP_HASH160, key))
  /\ pc = 3 => stack = Put4(<< >>, sig, key, Digest(OP_HASH160, key), hash)
  /\ pc = 4 => stack = Put2(<< >>, sig, key)
  /\ pc >= 4 => Digest(OP_HASH160, key) = hash
  /\ pc = 5 =>
       stack = Put1(<< >>, Bool(EcdsaValid(sig, key, Parse(P2WPKHScript(hash)).ops,
                                           "WITNESS_V0")))

KeyHashTurns(hash, sig, key) ==
  /\ Evaluates(Parse(P2WPKHScript(hash)), 5) /\ input.sigVersion = "WITNESS_V0"
  /\ status \notin {"raised", "escaped"} => KeyHashStack(hash, sig, key)

\* Nothing is left out of what a script without separators signs.
LEMMA WholeScript ==
  ASSUME NEW script, script.ops \in Seq(ScriptOp), input.script = script,
         codesep = 0, input.sigVersion = "WITNESS_V0", NEW sigs
  PROVE  ScriptCode(sigs) = script.ops
<1>1. PICK ops \in Seq(ScriptOp) : ops = script.ops
  OBVIOUS
<1>2. SubSeq(ops, 1, Len(ops)) = ops
  BY <1>1
<1>3. codesep + 1 = 1
  OBVIOUS
<1>. QED BY <1>1, <1>2, <1>3 DEF ScriptCode

LEMMA KeyHashStep ==
  ASSUME DigestsAreItems, NEW hash \in Item, Len(hash) = 20,
         NEW sig \in Item, NEW key \in Item,
         KeyHashTurns(hash, sig, key), LoopInTurn, Next, input' = input
  PROVE  KeyHashTurns(hash, sig, key)'
<1>0. PICK script : script = Parse(P2WPKHScript(hash))
  OBVIOUS
<1>1. /\ Len(script.ops) = 5
      /\ script.ops[1].opcode = OP_DUP
      /\ script.ops[2].opcode = OP_HASH160
      /\ script.ops[3].opcode = 20 /\ script.ops[3].data = hash
      /\ script.ops[4].opcode = OP_EQUALVERIFY
      /\ script.ops[5].opcode = OP_CHECKSIG
      /\ script.ops \in Seq(ScriptOp)
  BY <1>0, KeyHashOps
<1>2. PICK d : d = Digest(OP_HASH160, key)
  OBVIOUS
<1>3. d \in Item /\ << >> \in Seq(Item)
  BY <1>2, TemplateOpsAre DEF DigestsAreItems
<1>4. /\ Evaluates(script, 5) /\ input.script = script
      /\ input.sigVersion = "WITNESS_V0" /\ input'.sigVersion = "WITNESS_V0"
      /\ ~Tapscript
  BY <1>0 DEF KeyHashTurns, Evaluates, Tapscript
<1>5. CASE status \in {"raised", "escaped"}
  BY <1>5, NoTurn DEF LoopInTurn, InTurn
<1>6. CASE status' = "raised"
  BY <1>0, <1>4, <1>6, RaisedEvaluates DEF KeyHashTurns
<1>7. CASE /\ status \notin {"raised", "escaped"}
           /\ Evaluates(script, 5)' /\ pc' = pc /\ stack' = stack
  BY <1>0, <1>4, <1>7 DEF KeyHashTurns, KeyHashStack
<1>8. CASE /\ status \notin {"raised", "escaped"} /\ status' # "raised"
           /\ AtOp /\ Executing /\ pc \in 0..4
  <2>1. /\ pc = 0 => stack = Put2(<< >>, sig, key)
        /\ pc = 1 => stack = Put3(<< >>, sig, key, key)
        /\ pc = 2 => stack = Put3(<< >>, sig, key, d)
        /\ pc = 3 => stack = Put4(<< >>, sig, key, d, hash)
        /\ pc = 4 => stack = Put2(<< >>, sig, key) /\ d = hash
        /\ pc \in Nat
    BY <1>2, <1>8 DEF KeyHashTurns, KeyHashStack
  <2>2. PICK b2 \in Seq(Item) : b2 = Put2(<< >>, sig, key)
    <3>1. Append(<< >>, sig) \in Seq(Item)
      BY <1>3, AppendProperties
    <3>2. Append(Append(<< >>, sig), key) \in Seq(Item)
      BY <3>1, AppendProperties
    <3>. QED BY <3>2, Zenon DEF Put2
  <2>a. ASSUME Evaluates(script, 5)', KeyHashStack(hash, sig, key)'
        PROVE  KeyHashTurns(hash, sig, key)'
    BY <1>0, <1>4, <2>a DEF KeyHashTurns
  <2>b. ASSUME NEW s, Goes(s) PROVE Evaluates(script, 5)' /\ stack' = s /\ pc' = pc + 1
    <3>1. 5 \in Nat /\ pc \in 0..(5 - 1)
      BY <1>8
    <3>. QED BY <1>4, <1>8, <2>b, <3>1, GoesEvaluates DEF Goes
  <2>3. CASE pc = 0
    <3>1. Op = OP_DUP
      BY <1>1, <1>4, <2>3 DEF Op
    <3>2. Goes(Shuffled(OP_DUP, stack))
      BY <1>4, <1>8, <2>1, <3>1, DupTurn
    <3>3. PICK b1 \in Seq(Item) : b1 = Put1(<< >>, sig)
      <4>1. Append(<< >>, sig) \in Seq(Item)
        BY <1>3, AppendProperties
      <4>. QED BY <4>1, Zenon DEF Put1
    <3>4. stack = Put1(b1, key)
      BY <2>1, <2>3, <3>3 DEF Put1, Put2
    <3>5. Shuffled(OP_DUP, stack) = Put2(b1, key, key)
      BY <3>4, DupDoes
    <3>6. Put2(b1, key, key) = Put3(<< >>, sig, key, key)
      BY <3>3 DEF Put1, Put2, Put3
    <3>7. stack' = Put3(<< >>, sig, key, key) /\ pc' = 1 /\ Evaluates(script, 5)'
      BY <2>3, <2>b, <3>2, <3>5, <3>6
    <3>. QED BY <2>a, <3>7 DEF KeyHashStack
  <2>4. CASE pc = 1
    <3>1. Op = OP_HASH160
      BY <1>1, <1>4, <2>4 DEF Op
    <3>2. Goes(Append(Drop(1), Digest(OP_HASH160, Top(1))))
      BY <1>4, <1>8, <2>1, <3>1, HashTurn
    <3>3. stack = Put1(b2, key)
      BY <2>1, <2>2, <2>4 DEF Put1, Put3
    <3>4. Top(1) = key /\ Drop(1) = b2
      BY <3>3, TopOfPut
    <3>5. stack' = Put3(<< >>, sig, key, d) /\ pc' = 2 /\ Evaluates(script, 5)'
      <4>1. Goes(Append(b2, d))
        BY <1>2, <3>2, <3>4
      <4>2. Append(b2, d) = Put3(<< >>, sig, key, d)
        BY <2>2, Zenon DEF Put3
      <4>. QED BY <2>4, <2>b, <4>1, <4>2
    <3>. QED BY <1>2, <2>a, <3>5 DEF KeyHashStack
  <2>5. CASE pc = 2
    <3>1. Op = 20 /\ PushData = hash
      BY <1>1, <1>4, <2>5 DEF Op, PushData
    <3>2. Goes(Append(stack, hash))
      BY <1>4, <1>8, <2>1, <3>1, PushTurn
    <3>3. stack' = Put4(<< >>, sig, key, d, hash) /\ pc' = 3 /\ Evaluates(script, 5)'
      <4>1. Append(stack, hash) = Put4(<< >>, sig, key, d, hash)
        BY <2>1, <2>5, Zenon DEF Put4
      <4>. QED BY <2>5, <2>b, <3>2, <4>1
    <3>. QED BY <1>2, <2>a, <3>3 DEF KeyHashStack
  <2>6. CASE pc = 3
    <3>1. Op = OP_EQUALVERIFY
      BY <1>1, <1>4, <2>6 DEF Op
    <3>2. Top(1) = Top(2) /\ Goes(Drop(2))
      BY <1>4, <1>8, <2>1, <3>1, EqualTurn, TemplateOpsAre
    <3>3. stack = Put2(b2, d, hash)
      BY <2>1, <2>2, <2>6 DEF Put2, Put3, Put4
    <3>4. Top(1) = hash /\ Top(2) = d /\ Drop(2) = b2
      BY <1>3, <3>3, TopOfPut
    <3>5. stack' = Put2(<< >>, sig, key) /\ pc' = 4 /\ Evaluates(script, 5)' /\ d = hash
      BY <2>2, <2>6, <2>b, <3>2, <3>4
    <3>. QED BY <1>2, <2>a, <3>5 DEF KeyHashStack
  <2>7. CASE pc = 4
    <3>1. Op = OP_CHECKSIG
      BY <1>1, <1>4, <2>7 DEF Op
    <3>2. Goes(Append(Drop(2), Bool(EcdsaValid(Top(2), Top(1), ScriptCode({Top(2)}),
                                               input.sigVersion))))
      BY <1>4, <1>8, <2>1, <3>1, CheckSigTurn
    <3>3. Top(1) = key /\ Top(2) = sig /\ Drop(2) = << >>
      BY <1>3, <2>1, <2>7, TopOfPut
    <3>4. codesep = 0
      BY <1>4, <1>8 DEF Evaluates
    <3>5. ScriptCode({Top(2)}) = script.ops
      BY <1>1, <1>4, <3>4, WholeScript
    <3>6. PICK v : v = Bool(EcdsaValid(sig, key, script.ops, "WITNESS_V0"))
      OBVIOUS
    <3>7. Goes(Append(<< >>, v))
      BY <1>4, <3>2, <3>3, <3>5, <3>6
    <3>8. stack' = Put1(<< >>, v) /\ pc' = 5 /\ Evaluates(script, 5)' /\ d = hash
      BY <2>1, <2>7, <2>b, <3>7 DEF Put1
    <3>9. KeyHashStack(hash, sig, key)'
      BY <1>0, <1>2, <3>6, <3>8 DEF KeyHashStack
    <3>. QED BY <2>a, <3>8, <3>9
  <2>. QED BY <1>8, <2>3, <2>4, <2>5, <2>6, <2>7
<1>9. CASE status \notin {"raised", "escaped"}
  <2>1. 5 \in Nat /\ 0..(5 - 1) = 0..4
    OBVIOUS
  <2>2. \/ status' = "raised"
        \/ Evaluates(script, 5)' /\ pc' = pc /\ stack' = stack
        \/ AtOp /\ Executing /\ pc \in 0..4
    BY <1>1, <1>4, <1>9, <2>1, EvaluatesStep
  <2>. QED BY <1>6, <1>7, <1>8, <1>9, <2>2
<1>. QED BY <1>5, <1>9

LEMMA KeyHashMeans ==
  ASSUME NEW hash, NEW sig, NEW key, KeyHashTurns(hash, sig, key),
         status = "returned", LeavesTrue(stack)
  PROVE  /\ Digest(OP_HASH160, key) = hash
         /\ EcdsaValid(sig, key, Parse(P2WPKHScript(hash)).ops, "WITNESS_V0")
<1>1. pc = 5
  BY DEF KeyHashTurns, Evaluates
<1>2. PICK v : v = Bool(EcdsaValid(sig, key, Parse(P2WPKHScript(hash)).ops, "WITNESS_V0"))
  OBVIOUS
<1>3. stack = Put1(<< >>, v) /\ Digest(OP_HASH160, key) = hash
  BY <1>1, <1>2 DEF KeyHashTurns, KeyHashStack
<1>4. Last(stack) = v
  BY <1>3 DEF Put1, Last
<1>5. v # << >>
  BY <1>4 DEF LeavesTrue, cast_to_bool
<1>. QED BY <1>2, <1>3, <1>5 DEF Bool
==============================================================================
