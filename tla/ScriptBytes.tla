------------------------------ MODULE ScriptBytes ------------------------------
(***************************************************************************)
(* Scripts as bytes.  script/script.py walks the bytes of a script twice,  *)
(* with code of its own each time: Script.ops parses it for the            *)
(* interpreter and stops at a truncated push; op_length steps over one     *)
(* operation for find_and_delete and never stops.  Offsets count from 1.   *)
(***************************************************************************)
EXTENDS Script

\* int.from_bytes(script[i : i + n], "little"), for the lengths of pushes, which
\* are themselves at most four bytes long.
LittleEndian(b, i, n) ==
  LET At(k) == IF k < n THEN b[i + k] ELSE 0
  IN  At(0) + 256 * At(1) + 65536 * At(2) + 16777216 * At(3)

\* The two size fields of an operation at offset i: how many bytes of length
\* follow its opcode, and how many bytes of data those announce.
DataLength(b, i) ==
  IF b[i] < OP_PUSHDATA1 THEN b[i]
  ELSE LittleEndian(b, i + 1, LengthBytes(b[i]))

\* Mutant: the bytes of the length are not stepped over.
ParsedSize_NoLength(b, i) ==
  IF i + LengthBytes(b[i]) > Len(b) THEN Len(b) + 1 ELSE 1 + DataLength(b, i)

\* The bytes that Script.ops takes for the operation at offset i; more than are
\* left when it raises ScriptParseError.
ParsedSize(b, i) ==
  IF i + LengthBytes(b[i]) > Len(b) THEN Len(b) + 1
  ELSE 1 + LengthBytes(b[i]) + DataLength(b, i)

\* Script(b).ops(): the operations up to the end or the first truncated push,
\* and how many bytes were left unparsed there.
Parse(b) ==
  LET from[i \in 1..(Len(b) + 1)] ==
        IF i > Len(b) THEN [ops |-> << >>, tail |-> 0]
        ELSE LET next == i + ParsedSize(b, i)
                 first == i + 1 + LengthBytes(b[i])
             IN  IF next > Len(b) + 1
                   THEN [ops |-> << >>, tail |-> Len(b) + 1 - i]
                 ELSE LET rest == from[next]
                      IN  [rest EXCEPT !.ops =
                             <<[opcode |-> b[i], data |-> SubSeq(b, first, next - 1)]>>
                               \o @]
  IN  from[1]

\* Mutant: a truncated push is not cut at the end of the script.
OpLengthAt_Past(b, i) ==
  1 + LengthBytes(b[i])
    + IF i + LengthBytes(b[i]) > Len(b) THEN 0 ELSE DataLength(b, i)

\* op_length(script, i): what remains of the script when the push is truncated.
OpLengthAt(b, i) ==
  LET rest == Len(b) + 1 - i
      size == 1 + LengthBytes(b[i]) + DataLength(b, i)
  IN  IF i + LengthBytes(b[i]) > Len(b) \/ size > rest THEN rest ELSE size

OccursAt(b, i, pattern) ==
  i + Len(pattern) <= Len(b) + 1 /\ SubSeq(b, i, i + Len(pattern) - 1) = pattern

\* Mutant: the pattern is looked for at every byte.
FindAndDelete_AnyByte(b, pattern) ==
  LET n == Len(pattern)
      from[i \in 1..(Len(b) + 1)] ==
        IF i > Len(b) THEN << >>
        ELSE IF OccursAt(b, i, pattern) THEN from[i + n]
        ELSE <<b[i]>> \o from[i + 1]
  IN  IF n = 0 THEN b ELSE from[1]

\* find_and_delete: at every operation boundary the pattern is dropped if it is
\* there, and one whole operation is copied otherwise.
FindAndDelete(b, pattern) ==
  LET n == Len(pattern)
      from[i \in 1..(Len(b) + 1)] ==
        IF i > Len(b) THEN << >>
        ELSE IF OccursAt(b, i, pattern) THEN from[i + n]
        ELSE LET next == i + OpLengthAt(b, i)
             IN  SubSeq(b, i, next - 1) \o from[next]
  IN  IF n = 0 THEN b ELSE from[1]

\* The bytes of a size field of n bytes.
SizeField(size, n) == [k \in 1..n |-> ByteAt(size, k)]

\* An operation written out; _encode_push writes encode_push(data).
OpBytes(op) ==
  <<op.opcode>> \o SizeField(Len(op.data), LengthBytes(op.opcode)) \o op.data

PushBytes(data) == OpBytes(encode_push(data))

Serialize(script) == FlattenSeq([k \in 1..Len(script.ops) |-> OpBytes(script.ops[k])])
------------------------------------------------------------------------------
\* The operations a script parses to are its bytes: written out one after the
\* other they are the script up to the unparsed tail, and they are operations
\* that the interpreter's types allow.
ParseKeepsBytes(b) ==
  LET s == Parse(b)
  IN  /\ Serialize(s) = SubSeq(b, 1, Len(b) - s.tail)
      /\ \A k \in DOMAIN s.ops : ParsedOp(s.ops[k])
      /\ ScriptSize(s) = Len(b)

\* The two walks meet the same boundaries: op_length steps over exactly what
\* the parser parsed, swallows a truncated rest whole, and always advances.
WalksAgree(b) ==
  LET s == Parse(b)
      At(k) == 1 + Len(Serialize([ops |-> SubSeq(s.ops, 1, k - 1), tail |-> 0]))
  IN  /\ \A k \in DOMAIN s.ops : OpLengthAt(b, At(k)) = op_length(s.ops[k])
      /\ s.tail > 0 => OpLengthAt(b, Len(b) + 1 - s.tail) = s.tail
      /\ \A i \in 1..Len(b) : OpLengthAt(b, i) \in 1..(Len(b) + 1 - i)

\* On a script without a truncated push, deleting the push of a signature from
\* the bytes is deleting whole operations: never part of another push, whatever
\* the bytes of that push are.
DeletesWholeOps(b, sig) ==
  ~Truncated(Parse(b)) =>
    FindAndDelete(b, PushBytes(sig)) =
      Serialize([ops |-> find_and_delete(Parse(b).ops, {encode_push(sig)}), tail |-> 0])
==============================================================================
