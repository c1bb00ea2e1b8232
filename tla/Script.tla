-------------------------------- MODULE Script --------------------------------
(***************************************************************************)
(* script/script.py.  A script is what its strict parser yields: the       *)
(* sequence of operations before the first truncated push, and the number  *)
(* of bytes (tail) from that push to the end of the script, 0 when every   *)
(* push is complete.  Byte offsets are positions in the sequence; byte     *)
(* sizes are kept, because limits and push opcodes depend on them.         *)
(***************************************************************************)
EXTENDS Opcodes, ScriptNum, SequencesExt

\* ScriptOp.  data is << >> for an opcode that carries no push data, where the
\* code has None: the interpreter treats the two alike.
ScriptOp == [opcode : Opcode, data : Item]

Script == [ops : Seq(ScriptOp), tail : Nat]

\* What the parser can yield: the push opcode determines the size of its data.
ParsedOp(op) ==
  \/ op.opcode < OP_PUSHDATA1 /\ Len(op.data) = op.opcode
  \/ op.opcode = OP_PUSHDATA1 /\ Len(op.data) <= 255
  \/ op.opcode \in {OP_PUSHDATA2, OP_PUSHDATA4}
  \/ op.opcode > OP_PUSHDATA4 /\ op.data = << >>

Truncated(script) == script.tail > 0

LengthBytes(opcode) ==
  CASE opcode = OP_PUSHDATA1 -> 1
    [] opcode = OP_PUSHDATA2 -> 2
    [] opcode = OP_PUSHDATA4 -> 4
    [] OTHER -> 0

op_length(op) == 1 + LengthBytes(op.opcode) + Len(op.data)

ScriptSize(script) ==
  LET upto[k \in 0..Len(script.ops)] ==
        IF k = 0 THEN script.tail ELSE upto[k - 1] + op_length(script.ops[k])
  IN  upto[Len(script.ops)]

is_push_only(script) ==
  ~Truncated(script) /\ \A i \in DOMAIN script.ops : script.ops[i].opcode <= OP_16

\* BIP62: the opcode that must have pushed this data.
check_minimal_push(data, opcode) ==
  LET n == Len(data)
  IN  IF n = 0 THEN opcode = OP_0
      ELSE IF n = 1 /\ data[1] \in 1..16 THEN opcode = OP_1 + (data[1] - 1)
      ELSE IF n = 1 /\ data[1] = 129 THEN opcode = OP_1NEGATE
      ELSE IF n <= 75 THEN opcode = n
      ELSE IF n <= 255 THEN opcode = OP_PUSHDATA1
      ELSE n <= 65535 => opcode = OP_PUSHDATA2

\* The shortest data push, with no use of OP_1..OP_16 (_encode_push).
encode_push(data) ==
  LET n == Len(data)
  IN  [opcode |-> IF n < OP_PUSHDATA1 THEN n
                  ELSE IF n <= 255 THEN OP_PUSHDATA1
                  ELSE IF n <= 65535 THEN OP_PUSHDATA2 ELSE OP_PUSHDATA4,
       data |-> data]

\* The patterns are encoded pushes.  The code deletes one after the other and
\* compares each with the script at operation boundaries only, where it matches
\* one whole operation, so their order does not matter.
find_and_delete(ops, patterns) ==
  FlattenSeq([k \in 1..Len(ops) |-> IF ops[k] \in patterns THEN << >> ELSE <<ops[k]>>])
==============================================================================
