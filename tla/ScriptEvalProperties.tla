------------------------- MODULE ScriptEvalProperties -------------------------
(***************************************************************************)
(* What an evaluation must do, stated over its script, its trace (steps)   *)
(* and its verdict.  Most properties relate two snapshots of the trace, or *)
(* a snapshot to the script, rather than one assignment to its value.      *)
(***************************************************************************)
EXTENDS ScriptEval, FiniteSets

Ops == input.script.ops
Opened == {OP_IF, OP_NOTIF}

\* The trace steps of operations, without the synthetic one at the end.
OpSteps == 1..pc
Passed(i) == i \in OpSteps /\ steps[i].executed /\ steps[i].error = "OK"

Before(i) == IF i = 1 THEN input.stack ELSE steps[i - 1].stack
AltBefore(i) == IF i = 1 THEN << >> ELSE steps[i - 1].altstack

\* The n-th item from the top of a stack.
FromTop(s, n) == s[Len(s) + 1 - n]

\* The type invariant.  The trace is covered by the properties below.
TypeOK ==
  /\ input \in EvalInput
  /\ status \in {"start", "running", "returned", "raised", "escaped"}
  /\ pc \in 0..Len(Ops)
  /\ stack \in Seq(Item)
  /\ altstack \in Seq(Item)
  /\ execStack \in Seq(BOOLEAN)
  /\ opCount \in Nat
  /\ codesep \in 0..Len(Ops)
  /\ codesepPos \in Int
  /\ weight \in Int
  /\ error \in ScriptError
  /\ finalStack \in Seq(Item)
  /\ loopPhase \in {"idle", "pairing", "left", "raised"}
------------------------------------------------------------------------------
(* Conditionals.                                                           *)

\* How many operations among the first i open, or close, a conditional.
Opens(i) == Cardinality({k \in 1..i : Ops[k].opcode \in Opened})
Closes(i) == Cardinality({k \in 1..i : Ops[k].opcode = OP_ENDIF})

\* The nesting that exec_stack records is that of the script text: a branch
\* that is skipped opens and closes its own conditionals like any other.
NestingFollowsScript ==
  status \in {"running", "returned"} =>
    /\ Len(execStack) = Opens(pc) - Closes(pc)
    /\ \A i \in 0..pc : Closes(i) <= Opens(i)

\* A script is only ever accepted when its conditionals are balanced, whichever
\* branches were taken, and every OP_ELSE lies inside one.
AcceptedBalanced ==
  status = "returned" =>
    /\ Opens(Len(Ops)) = Closes(Len(Ops))
    /\ \A i \in 1..Len(Ops) : Ops[i].opcode = OP_ELSE => Closes(i) < Opens(i)

\* The open conditionals at operation i, the operation that opened each, and
\* the branch of it that i is in: the condition, inverted by every OP_ELSE of
\* that conditional up to i.
Depth(i) == Opens(i) - Closes(i)
OpenAt(k, i) ==
  Ops[k].opcode \in Opened /\ \A m \in k..(i - 1) : Depth(m) >= Depth(k)
Condition(k) ==
  /\ steps[k].executed
  /\ cast_to_bool(FromTop(Before(k), 1)) # (Ops[k].opcode = OP_NOTIF)
Elses(k, i) ==
  Cardinality({m \in (k + 1)..(i - 1) :
                 Ops[m].opcode = OP_ELSE /\ Depth(m) = Depth(k)})
InTakenBranch(k, i) == Condition(k) # (Elses(k, i) % 2 = 1)

\* An operation is executed exactly when every conditional around it is in its
\* taken branch: a branch of an inner conditional never runs inside an outer
\* one that is not taken, however many OP_ELSE there are.
ExecutedInTakenBranches ==
  \A i \in OpSteps :
    steps[i].executed <=>
      \A k \in 1..(i - 1) : OpenAt(k, i) => InTakenBranch(k, i)

\* A skipped operation touches neither stack: only exec_stack and op_count move.
SkippedIsInert ==
  [][AtOp /\ ~Executing => UNCHANGED <<stack, altstack, codeVars>>]_vars
------------------------------------------------------------------------------
(* The trace.                                                              *)

\* Replaying the deltas from the initial stack reproduces every snapshot, so a
\* viewer that highlights them shows the change that happened; no delta pops
\* an item only to push the same one back; operations without a delta left the
\* stack alone or failed.
DeltasReplay ==
  \A i \in OpSteps :
    steps[i].error = "OK" =>
      IF steps[i].executed
        THEN \E d \in steps[i].delta :
               /\ d.popped <= Len(Before(i))
               /\ LET kept == Len(Before(i)) - d.popped
                  IN  /\ steps[i].stack = SubSeq(Before(i), 1, kept) \o d.pushed
                      /\ d.popped > 0 /\ d.pushed # << >> =>
                           Before(i)[kept + 1] # d.pushed[1]
        ELSE /\ steps[i].delta = {}
             /\ steps[i].stack = Before(i)
             /\ steps[i].altstack = AltBefore(i)

\* Every operation leaves one step, in order, up to the one that failed; only
\* the last step may report an error, and it is the error of the run.
OneStepPerOp ==
  /\ \A i \in DOMAIN steps : i < Len(steps) => steps[i].error = "OK"
  /\ \A i \in OpSteps : steps[i].opIndex = i - 1 /\ steps[i].opcode = Ops[i].opcode
  /\ status = "returned" => Len(steps) = Len(Ops)
  /\ status = "raised" <=> error # "OK"
  /\ status = "raised" => steps # << >> /\ steps[Len(steps)].error = error

\* trace/model.py: a step carries the machine state after it.
SnapshotIsState ==
  steps # << >> =>
    /\ steps[Len(steps)].stack = stack
    /\ steps[Len(steps)].altstack = altstack
    /\ steps[Len(steps)].execStack = execStack

\* script/script.py: a truncated push surfaces as BAD_OPCODE at its own step,
\* after the operations before it.
TruncationAtItsStep ==
  error = "BAD_OPCODE" /\ Truncated(input.script)
    => steps[Len(steps)].opIndex = Len(Ops)
------------------------------------------------------------------------------
(* Limits.                                                                 *)

Fits(s, a) == Len(s) + Len(a) <= MAX_STACK_SIZE

\* An evaluation that goes on, or is accepted, never holds more items on its
\* two stacks together than the limit, if it started within it.
StacksBounded ==
  status # "raised" /\ Fits(input.stack, << >>) => Fits(stack, altstack)

\* Operations above OP_16 among the first i of the script, run or skipped.
Counted(i) == Cardinality({k \in 1..i : Ops[k].opcode > OP_16})

KeysOf(i) ==
  IF steps[i].executed /\ Ops[i].opcode \in CHECKMULTISIG_OPCODES
    THEN decode_num(FromTop(Before(i), 1)) ELSE 0

\* The public keys that the multi-signature checks among the first i operations
\* looked at, each with the operation that took it.
KeysTaken(i) == UNION {{k} \X (1..KeysOf(k)) : k \in 1..i}

\* The operation budget is charged by the script text, skipped operations
\* included, plus one for every public key of a multi-signature check; a legacy
\* script that goes on has stayed within the limit.
OpsCharged ==
  status \in {"running", "returned"} =>
    /\ opCount = Counted(pc) + Cardinality(KeysTaken(pc))
    /\ Legacy => opCount <= MAX_OPS_PER_SCRIPT
------------------------------------------------------------------------------
(* Signatures.                                                             *)

Separators(i) ==
  {k \in 1..i : Ops[k].opcode = OP_CODESEPARATOR /\ steps[k].executed}

LastSeparator(i) ==
  IF Separators(i) = {} THEN 0
  ELSE CHOOSE k \in Separators(i) : \A m \in Separators(i) : m <= k

\* What a signature signs begins after the last separator that was executed;
\* tapscript commits to its position, the other versions to none.  (A separator
\* refused for the operation limit is in the trace but did not run.)
SeparatorIsLastExecuted ==
  status # "raised" =>
    LET last == LastSeparator(pc)
    IN  /\ codesep = last
        /\ codesepPos = IF Tapscript /\ last > 0 THEN last - 1 ELSE NO_POS

\* The signature a single-signature operation consumed at step i.
SignatureAt(i) ==
  FromTop(Before(i), IF Ops[i].opcode = OP_CHECKSIGADD THEN 3 ELSE 2)
SignatureSteps ==
  {i \in OpSteps : Passed(i) /\ Ops[i].opcode \in CHECKSIG_OPCODES \cup {OP_CHECKSIGADD}}

\* A tapscript that goes on has paid 50 for each nonempty signature it checked
\* and for nothing else, and has not overdrawn the budget its witness gave it.
BudgetSpent ==
  status \in {"running", "returned"} =>
    /\ weight = input.weight - (IF Tapscript
         THEN 50 * Cardinality({i \in SignatureSteps : SignatureAt(i) # << >>})
         ELSE 0)
    /\ weight >= 0

\* In a tapscript a signature counts as success only if it is nonempty, and
\* under a 32-byte key only if it verifies there at the separator position of
\* that moment: a failing signature ends the script instead.
TapscriptSuccessIsSigned ==
  Tapscript =>
    \A i \in SignatureSteps :
      LET sig == SignatureAt(i)
          key == FromTop(Before(i), 1)
          last == LastSeparator(i)
          pos == IF last > 0 THEN last - 1 ELSE NO_POS
      IN  sig # << >> /\ Len(key) = 32 =>
            VerifySchnorr(sig, key, pos) /\ Len(sig) \in {64, 65}

\* The arguments of a multi-signature check as the script's author wrote them,
\* from the bottom of the stack upwards.
Multi(i) ==
  LET s == Before(i)
      n == decode_num(FromTop(s, 1))
      m == decode_num(FromTop(s, n + 2))
      top == Len(s)
  IN  [keys |-> SubSeq(s, top - n, top - 1),
       sigs |-> SubSeq(s, top - n - 1 - m, top - n - 2)]

MultisigSteps ==
  {i \in OpSteps : Passed(i) /\ Ops[i].opcode \in CHECKMULTISIG_OPCODES}

\* Whether a signature operation that passed came out true: it says so on top of
\* the stack, adds one to the counter it was given, or would have failed.
CameOutTrue(i) ==
  CASE Ops[i].opcode \in {OP_CHECKSIG, OP_CHECKMULTISIG} ->
         FromTop(steps[i].stack, 1) = <<1>>
    [] Ops[i].opcode = OP_CHECKSIGADD ->
         FromTop(steps[i].stack, 1) = encode_num(decode_num(FromTop(Before(i), 2)) + 1)
    [] OTHER -> TRUE

Without(ops, pushes) ==
  FlattenSeq([k \in 1..Len(ops) |-> IF ops[k] \in pushes THEN << >> ELSE <<ops[k]>>])

\* The code a signature signs at step i: what follows the last separator
\* executed before it, without the signatures being checked if legacy.
SignedCode(i, sigs) ==
  LET rest == SubSeq(Ops, LastSeparator(i - 1) + 1, Len(Ops))
      pushes == {encode_push(sigs[k]) : k \in {x \in DOMAIN sigs : sigs[x] # << >>}}
  IN  IF input.sigVersion = "BASE" THEN Without(rest, pushes) ELSE rest

\* OP_CHECKMULTISIG comes out true exactly when the signatures, in the order
\* they were pushed, verify under keys in the order they were pushed.
MultisigIsMatching ==
  \A i \in MultisigSteps :
    LET a == Multi(i)
    IN  CameOutTrue(i) <=>
          \E f \in [DOMAIN a.sigs -> DOMAIN a.keys] :
            /\ \A x, y \in DOMAIN a.sigs : x < y => f[x] < f[y]
            /\ \A x \in DOMAIN a.sigs :
                 EcdsaValid(a.sigs[x], a.keys[f[x]], SignedCode(i, a.sigs),
                            input.sigVersion)

\* The same for one signature.
ChecksigIsSigned ==
  ~Tapscript =>
    \A i \in SignatureSteps :
      CameOutTrue(i) <=>
        EcdsaValid(SignatureAt(i), FromTop(Before(i), 1),
                   SignedCode(i, <<SignatureAt(i)>>), input.sigVersion)

\* Under NULLFAIL a check that comes out false was given only empty signatures.
NullFailLeavesNothing ==
  Flag("NULLFAIL") /\ ~Tapscript =>
    /\ \A i \in SignatureSteps : CameOutTrue(i) \/ SignatureAt(i) = << >>
    /\ \A i \in MultisigSteps :
         CameOutTrue(i) \/ \A k \in DOMAIN Multi(i).sigs : Multi(i).sigs[k] = << >>

\* The signature check a step shows the user agrees with its outcome.
DetailTellsOutcome ==
  \A i \in SignatureSteps \cup MultisigSteps :
    \A d \in steps[i].sigCheck : d.valid = CameOutTrue(i)
------------------------------------------------------------------------------
(* Stack operations and numbers.                                           *)

\* The rearranging operations are the permutations their names say: identities
\* between different ones, which an exchanged position would break.
ShuffleLaws ==
  LET Do(op, s) == Shuffled(op, s)
      s == stack
  IN  /\ Has(2) => /\ Do(OP_SWAP, Do(OP_SWAP, s)) = s
                   /\ Do(OP_TUCK, s) = Do(OP_OVER, Do(OP_SWAP, s))
                   /\ Do(OP_NIP, s) = Do(OP_DROP, Do(OP_SWAP, s))
                   /\ Do(OP_2DUP, s) = Do(OP_OVER, Do(OP_OVER, s))
                   /\ Do(OP_2DROP, s) = Do(OP_DROP, Do(OP_DROP, s))
                   /\ Do(OP_DROP, Do(OP_DUP, s)) = s
      /\ Has(3) => /\ Do(OP_ROT, Do(OP_ROT, Do(OP_ROT, s))) = s
                   /\ Do(OP_DROP, Do(OP_ROT, Do(OP_3DUP, s)))
                        = Append(Append(s, FromTop(s, 2)), FromTop(s, 1))
      /\ Has(4) => /\ Do(OP_2SWAP, Do(OP_2SWAP, s)) = s
                   /\ Do(OP_2DROP, Do(OP_2SWAP, Do(OP_2OVER, s)))
                        = Do(OP_2DROP, s) \o <<FromTop(s, 4), FromTop(s, 3)>>
      /\ Has(6) => Do(OP_2ROT, Do(OP_2ROT, Do(OP_2ROT, s))) = s

\* OP_PICK and OP_ROLL reach the item their operand names, and agree with the
\* operations that have that depth built in.
PickRollAgree ==
  \A i \in OpSteps :
    Passed(i) /\ Ops[i].opcode \in {OP_PICK, OP_ROLL} =>
      LET rest == SubSeq(Before(i), 1, Len(Before(i)) - 1)
          n == decode_num(FromTop(Before(i), 1))
          rolled == Ops[i].opcode = OP_ROLL
      IN  /\ ~rolled /\ n = 0 => steps[i].stack = Shuffled(OP_DUP, rest)
          /\ ~rolled /\ n = 1 => steps[i].stack = Shuffled(OP_OVER, rest)
          /\ rolled /\ n = 0 => steps[i].stack = rest
          /\ rolled /\ n = 1 => steps[i].stack = Shuffled(OP_SWAP, rest)
          /\ rolled /\ n = 2 => steps[i].stack = Shuffled(OP_ROT, rest)
          /\ rolled => Len(steps[i].stack) = Len(rest)

\* The operations that only rearrange the stack are what their names say.
RearrangingAgrees == ShuffleLaws /\ PickRollAgree

\* The number an item stands for: its bytes are the digits to base 256, the least
\* first, and the top bit of the last is the sign.
Value(item) ==
  LET n == Len(item)
      Bits(k) == IF k = n THEN item[k] % 128 ELSE item[k]
      from[k \in 1..(n + 1)] == IF k > n THEN 0 ELSE Bits(k) + 256 * from[k + 1]
  IN  IF n > 0 /\ item[n] >= 128 THEN -from[1] ELSE from[1]

\* Arithmetic is exact, also where the result needs a byte more than the
\* operands or changes sign; operands are within the size limit, and a result
\* is minimally encoded whether or not minimal operands were asked for.
ArithmeticExact ==
  \A i \in OpSteps :
    Passed(i) /\ Ops[i].opcode \in {OP_ADD, OP_SUB, OP_MIN, OP_MAX, OP_LESSTHAN,
                                   OP_GREATERTHANOREQUAL} =>
      LET b == Value(FromTop(Before(i), 1))
          a == Value(FromTop(Before(i), 2))
          item == FromTop(steps[i].stack, 1)
          r == Value(item)
          op == Ops[i].opcode
      IN  /\ \A k \in 1..2 : Len(FromTop(Before(i), k)) <= MAX_NUM_SIZE
          /\ MinimallyEncoded(item) /\ Len(item) <= MAX_NUM_SIZE + 1
          /\ op = OP_ADD => r - b = a
          /\ op = OP_SUB => r + b = a
          /\ op = OP_MIN => r \in {a, b} /\ r <= a /\ r <= b
          /\ op = OP_MAX => r \in {a, b} /\ r >= a /\ r >= b
          /\ op = OP_LESSTHAN => (r = 1 <=> a < b) /\ r \in {0, 1}
          /\ op = OP_GREATERTHANOREQUAL => (r = 0 <=> a < b) /\ r \in {0, 1}

\* When the network lets a transaction into a block: its lock time has passed
\* at this height and median time (a final input waives it), and the output it
\* spends is as many blocks old, or units of time, as its sequence asks for.
Mature(tx, height, time) ==
  \/ tx.locktime = 0 \/ tx.sequence = SEQUENCE_FINAL
  \/ tx.locktime < (IF tx.locktime < LOCKTIME_THRESHOLD THEN height ELSE time)

Length(n) == n % (SEQUENCE_LOCKTIME_MASK + 1)
Timed(n) == (n \div SEQUENCE_LOCKTIME_TYPE_FLAG) % 2 = 1
Disabled(n) == (n \div SEQUENCE_LOCKTIME_DISABLE_FLAG) % 2 = 1

Aged(tx, blocks, units) ==
  \/ tx.version < 2 \/ Disabled(tx.sequence)
  \/ (IF Timed(tx.sequence) THEN units ELSE blocks) >= Length(tx.sequence)

\* A lock is kept by the whole network, not only by the script: both stacks are
\* untouched, and whenever a transaction that passed one can be in a block, the
\* height or time the script named is in the past, or its output is as old as
\* the script asked.  An operand with the disable bit asks for nothing.
LockIsGate ==
  \A i \in OpSteps :
    Passed(i) /\ Ops[i].opcode \in {OP_CHECKLOCKTIMEVERIFY, OP_CHECKSEQUENCEVERIFY} =>
      LET n == Value(FromTop(Before(i), 1))
          Moments == 0..(input.tx.locktime + 1)
          Ages == 0..(SEQUENCE_LOCKTIME_MASK + 1)
      IN  /\ steps[i].stack = Before(i) /\ steps[i].altstack = AltBefore(i)
          /\ Ops[i].opcode = OP_CHECKLOCKTIMEVERIFY /\ Flag("CHECKLOCKTIMEVERIFY") =>
               \A h, t \in Moments : Mature(input.tx, h, t) =>
                 n = 0 \/ n \in 1..((IF n < LOCKTIME_THRESHOLD THEN h ELSE t) - 1)
          /\ Ops[i].opcode = OP_CHECKSEQUENCEVERIFY /\ Flag("CHECKSEQUENCEVERIFY") =>
               /\ n >= 0
               /\ \A b, u \in Ages : Aged(input.tx, b, u) /\ ~Disabled(n) =>
                    (IF Timed(n) THEN u ELSE b) >= Length(n)
------------------------------------------------------------------------------
\* Every evaluation ends: it returns, raises, or lets an exception through.
EvalEnds == <>(status \in {"returned", "raised", "escaped"})
==============================================================================
