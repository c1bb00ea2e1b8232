------------------------------ MODULE ScriptEval ------------------------------
(***************************************************************************)
(* Interpreter._eval_script: one script run on one stack under one set of  *)
(* rules, with the trace the run leaves behind.                            *)
(*                                                                         *)
(* An action is one turn of the loop over the operations: _step, the       *)
(* stack-size check after it and _append_step, which always follow one     *)
(* another.  The turn of a CHECKMULTISIG is split at its inner loop, whose *)
(* turns are the actions of Multisig.  Everything is determined by input,  *)
(* which Init chooses and nothing changes.                                 *)
(***************************************************************************)
EXTENDS Multisig, Locks

CONSTANTS
  EvalInputs,                     \* the evaluations to run
  MAX_SCRIPT_SIZE, MAX_SCRIPT_ELEMENT_SIZE, MAX_OPS_PER_SCRIPT,
  MAX_STACK_SIZE, MAX_PUBKEYS_PER_MULTISIG,
  MAX_NUM_SIZE,                   \* bytes of an arithmetic operand (4)
  MAX_LOCK_NUM_SIZE,              \* bytes of a lock-time operand (5)
  Digest(_, _)                    \* hash opcode, data

VARIABLES
  input,       \* the arguments of _eval_script, the flags, and the checker
  status,      \* "start", "running", "returned", "raised" or "escaped"
  pc,          \* op_index: operations processed so far
  stack, altstack, execStack,
  opCount,
  codesep,     \* codeseparator_offset, in operations
  codesepPos,  \* execdata.codeseparator_pos
  weight,      \* execdata.validation_weight
  steps,       \* run.steps
  error,       \* run.error
  finalStack   \* run.final_stack

NO_POS == -1   \* 0xFFFFFFFF: no separator seen

EvalInput ==
  [script : Script, stack : Seq(Item), sigVersion : SigVersion,
   flags : SUBSET VerificationFlag, checker : BOOLEAN, tx : TxView, weight : Nat]

ASSUME EvalInputsAssumption ==
  /\ EvalInputs \subseteq EvalInput
  /\ \A i \in EvalInputs : \A k \in DOMAIN i.script.ops : ParsedOp(i.script.ops[k])

ASSUME LimitsAssumption ==
  /\ {MAX_SCRIPT_SIZE, MAX_OPS_PER_SCRIPT, MAX_PUBKEYS_PER_MULTISIG} \subseteq Nat
  /\ {MAX_SCRIPT_ELEMENT_SIZE, MAX_STACK_SIZE} \subseteq Nat \ {0}
  /\ MAX_NUM_SIZE \in 1..4
  /\ MAX_LOCK_NUM_SIZE \in 1..5

codeVars == <<codesep, codesepPos, weight>>
runVars == <<input, status, pc, stack, altstack, execStack, opCount, steps, error,
             finalStack>>
evalVars == <<runVars, codeVars>>
vars == <<evalVars, multisigVars>>
------------------------------------------------------------------------------
(* Shorthands for what the code of a turn refers to.                       *)

Op == input.script.ops[pc + 1].opcode
PushData == input.script.ops[pc + 1].data
Flag(f) == f \in input.flags
Tapscript == input.sigVersion = "TAPSCRIPT"
Legacy == input.sigVersion \in {"BASE", "WITNESS_V0"}

\* stack[-n], the stack without its top n items, and the code's need(n).
Top(n) == stack[Len(stack) + 1 - n]
Drop(n) == SubSeq(stack, 1, Len(stack) - n)
Has(n) == Len(stack) >= n

Bool(b) == IF b THEN <<1>> ELSE << >>

\* Mutant: only the innermost condition is looked at.
Executing_Innermost == execStack # << >> => execStack[Len(execStack)]

Executing == \A i \in DOMAIN execStack : execStack[i]

\* frame.op_count once this operation is counted, run or not.
Count == opCount + IF Op > OP_16 THEN 1 ELSE 0

IsNum(item) == Decodable(item, Flag("MINIMALDATA"), MAX_NUM_SIZE)

\* Refused before anything else, in an inactive branch as well.
Rejection ==
  IF Len(PushData) > MAX_SCRIPT_ELEMENT_SIZE THEN "PUSH_SIZE"
  ELSE IF Count > MAX_OPS_PER_SCRIPT /\ Op > OP_16 /\ Legacy THEN "OP_COUNT"
  ELSE IF ~Tapscript /\ Op \in DISABLED_OPCODES THEN "DISABLED_OPCODE"
  ELSE "OK"

AtOp ==
  /\ status = "running"
  /\ loopPhase = "idle"
  /\ pc < Len(input.script.ops)

Processes(ops) == AtOp /\ Rejection = "OK" /\ Op \in ops
Executes(ops) == Processes(ops) /\ Executing
------------------------------------------------------------------------------
(* Recording: _append_step and the end of a turn.                          *)

\* Mutant: only the lengths of the two stacks are compared.
CommonPrefix_ByLength(pre, post) ==
  IF Len(pre) <= Len(post) THEN Len(pre) ELSE Len(post)

CommonPrefix(pre, post) ==
  CHOOSE n \in 0..Len(pre) :
    /\ n <= Len(post)
    /\ \A i \in 1..n : pre[i] = post[i]
    /\ n < Len(pre) /\ n < Len(post) => pre[n + 1] # post[n + 1]

\* StackDelta.  {} for None: a skipped or failing operation has no delta.
Delta(pre, post) ==
  LET n == CommonPrefix(pre, post)
  IN  {[popped |-> Len(pre) - n, pushed |-> SubSeq(post, n + 1, Len(post))]}

\* Mutant: the stack-size check leaves out the alternative stack.
TooDeep_MainOnly(s, a) == Len(s) > MAX_STACK_SIZE

TooDeep(s, a) == Len(s) + Len(a) > MAX_STACK_SIZE

\* The turn ends with these stacks, op_count n and signature check sig; err is
\* what the operation raised, if anything.
Finish(s, a, x, n, sig, err) ==
  LET e == IF err = "OK" /\ TooDeep(s, a) THEN "STACK_SIZE" ELSE err
  IN  /\ stack' = s
      /\ altstack' = a
      /\ execStack' = x
      /\ opCount' = n
      /\ pc' = pc + 1
      /\ steps' = Append(steps,
           [opIndex |-> pc, opcode |-> Op, executed |-> Executing,
            stack |-> s, altstack |-> a, execStack |-> x, opCount |-> n,
            delta |-> IF Executing /\ e = "OK" THEN Delta(stack, s) ELSE {},
            sigCheck |-> sig, error |-> e])
      /\ error' = e
      /\ status' = IF e = "OK" THEN status ELSE "raised"
      /\ finalStack' = IF e = "OK" THEN finalStack ELSE s
      /\ UNCHANGED input

Plain(s, a, x, err) ==
  /\ Finish(s, a, x, Count, {}, err)
  /\ UNCHANGED <<codeVars, multisigVars>>

Leave(s) == Plain(s, altstack, execStack, "OK")
Raise(s, err) == Plain(s, altstack, execStack, err)

\* Mutant: the run fails without a step that says so.
Terminal_Silent(err) ==
  /\ error' = err
  /\ status' = "raised"
  /\ UNCHANGED <<input, pc, stack, altstack, execStack, opCount, steps, finalStack>>
  /\ UNCHANGED <<codeVars, multisigVars>>

\* _record_terminal and the raise that follows it: the synthetic step carries
\* the defaults of ExecutionStep, not the state of the machine.
Terminal(err) ==
  /\ steps' = Append(steps,
       [opIndex |-> Len(steps), opcode |-> OP_INVALIDOPCODE, executed |-> TRUE,
        stack |-> << >>, altstack |-> << >>, execStack |-> << >>, opCount |-> 0,
        delta |-> {}, sigCheck |-> {}, error |-> err])
  /\ error' = err
  /\ status' = "raised"
  /\ UNCHANGED <<input, pc, stack, altstack, execStack, opCount, finalStack>>
  /\ UNCHANGED <<codeVars, multisigVars>>
------------------------------------------------------------------------------
(* Before and after the loop.                                              *)

NoJob == [sigs |-> << >>, keys |-> << >>, script_code |-> << >>,
          sig_version |-> "BASE", flags |-> {}]

\* The machine as _eval_script sets it up for its arguments.
Begin ==
  /\ status = "start"
  /\ pc = 0
  /\ stack = input.stack
  /\ altstack = << >>
  /\ execStack = << >>
  /\ opCount = 0
  /\ codesep = 0
  /\ codesepPos = NO_POS
  /\ weight = input.weight
  /\ steps = << >>
  /\ error = "OK"
  /\ finalStack = << >>
  /\ job = NoJob
  /\ loopPhase = "idle"
  /\ curSig = 0
  /\ curKey = 0
  /\ success = TRUE
  /\ lastDetail = {}
  /\ loopError = "OK"

Init == input \in EvalInputs /\ Begin

TooLong == Legacy /\ ScriptSize(input.script) > MAX_SCRIPT_SIZE

RejectScriptSize == status = "start" /\ TooLong /\ Terminal("SCRIPT_SIZE")

\* The whole script is parsed before its first operation is run.
RejectTruncated ==
  /\ status = "start" /\ ~TooLong
  /\ Truncated(input.script)
  /\ Terminal("BAD_OPCODE")

BeginLoop ==
  /\ status = "start" /\ ~TooLong
  /\ ~Truncated(input.script)
  /\ status' = "running"
  /\ UNCHANGED <<input, pc, stack, altstack, execStack, opCount, steps, error,
                 finalStack, codeVars, multisigVars>>

AtEnd == status = "running" /\ loopPhase = "idle" /\ pc = Len(input.script.ops)

EndUnbalanced ==
  AtEnd /\ execStack # << >> /\ Terminal("UNBALANCED_CONDITIONAL")

\* Mutant: exec_stack is not looked at when the script ends.
EndReturn_Unchecked ==
  /\ AtEnd
  /\ status' = "returned"
  /\ finalStack' = stack
  /\ UNCHANGED <<input, pc, stack, altstack, execStack, opCount, steps, error,
                 codeVars, multisigVars>>

EndReturn ==
  /\ AtEnd
  /\ execStack = << >>
  /\ status' = "returned"
  /\ finalStack' = stack
  /\ UNCHANGED <<input, pc, stack, altstack, execStack, opCount, steps, error,
                 codeVars, multisigVars>>
------------------------------------------------------------------------------
(* Refusals common to many operations.                                     *)

RejectOp == AtOp /\ Rejection # "OK" /\ Raise(stack, Rejection)

\* The need(n) of an operation; the signature and lock-time operations look for
\* the checker first and are dealt with on their own.
Arity(op) ==
  CASE op \in {OP_IF, OP_NOTIF, OP_VERIFY, OP_TOALTSTACK, OP_IFDUP, OP_DROP,
               OP_DUP, OP_SIZE} \cup UNARY_NUMERIC \cup HASH_OPCODES -> 1
    [] op \in {OP_2DROP, OP_2DUP, OP_NIP, OP_OVER, OP_PICK, OP_ROLL, OP_SWAP,
               OP_TUCK, OP_EQUAL, OP_EQUALVERIFY} \cup BINARY_NUMERIC -> 2
    [] op \in {OP_3DUP, OP_ROT, OP_WITHIN} -> 3
    [] op \in {OP_2OVER, OP_2SWAP} -> 4
    [] op = OP_2ROT -> 6
    [] OTHER -> 0

Runs(ops) == Executes(ops) /\ Has(Arity(Op))

Underflow ==
  /\ Executes(Opcode)
  /\ ~Has(Arity(Op))
  /\ Raise(stack, "INVALID_STACK_OPERATION")

BadOpcode ==
  /\ \/ Executes(RESERVED_OPCODES \cup DISABLED_OPCODES
                   \cup (OP_CHECKSIGADD + 1)..OP_INVALIDOPCODE)
     \/ Processes({OP_VERIF, OP_VERNOTIF})
  /\ Raise(stack, "BAD_OPCODE")

\* Operands are popped and decoded one after the other from the top, so the
\* ones above and including the undecodable one are gone when it is refused.
NumOperands(op) ==
  CASE op \in {OP_PICK, OP_ROLL} \cup UNARY_NUMERIC -> 1
    [] op \in BINARY_NUMERIC -> 2
    [] op = OP_WITHIN -> 3
    [] OTHER -> 0

NumbersOK == \A i \in 1..NumOperands(Op) : IsNum(Top(i))

BadNumber ==
  /\ Runs(Opcode)
  /\ \E i \in 1..NumOperands(Op) :
       /\ ~IsNum(Top(i))
       /\ \A k \in 1..(i - 1) : IsNum(Top(k))
       /\ Raise(Drop(i), "SCRIPTNUM")

SkipOp ==
  /\ Processes(Opcode \ CONDITIONAL_RANGE)
  /\ ~Executing
  /\ Leave(stack)
------------------------------------------------------------------------------
(* Pushes and control flow.                                                *)

OpPush ==
  /\ Executes(OP_0..OP_PUSHDATA4)
  /\ IF Flag("MINIMALDATA") /\ ~check_minimal_push(PushData, Op)
       THEN Raise(stack, "MINIMALDATA")
       ELSE Leave(Append(stack, PushData))

OpSmallInt ==
  /\ Executes({OP_1NEGATE} \cup SMALL_INTS)
  /\ Leave(Append(stack, encode_num(IF Op = OP_1NEGATE THEN -1
                                    ELSE Op - (OP_1 - 1))))

\* Only the empty item and 0x01 are minimal: a rule of tapscript, a policy
\* under witness v0, and no rule at all in a legacy script.
IfRefusal ==
  IF Top(1) \in {<< >>, <<1>>} THEN "OK"
  ELSE IF Tapscript THEN "TAPSCRIPT_MINIMALIF"
  ELSE IF input.sigVersion = "WITNESS_V0" /\ Flag("MINIMALIF") THEN "MINIMALIF"
  ELSE "OK"

OpIf ==
  /\ Runs({OP_IF, OP_NOTIF})
  /\ IF IfRefusal # "OK" THEN Raise(stack, IfRefusal)
     ELSE Plain(Drop(1), altstack,
                Append(execStack, cast_to_bool(Top(1)) # (Op = OP_NOTIF)), "OK")

\* Mutant: a skipped OP_IF is skipped like any other operation.
SkippedIf_NotCounted ==
  /\ Processes({OP_IF, OP_NOTIF})
  /\ ~Executing
  /\ Plain(stack, altstack, execStack, "OK")

\* The value stays False in an inactive branch, for OP_NOTIF too.
SkippedIf ==
  /\ Processes({OP_IF, OP_NOTIF})
  /\ ~Executing
  /\ Plain(stack, altstack, Append(execStack, FALSE), "OK")

OpElse ==
  /\ Processes({OP_ELSE})
  /\ LET n == Len(execStack)
     IN  IF n = 0 THEN Raise(stack, "UNBALANCED_CONDITIONAL")
         ELSE Plain(stack, altstack, [execStack EXCEPT ![n] = ~execStack[n]], "OK")

OpEndIf ==
  /\ Processes({OP_ENDIF})
  /\ IF execStack = << >> THEN Raise(stack, "UNBALANCED_CONDITIONAL")
     ELSE Plain(stack, altstack, Front(execStack), "OK")

OpVerify ==
  /\ Runs({OP_VERIFY})
  /\ IF cast_to_bool(Top(1)) THEN Leave(Drop(1)) ELSE Raise(stack, "VERIFY")

OpReturn == Executes({OP_RETURN}) /\ Raise(stack, "OP_RETURN")

OpNop == Executes({OP_NOP}) /\ Leave(stack)

UpgradableNop ==
  IF Flag("DISCOURAGE_UPGRADABLE_NOPS")
    THEN Raise(stack, "DISCOURAGE_UPGRADABLE_NOPS")
    ELSE Leave(stack)

OpUpgradableNop == Executes(UPGRADABLE_NOPS) /\ UpgradableNop
------------------------------------------------------------------------------
(* The two stacks.                                                         *)

OpToAltStack ==
  /\ Runs({OP_TOALTSTACK})
  /\ Plain(Drop(1), Append(altstack, Top(1)), execStack, "OK")

OpFromAltStack ==
  /\ Executes({OP_FROMALTSTACK})
  /\ LET n == Len(altstack)
     IN  IF n = 0 THEN Raise(stack, "INVALID_ALTSTACK_OPERATION")
         ELSE Plain(Append(stack, altstack[n]), Front(altstack), execStack, "OK")

\* What an operation that only rearranges puts back, as positions (from the
\* bottom) in the Arity(op) items it takes.
Gives(op) ==
  CASE op \in {OP_DROP, OP_2DROP} -> << >>
    [] op = OP_DUP   -> <<1, 1>>
    [] op = OP_2DUP  -> <<1, 2, 1, 2>>
    [] op = OP_3DUP  -> <<1, 2, 3, 1, 2, 3>>
    [] op = OP_2OVER -> <<1, 2, 3, 4, 1, 2>>
    [] op = OP_2ROT  -> <<3, 4, 5, 6, 1, 2>>
    [] op = OP_2SWAP -> <<3, 4, 1, 2>>
    [] op = OP_NIP   -> <<2>>
    [] op = OP_OVER  -> <<1, 2, 1>>
    [] op = OP_ROT   -> <<2, 3, 1>>
    [] op = OP_SWAP  -> <<2, 1>>
    [] op = OP_TUCK  -> <<2, 1, 2>>

Shuffled(op, s) ==
  LET base == Len(s) - Arity(op)
  IN  SubSeq(s, 1, base) \o [i \in DOMAIN Gives(op) |-> s[base + Gives(op)[i]]]

OpShuffle == Runs(STACK_SHUFFLES) /\ Leave(Shuffled(Op, stack))

OpIfDup ==
  /\ Runs({OP_IFDUP})
  /\ Leave(IF cast_to_bool(Top(1)) THEN Append(stack, Top(1)) ELSE stack)

OpDepth == Executes({OP_DEPTH}) /\ Leave(Append(stack, encode_num(Len(stack))))

OpSize == Runs({OP_SIZE}) /\ Leave(Append(stack, encode_num(Len(Top(1)))))

\* Mutant: OP_ROLL leaves the item where it was.
OpPickRoll_Copies ==
  /\ Runs({OP_PICK, OP_ROLL}) /\ NumbersOK
  /\ LET rest == Drop(1)
         n == decode_num(Top(1))
     IN  IF n \notin 0..(Len(rest) - 1)
           THEN Raise(rest, "INVALID_STACK_OPERATION")
           ELSE Leave(Append(rest, rest[Len(rest) - n]))

\* The position counts from the top of what is left once it is popped.
OpPickRoll ==
  /\ Runs({OP_PICK, OP_ROLL}) /\ NumbersOK
  /\ LET rest == Drop(1)
         n == decode_num(Top(1))
         at == Len(rest) - n
     IN  IF n \notin 0..(Len(rest) - 1)
           THEN Raise(rest, "INVALID_STACK_OPERATION")
           ELSE Leave(Append(IF Op = OP_ROLL THEN RemoveAt(rest, at) ELSE rest,
                             rest[at]))

OpEqual ==
  /\ Runs({OP_EQUAL, OP_EQUALVERIFY})
  /\ LET equal == Top(1) = Top(2)
     IN  IF Op = OP_EQUAL THEN Leave(Append(Drop(2), Bool(equal)))
         ELSE IF equal THEN Leave(Drop(2)) ELSE Raise(Drop(2), "EQUALVERIFY")
------------------------------------------------------------------------------
(* Arithmetic, hashing, code separators.                                   *)

Int01(b) == IF b THEN 1 ELSE 0

Unary(op, n) ==
  CASE op = OP_1ADD -> n + 1
    [] op = OP_1SUB -> n - 1
    [] op = OP_NEGATE -> -n
    [] op = OP_ABS -> Magnitude(n)
    [] op = OP_NOT -> Int01(n = 0)
    [] op = OP_0NOTEQUAL -> Int01(n # 0)

Binary(op, a, b) ==
  CASE op = OP_ADD -> a + b
    [] op = OP_SUB -> a - b
    [] op = OP_BOOLAND -> Int01(a # 0 /\ b # 0)
    [] op = OP_BOOLOR -> Int01(a # 0 \/ b # 0)
    [] op = OP_NUMEQUAL -> Int01(a = b)
    [] op = OP_NUMNOTEQUAL -> Int01(a # b)
    [] op = OP_LESSTHAN -> Int01(a < b)
    [] op = OP_GREATERTHAN -> Int01(a > b)
    [] op = OP_LESSTHANOREQUAL -> Int01(a <= b)
    [] op = OP_GREATERTHANOREQUAL -> Int01(a >= b)
    [] op = OP_MIN -> IF a < b THEN a ELSE b
    [] op = OP_MAX -> IF a > b THEN a ELSE b

OpUnary ==
  /\ Runs(UNARY_NUMERIC) /\ NumbersOK
  /\ Leave(Append(Drop(1), encode_num(Unary(Op, decode_num(Top(1))))))

\* b is the top item, a the one below it.
OpBinary ==
  /\ Runs(BINARY_NUMERIC) /\ NumbersOK
  /\ LET b == decode_num(Top(1))
         a == decode_num(Top(2))
     IN  IF Op # OP_NUMEQUALVERIFY
           THEN Leave(Append(Drop(2), encode_num(Binary(Op, a, b))))
         ELSE IF a = b THEN Leave(Drop(2)) ELSE Raise(Drop(2), "NUMEQUALVERIFY")

OpWithin ==
  /\ Runs({OP_WITHIN}) /\ NumbersOK
  /\ LET max == decode_num(Top(1))
         min == decode_num(Top(2))
         x == decode_num(Top(3))
     IN  Leave(Append(Drop(3), Bool(min <= x /\ x < max)))

OpHash == Runs(HASH_OPCODES) /\ Leave(Append(Drop(1), Digest(Op, Top(1))))

\* Mutants: a separator counts in an inactive branch too; what is signed begins
\* with the separator itself.
OpCodeSeparator_Unguarded ==
  /\ Processes({OP_CODESEPARATOR})
  /\ Finish(stack, altstack, execStack, Count, {}, "OK")
  /\ codesep' = pc + 1
  /\ codesepPos' = IF Tapscript THEN pc ELSE codesepPos
  /\ UNCHANGED <<weight, multisigVars>>
OpCodeSeparator_Inclusive ==
  /\ Executes({OP_CODESEPARATOR})
  /\ Finish(stack, altstack, execStack, Count, {}, "OK")
  /\ codesep' = pc
  /\ codesepPos' = IF Tapscript THEN pc ELSE codesepPos
  /\ UNCHANGED <<weight, multisigVars>>

OpCodeSeparator ==
  /\ Executes({OP_CODESEPARATOR})
  /\ Finish(stack, altstack, execStack, Count, {}, "OK")
  /\ codesep' = pc + 1
  /\ codesepPos' = IF Tapscript THEN pc ELSE codesepPos
  /\ UNCHANGED <<weight, multisigVars>>
------------------------------------------------------------------------------
(* Signature opcodes.                                                      *)

\* Mutant: the signatures are left in the script they sign.
ScriptCode_KeepSigs(sigs) ==
  SubSeq(input.script.ops, codesep + 1, Len(input.script.ops))

\* What a signature signs: the script after the last executed separator, in a
\* legacy script without the signatures themselves.
ScriptCode(sigs) ==
  LET subscript == SubSeq(input.script.ops, codesep + 1, Len(input.script.ops))
  IN  IF input.sigVersion # "BASE" THEN subscript
      ELSE find_and_delete(subscript, {encode_push(s) : s \in sigs \ {<< >>}})

\* The end of every signature opcode, its operands already popped from s.
Conclude(s, n, sig, ok, verify, verifyError) ==
  IF ~verify THEN Finish(Append(s, Bool(ok)), altstack, execStack, n, sig, "OK")
  ELSE Finish(s, altstack, execStack, n, sig, IF ok THEN "OK" ELSE verifyError)

EcdsaRefusal ==
  IF ~input.checker THEN "UNKNOWN_ERROR"
  ELSE IF ~Has(2) THEN "INVALID_STACK_OPERATION"
  ELSE EncodingError(Top(2), Top(1), input.flags, input.sigVersion)

NullFails(ok, sig) == ~ok /\ Flag("NULLFAIL") /\ sig # << >>

OpCheckSig ==
  /\ Executes(CHECKSIG_OPCODES)
  /\ ~Tapscript
  /\ UNCHANGED <<codeVars, multisigVars>>
  /\ LET pubkey == Top(1)
         sig == Top(2)
         code == ScriptCode({sig})
         ok == EcdsaValid(sig, pubkey, code, input.sigVersion)
         detail == Detail(sig, pubkey, code, ok)
     IN  IF EcdsaRefusal # "OK"
           THEN Finish(stack, altstack, execStack, Count, {}, EcdsaRefusal)
         ELSE IF NullFails(ok, sig)
           THEN Finish(stack, altstack, execStack, Count, detail, "SIG_NULLFAIL")
         ELSE Conclude(Drop(2), Count, detail, ok, Op = OP_CHECKSIGVERIFY,
                       "CHECKSIGVERIFY")
------------------------------------------------------------------------------
(* Tapscript signatures: _checksig_schnorr.                                *)

Cost(sig) == IF sig # << >> THEN 50 ELSE 0

WeightAfter(sig) == IF input.checker THEN weight - Cost(sig) ELSE weight

VALID_SCHNORR_HASHTYPES == {1, 2, 3, 129, 130, 131}

\* Mutant: the budget is looked at before the cost is charged.
OverBudget_Late(sig) == sig # << >> /\ weight < 0

OverBudget(sig) == sig # << >> /\ WeightAfter(sig) < 0

\* What is refused before the signature is verified.
SchnorrRefusal(sig, pubkey) ==
  IF ~input.checker THEN "UNKNOWN_ERROR"
  ELSE IF OverBudget(sig) THEN "TAPSCRIPT_VALIDATION_WEIGHT"
  ELSE IF pubkey = << >> THEN "TAPSCRIPT_EMPTY_PUBKEY"
  ELSE IF Len(pubkey) # 32
    THEN IF sig # << >> /\ Flag("DISCOURAGE_UPGRADABLE_PUBKEYTYPE")
           THEN "DISCOURAGE_UPGRADABLE_PUBKEYTYPE" ELSE "OK"
  ELSE IF sig = << >> THEN "OK"
  ELSE IF Len(sig) \notin {64, 65} THEN "SCHNORR_SIG_SIZE"
  ELSE IF Len(sig) = 65 /\ sig[65] \notin VALID_SCHNORR_HASHTYPES
    THEN "SCHNORR_SIG_HASHTYPE"
  ELSE "OK"

\* Mutant: a signature with a hash type of its own is never checked.
SchnorrChecked_Only64(sig, pubkey) == Len(sig) = 64 /\ Len(pubkey) = 32

\* A nonempty signature that is not refused is checked against a 32-byte key,
\* and taken as valid under a key of any other size.
SchnorrChecked(sig, pubkey) == sig # << >> /\ Len(pubkey) = 32

\* Shared by CHECKSIG and CHECKSIGADD: the error that the opcode fails with, if
\* any, and the signature check it reports.
SchnorrError(sig, pubkey) ==
  IF SchnorrRefusal(sig, pubkey) # "OK" THEN SchnorrRefusal(sig, pubkey)
  ELSE IF SchnorrChecked(sig, pubkey) /\ ~VerifySchnorr(sig, pubkey, codesepPos)
    THEN "SCHNORR_SIG"
  ELSE "OK"

SchnorrDetail(sig, pubkey) ==
  IF SchnorrRefusal(sig, pubkey) = "OK" /\ SchnorrChecked(sig, pubkey)
    THEN Detail(sig, pubkey, << >>, VerifySchnorr(sig, pubkey, codesepPos))
  ELSE {}

\* The hash types SIGHASH_SINGLE sign the output of the input's own index; the
\* taproot hash of an input that has none raises an IndexError.
Escapes(sig, pubkey) ==
  /\ SchnorrRefusal(sig, pubkey) = "OK" /\ SchnorrChecked(sig, pubkey)
  /\ Len(sig) = 65 /\ sig[65] % 4 = 3
  /\ ~input.tx.hasOutput

\* The budget is charged whatever comes of the check.
Charge(sig) == weight' = WeightAfter(sig) /\ UNCHANGED <<codesep, codesepPos, multisigVars>>

SchnorrFails(sig, pubkey) ==
  Finish(stack, altstack, execStack, Count, SchnorrDetail(sig, pubkey),
         SchnorrError(sig, pubkey))

OpTapscriptCheckSig ==
  /\ Executes(CHECKSIG_OPCODES)
  /\ Tapscript
  /\ IF ~Has(2) THEN Raise(stack, "INVALID_STACK_OPERATION")
     ELSE /\ Charge(Top(2))
          /\ ~Escapes(Top(2), Top(1))
          /\ IF SchnorrError(Top(2), Top(1)) # "OK" THEN SchnorrFails(Top(2), Top(1))
             ELSE Conclude(Drop(2), Count, SchnorrDetail(Top(2), Top(1)),
                           Top(2) # << >>, Op = OP_CHECKSIGVERIFY, "CHECKSIGVERIFY")

\* The success of a check is that the signature is not empty, here as above.
OpCheckSigAdd ==
  /\ Executes({OP_CHECKSIGADD})
  /\ IF ~Tapscript THEN Raise(stack, "BAD_OPCODE")
     ELSE IF ~Has(3) THEN Raise(stack, "INVALID_STACK_OPERATION")
     ELSE IF ~IsNum(Top(2)) THEN Raise(stack, "SCRIPTNUM")
     ELSE /\ Charge(Top(3))
          /\ ~Escapes(Top(3), Top(1))
          /\ IF SchnorrError(Top(3), Top(1)) # "OK" THEN SchnorrFails(Top(3), Top(1))
             ELSE Finish(Append(Drop(3),
                                encode_num(decode_num(Top(2)) + Int01(Top(3) # << >>))),
                         altstack, execStack, Count, SchnorrDetail(Top(3), Top(1)), "OK")

\* An exception that is no ScriptException passes through the loop: the turn
\* leaves no step, and the run neither an error nor a final stack.
EscapeSchnorr ==
  /\ Tapscript
  /\ \/ Executes(CHECKSIG_OPCODES) /\ Has(2) /\ Escapes(Top(2), Top(1)) /\ Charge(Top(2))
     \/ /\ Executes({OP_CHECKSIGADD}) /\ Has(3) /\ IsNum(Top(2))
        /\ Escapes(Top(3), Top(1)) /\ Charge(Top(3))
  /\ status' = "escaped"
  /\ opCount' = Count
  /\ UNCHANGED <<input, pc, stack, altstack, execStack, steps, error, finalStack>>
------------------------------------------------------------------------------
(* Multi-signature checks: _op_checkmultisig around the loop of Multisig.  *)
(* From the top: the number of keys, the keys, the number of signatures,   *)
(* the signatures, and one item the opcode pops without using it.          *)

KeysCount == decode_num(Top(1))
SigsCount == decode_num(Top(KeysCount + 2))

KeysCounted ==
  /\ input.checker /\ ~Tapscript
  /\ Has(1) /\ IsNum(Top(1))
  /\ KeysCount \in 0..MAX_PUBKEYS_PER_MULTISIG

\* Mutant: the keys are not charged to the operation budget.
CountWithKeys_Free(keys) == Count

\* Every key counts as an operation, whether or not it is compared.
CountWithKeys(keys) == Count + keys

MultisigRefusal ==
  IF ~input.checker THEN "UNKNOWN_ERROR"
  ELSE IF Tapscript THEN "TAPSCRIPT_CHECKMULTISIG"
  ELSE IF ~Has(1) THEN "INVALID_STACK_OPERATION"
  ELSE IF ~IsNum(Top(1)) THEN "SCRIPTNUM"
  ELSE IF ~KeysCounted THEN "PUBKEY_COUNT"
  ELSE IF CountWithKeys(KeysCount) > MAX_OPS_PER_SCRIPT THEN "OP_COUNT"
  ELSE IF ~Has(KeysCount + 2) THEN "INVALID_STACK_OPERATION"
  ELSE IF ~IsNum(Top(KeysCount + 2)) THEN "SCRIPTNUM"
  ELSE IF SigsCount \notin 0..KeysCount THEN "SIG_COUNT"
  ELSE IF ~Has(KeysCount + SigsCount + 3) THEN "INVALID_STACK_OPERATION"
  ELSE "OK"

RefuseMultisig ==
  /\ Executes(CHECKMULTISIG_OPCODES)
  /\ MultisigRefusal # "OK"
  /\ Finish(stack, altstack, execStack,
            IF KeysCounted THEN CountWithKeys(KeysCount) ELSE Count,
            {}, MultisigRefusal)
  /\ UNCHANGED <<codeVars, multisigVars>>

BeginMultisig ==
  /\ Executes(CHECKMULTISIG_OPCODES)
  /\ MultisigRefusal = "OK"
  /\ LET sigs == [k \in 1..SigsCount |-> Top(KeysCount + 2 + k)]
     IN  EnterLoop([sigs |-> sigs,
                    keys |-> [k \in 1..KeysCount |-> Top(k + 1)],
                    script_code |-> ScriptCode({sigs[k] : k \in DOMAIN sigs}),
                    sig_version |-> input.sigVersion,
                    flags |-> input.flags])
  /\ UNCHANGED evalVars

MultisigLoop == LoopStep /\ UNCHANGED evalVars

LeaveMultisig(outcome) ==
  /\ outcome
  /\ loopPhase' = "idle"
  /\ UNCHANGED <<job, curSig, curKey, success, lastDetail, loopError, codeVars>>

RaiseInMultisig ==
  /\ loopPhase = "raised"
  /\ LeaveMultisig(Finish(stack, altstack, execStack,
                          CountWithKeys(Len(job.keys)), {}, loopError))

\* Mutant: the clean-up begins to look for signatures one item late.
FirstNonEmpty_Late(k) ==
  k > 1 /\ job.sigs[k] # << >> /\ \A i \in 2..(k - 1) : job.sigs[i] = << >>

FirstNonEmpty(k) ==
  job.sigs[k] # << >> /\ \A i \in 1..(k - 1) : job.sigs[i] = << >>

\* The clean-up pops the counts and the keys, then the signatures until one is
\* not empty although the check failed.
NullFailMultisig ==
  /\ loopPhase = "left"
  /\ ~success /\ Flag("NULLFAIL")
  /\ \E k \in DOMAIN job.sigs :
       /\ FirstNonEmpty(k)
       /\ LeaveMultisig(Finish(Drop(Len(job.keys) + 1 + k), altstack, execStack,
                               CountWithKeys(Len(job.keys)), lastDetail,
                               "SIG_NULLFAIL"))

EndMultisig ==
  LET n == Len(job.keys) + Len(job.sigs) + 2
      count == CountWithKeys(Len(job.keys))
  IN  /\ loopPhase = "left"
      /\ ~(~success /\ Flag("NULLFAIL") /\ \E k \in DOMAIN job.sigs : FirstNonEmpty(k))
      /\ LeaveMultisig(
           IF Flag("NULLDUMMY") /\ Top(n + 1) # << >>
             THEN Finish(Drop(n), altstack, execStack, count, lastDetail,
                         "SIG_NULLDUMMY")
             ELSE Conclude(Drop(n + 1), count, lastDetail, success,
                           Op = OP_CHECKMULTISIGVERIFY, "CHECKMULTISIGVERIFY"))
------------------------------------------------------------------------------
(* Lock times: both operations leave the stack alone.                      *)

LockOperandRefusal ==
  IF ~input.checker THEN "UNKNOWN_ERROR"
  ELSE IF ~Has(1) THEN "INVALID_STACK_OPERATION"
  ELSE IF ~Decodable(Top(1), Flag("MINIMALDATA"), MAX_LOCK_NUM_SIZE) THEN "SCRIPTNUM"
  ELSE IF decode_num(Top(1)) < 0 THEN "NEGATIVE_LOCKTIME"
  ELSE "OK"

LockTurn(satisfied) ==
  IF LockOperandRefusal # "OK" THEN Raise(stack, LockOperandRefusal)
  ELSE IF satisfied THEN Leave(stack) ELSE Raise(stack, "UNSATISFIED_LOCKTIME")

OpCheckLockTimeVerify ==
  /\ Executes({OP_CHECKLOCKTIMEVERIFY})
  /\ IF ~Flag("CHECKLOCKTIMEVERIFY") THEN UpgradableNop
     ELSE LockTurn(check_locktime(input.tx, decode_num(Top(1))))

\* The disable bit of the operand turns the check off.
OpCheckSequenceVerify ==
  /\ Executes({OP_CHECKSEQUENCEVERIFY})
  /\ IF ~Flag("CHECKSEQUENCEVERIFY") THEN UpgradableNop
     ELSE LET n == decode_num(Top(1))
          IN  LockTurn(\/ HasFlag(n, SEQUENCE_LOCKTIME_DISABLE_FLAG)
                       \/ check_sequence(input.tx, n))
------------------------------------------------------------------------------
Next ==
  \/ RejectScriptSize \/ RejectTruncated \/ BeginLoop
  \/ EndUnbalanced \/ EndReturn
  \/ RejectOp \/ Underflow \/ BadOpcode \/ BadNumber \/ SkipOp
  \/ OpPush \/ OpSmallInt
  \/ OpIf \/ SkippedIf \/ OpElse \/ OpEndIf \/ OpVerify \/ OpReturn
  \/ OpNop \/ OpUpgradableNop
  \/ OpToAltStack \/ OpFromAltStack \/ OpShuffle \/ OpIfDup \/ OpDepth
  \/ OpSize \/ OpPickRoll \/ OpEqual
  \/ OpUnary \/ OpBinary \/ OpWithin \/ OpHash \/ OpCodeSeparator
  \/ OpCheckSig \/ OpTapscriptCheckSig \/ OpCheckSigAdd \/ EscapeSchnorr
  \/ RefuseMultisig \/ BeginMultisig \/ MultisigLoop \/ RaiseInMultisig
  \/ NullFailMultisig \/ EndMultisig
  \/ OpCheckLockTimeVerify \/ OpCheckSequenceVerify

Spec == Init /\ [][Next]_vars

\* Evaluation is sequential: as long as there is a next step it is taken.
FairSpec == Spec /\ WF_vars(Next)
==============================================================================
