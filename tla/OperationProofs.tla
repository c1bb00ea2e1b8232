--------------------------- MODULE OperationProofs ---------------------------
(***************************************************************************)
(* Proofs about what the operations of an evaluation check and decide.     *)
(* Signatures: what the trace tells of a signature or a multi-signature    *)
(* check is what was decided, and each check was paid for, by the          *)
(* tapscript budget or by the count of operations.  Numbers: what an item  *)
(* stands for is what is read from it, and what is written is read back;   *)
(* so a lock that an evaluation passed gates its spend, and arithmetic is  *)
(* exact at the limit of its operands.                                     *)
(***************************************************************************)
EXTENDS ScriptEvalProofs

\* The machine and the trace between two steps, with what signatures sign.
SigningInv == Between /\ SeparatorInv

LEMMA InitSigning == Init => SigningInv
BY InitBetween, InitSeparator DEF SigningInv

LEMMA StepSigning ==
  ASSUME DigestsAreItems, SigningInv, [Next]_vars
  PROVE  SigningInv'
BY StepBetween, StepSeparator DEF SigningInv, Between


------------------------------------------------------------------------------
(* Tapscript: one signature, its budget, and success.                      *)

\* The operations that check one signature, and the one they check.
OneSigOps == CHECKSIG_OPCODES \cup {OP_CHECKSIGADD}
SigTaken == Top(IF Op = OP_CHECKSIGADD THEN 3 ELSE 2)

\* A single signature that a tapscript goes on after was charged and accepted.
LEMMA TapscriptChecked ==
  ASSUME LoopInTurn, Succeeded, Executing, Tapscript, Op \in OneSigOps
  PROVE  /\ Has(IF Op = OP_CHECKSIGADD THEN 3 ELSE 2)
         /\ weight' = WeightAfter(SigTaken)
         /\ SchnorrError(SigTaken, Top(1)) = "OK"
         /\ \E s : Finish(s, altstack, execStack, Count, SchnorrDetail(SigTaken, Top(1)), "OK")
         /\ Op = OP_CHECKSIG => stack' = Append(Drop(2), Bool(SigTaken # << >>))
         /\ Op = OP_CHECKSIGVERIFY => SigTaken # << >>
         /\ Op = OP_CHECKSIGADD =>
              stack' = Append(Drop(3), encode_num(decode_num(Top(2)) + Int01(SigTaken # << >>)))
<1>1. CASE Op \in CHECKSIG_OPCODES
  <2>1. OpTapscriptCheckSig /\ Op # OP_CHECKSIGADD
    BY <1>1, SucceededSpecial, OpsApart DEF OpCheckSig
  <2>2. SigTaken = Top(2)
    BY <2>1 DEF SigTaken
  <2>3. Has(2) /\ SchnorrError(Top(2), Top(1)) = "OK"
    BY <2>1 DEF OpTapscriptCheckSig, Raise, Plain, SchnorrFails, Finish, Succeeded
  <2>4. /\ Charge(Top(2))
        /\ Conclude(Drop(2), Count, SchnorrDetail(Top(2), Top(1)), Top(2) # << >>,
                    Op = OP_CHECKSIGVERIFY, "CHECKSIGVERIFY")
    BY <2>1, <2>3 DEF OpTapscriptCheckSig
  <2>5. OP_CHECKSIG # OP_CHECKSIGVERIFY
    BY DEF OP_CHECKSIG, OP_CHECKSIGVERIFY
  <2>6. CASE Op = OP_CHECKSIGVERIFY
    <3>1. Top(2) # << >> /\ Finish(Drop(2), altstack, execStack, Count,
                                   SchnorrDetail(Top(2), Top(1)), "OK")
      BY <2>4, <2>6 DEF Conclude, Finish, Succeeded
    <3>. QED BY <2>1, <2>2, <2>3, <2>4, <2>5, <2>6, <3>1 DEF Charge
  <2>7. CASE Op # OP_CHECKSIGVERIFY
    <3>1. Finish(Append(Drop(2), Bool(Top(2) # << >>)), altstack, execStack, Count,
                 SchnorrDetail(Top(2), Top(1)), "OK")
      BY <2>4, <2>7 DEF Conclude
    <3>2. stack' = Append(Drop(2), Bool(Top(2) # << >>))
      BY <3>1 DEF Finish
    <3>. QED BY <2>1, <2>2, <2>3, <2>4, <2>7, <3>1, <3>2 DEF Charge
  <2>. QED BY <2>6, <2>7
<1>2. CASE Op = OP_CHECKSIGADD
  <2>1. OpCheckSigAdd /\ SigTaken = Top(3) /\ Op \notin CHECKSIG_OPCODES
    BY <1>2, SucceededSpecial, OpsApart DEF SigTaken
  <2>2. Has(3) /\ IsNum(Top(2)) /\ SchnorrError(Top(3), Top(1)) = "OK"
    BY <2>1 DEF OpCheckSigAdd, Raise, Plain, SchnorrFails, Finish, Succeeded
  <2>3. /\ Charge(Top(3))
        /\ Finish(Append(Drop(3), encode_num(decode_num(Top(2)) + Int01(Top(3) # << >>))),
                  altstack, execStack, Count, SchnorrDetail(Top(3), Top(1)), "OK")
    BY <2>1, <2>2 DEF OpCheckSigAdd
  <2>4. stack' = Append(Drop(3), encode_num(decode_num(Top(2)) + Int01(Top(3) # << >>)))
    BY <2>3 DEF Finish
  <2>5. Op # OP_CHECKSIG /\ Op # OP_CHECKSIGVERIFY
    BY <2>1 DEF CHECKSIG_OPCODES
  <2>6. Has(IF Op = OP_CHECKSIGADD THEN 3 ELSE 2)
    BY <1>2, <2>2
  <2>. QED BY <2>1, <2>2, <2>3, <2>4, <2>5, <2>6 DEF Charge
<1>. QED BY <1>1, <1>2 DEF OneSigOps

\* What an accepted signature was checked for.
LEMMA SchnorrAccepted ==
  ASSUME NEW sig, NEW key, SchnorrError(sig, key) = "OK"
  PROVE  /\ input.checker
         /\ WeightAfter(sig) = weight - Cost(sig)
         /\ sig # << >> => ~(weight - Cost(sig) < 0)
         /\ sig # << >> /\ Len(key) = 32 =>
              VerifySchnorr(sig, key, codesepPos) /\ Len(sig) \in {64, 65}
<1>1. SchnorrRefusal(sig, key) = "OK"
  BY DEF SchnorrError
<1>2. input.checker /\ ~OverBudget(sig)
  BY <1>1 DEF SchnorrRefusal
<1>3. SchnorrChecked(sig, key) => VerifySchnorr(sig, key, codesepPos)
  BY <1>1 DEF SchnorrError
<1>4. sig # << >> /\ Len(key) = 32 => Len(sig) \in {64, 65}
  BY <1>1, EmptySeq DEF SchnorrRefusal
<1>. QED BY <1>2, <1>3, <1>4 DEF OverBudget, WeightAfter, SchnorrChecked
\* The signatures a tapscript has paid for.
Charged == {i \in SignatureSteps : SignatureAt(i) # << >>}

BudgetInv ==
  status \in {"start", "running", "returned"} =>
    /\ weight = input.weight - (IF Tapscript THEN 50 * Cardinality(Charged) ELSE 0)
    /\ weight >= 0

\* Recording an operation adds it to the signatures paid for exactly when it
\* went on after checking a nonempty one.
LEMMA ChargedStep ==
  ASSUME TraceInv, HistoryInv, Succeeded, [Next]_vars
  PROVE  Charged' = Charged \cup IF Executing /\ Op \in OneSigOps /\ SigTaken # << >>
                                   THEN {pc + 1} ELSE {}
<1>1. /\ pc \in Nat /\ pc' = pc + 1 /\ Recorded
  BY RecordedStep DEF Succeeded
<1>2. OpSteps' = OpSteps \cup {pc + 1} /\ pc + 1 \notin OpSteps
  BY <1>1 DEF OpSteps
<1>3. \A i \in OpSteps : (i \in Charged)' = (i \in Charged)
  <2> SUFFICES ASSUME NEW i \in OpSteps PROVE (i \in Charged)' = (i \in Charged)
    OBVIOUS
  <2>. QED BY OldStep DEF Charged
<1>4. ASSUME NEW i, i = pc + 1
      PROVE  (i \in Charged)' <=> Executing /\ Op \in OneSigOps /\ SigTaken # << >>
  <2>1. /\ Passed(i)' <=> Executing
        /\ Before(i)' = stack /\ Ops'[i].opcode = Op
    BY <1>1, <1>4, NewStep
  <2>2. (i \in SignatureSteps)' <=> Executing /\ Op \in OneSigOps
    BY <1>2, <1>4, <2>1 DEF SignatureSteps, OneSigOps
  <2>3. SignatureAt(i)' = SigTaken
    BY <2>1 DEF SignatureAt, SigTaken, FromTop, Top
  <2>. QED BY <2>2, <2>3 DEF Charged
<1>5. Charged \subseteq OpSteps /\ Charged' \subseteq OpSteps'
  BY DEF Charged, SignatureSteps
<1>. QED BY <1>2, <1>3, <1>4, <1>5

LEMMA StepBudget ==
  ASSUME SigningInv, BudgetInv, [Next]_vars
  PROVE  BudgetInv'
<1>0. TraceInv /\ HistoryInv /\ LoopInTurn /\ TypeOK
  BY DEF SigningInv, Between, MachineInv, TypeInv
<1>1. CASE Succeeded
  <2>1. /\ pc \in Nat /\ pc' = pc + 1 /\ input' = input /\ Recorded /\ status = "running"
        /\ weight \in Int
    BY <1>0, <1>1, RecordedStep DEF Succeeded, Recorded, InTurn, TypeOK
  <2>2. Charged' = Charged \cup IF Executing /\ Op \in OneSigOps /\ SigTaken # << >>
                                  THEN {pc + 1} ELSE {}
    BY <1>0, <1>1, ChargedStep
  <2>3. Charged \subseteq 1..pc
    BY DEF Charged, SignatureSteps, OpSteps
  <2>4. /\ IsFiniteSet(Charged) /\ Cardinality(Charged) \in Nat
        /\ Cardinality(Charged \cup {pc + 1}) = Cardinality(Charged) + 1
    <3>1. IsFiniteSet(1..pc)
      BY <2>1, FS_Interval
    <3>2. IsFiniteSet(Charged)
      BY <2>3, <3>1, FS_Subset
    <3>3. pc + 1 \notin Charged
      BY <2>1, <2>3
    <3>. QED BY <3>2, <3>3, FS_AddElement, FS_CardinalityType
  <2>5. /\ weight = input.weight - (IF Tapscript THEN 50 * Cardinality(Charged) ELSE 0)
        /\ weight >= 0 /\ input.weight \in Nat
    BY <1>0, <2>1, InputType DEF BudgetInv, TypeOK
  <2>6. CASE Tapscript /\ Executing /\ Op \in OneSigOps
    <3>1. /\ weight' = weight - Cost(SigTaken)
          /\ SigTaken # << >> => ~(weight - Cost(SigTaken) < 0)
      BY <1>0, <1>1, <2>6, TapscriptChecked, SchnorrAccepted
    <3>2. CASE SigTaken # << >>
      <4>1. Cardinality(Charged') = Cardinality(Charged) + 1 /\ weight' = weight - 50
        BY <2>2, <2>4, <2>6, <3>1, <3>2 DEF Cost
      <4>2. weight' >= 0
        BY <2>1, <3>1, <3>2 DEF Cost
      <4>3. weight' = input.weight - 50 * Cardinality(Charged')
        BY <2>4, <2>5, <2>6, <4>1
      <4>. QED BY <2>1, <2>6, <4>2, <4>3 DEF BudgetInv, Tapscript
    <3>3. CASE SigTaken = << >>
      <4>1. Charged' = Charged /\ weight' = weight
        BY <2>1, <2>2, <3>1, <3>3 DEF Cost
      <4>. QED BY <2>1, <2>5, <4>1 DEF BudgetInv, Tapscript
    <3>. QED BY <3>2, <3>3
  <2>7. CASE ~Tapscript
    <3>1. weight' = weight
      <4>1. ASSUME Executing, Op \in OneSigOps PROVE weight' = weight
        <5>1. OpCheckSig \/ OpTapscriptCheckSig \/ OpCheckSigAdd
          BY <1>0, <1>1, <4>1, SucceededSpecial DEF OneSigOps
        <5>. QED BY <2>7, <5>1 DEF OpCheckSig, OpTapscriptCheckSig, OpCheckSigAdd, codeVars,
                                  Raise, Plain
      <4>. QED BY <1>0, <1>1, <4>1, SucceededKeeps DEF OneSigOps
    <3>. QED BY <2>1, <2>5, <2>7, <3>1 DEF BudgetInv, Tapscript
  <2>8. CASE ~(Executing /\ Op \in OneSigOps)
    <3>1. weight' = weight /\ Charged' = Charged
      BY <1>0, <1>1, <2>2, <2>8, SucceededKeeps DEF OneSigOps
    <3>. QED BY <2>1, <2>5, <3>1 DEF BudgetInv, Tapscript
  <2>. QED BY <2>6, <2>7, <2>8
<1>2. CASE Silent
  <2>1. UNCHANGED <<input, pc, steps>>
    BY <1>2 DEF Silent
  <2>2. Charged' = Charged /\ Tapscript' = Tapscript
    BY <2>1 DEF Charged, SignatureSteps, SignatureAt, Passed, OpSteps, Ops, Before, Tapscript
  <2>3. status' \in {"start", "running", "returned"} =>
          weight' = weight /\ status \in {"start", "running", "returned"}
    BY <1>2 DEF Silent, InTurn, AtEnd
  <2>. QED BY <2>1, <2>2, <2>3 DEF BudgetInv
<1>3. status' = "raised" => BudgetInv'
  BY DEF BudgetInv
<1>4. Ended => status' = "raised"
  BY DEF Ended, Terminal
<1>. QED BY <1>0, <1>1, <1>2, <1>3, <1>4, StepRecords DEF Succeeded

LEMMA InitBudget == Init => BudgetInv
<1> SUFFICES ASSUME Init PROVE BudgetInv
  OBVIOUS
<1>1. Charged = {}
  BY DEF Init, Begin, Charged, SignatureSteps, OpSteps
<1>2. input.weight \in Nat
  BY EvalInputsAssumption DEF Init, EvalInput
<1>. QED BY <1>1, <1>2, FS_EmptySet DEF Init, Begin, BudgetInv

\* The budget of a tapscript pays for its nonempty signatures and for nothing
\* else, in every script, and is never overdrawn by one that goes on.
THEOREM BudgetIsSpentOnSignatures ==
  ASSUME DigestsAreItems
  PROVE  Spec => []BudgetSpent
<1>1. BudgetInv => BudgetSpent
  BY DEF BudgetInv, BudgetSpent, Charged
<1>2. SigningInv /\ BudgetInv /\ [Next]_vars => SigningInv' /\ BudgetInv'
  BY StepSigning, StepBudget
<1>. QED BY <1>1, <1>2, InitSigning, InitBudget, PTL DEF Spec
LEMMA StepTapscript ==
  ASSUME SigningInv, SeparatorIsLastExecuted', TapscriptSuccessIsSigned, [Next]_vars
  PROVE  TapscriptSuccessIsSigned'
<1>0. TraceInv /\ HistoryInv /\ LoopInTurn
  BY DEF SigningInv, Between, MachineInv
<1> DEFINE Pos(last) == IF last > 0 THEN last - 1 ELSE NO_POS
           Signed(i) == SignatureAt(i) # << >> /\ Len(FromTop(Before(i), 1)) = 32 =>
             /\ VerifySchnorr(SignatureAt(i), FromTop(Before(i), 1), Pos(LastSeparator(i)))
             /\ Len(SignatureAt(i)) \in {64, 65}
<1>1. TapscriptSuccessIsSigned <=> (Tapscript => \A i \in SignatureSteps : Signed(i))
  BY DEF TapscriptSuccessIsSigned
<1>2. TapscriptSuccessIsSigned' <=> (Tapscript' => \A i \in SignatureSteps' : Signed(i)')
  BY DEF TapscriptSuccessIsSigned
<1>3. Tapscript' = Tapscript
  BY <1>0, PastKept DEF Tapscript
<1> SUFFICES ASSUME Tapscript, NEW i \in SignatureSteps' PROVE Signed(i)'
  BY <1>2, <1>3
<1>4. i \in OpSteps'
  BY DEF SignatureSteps
<1>5. CASE i \in OpSteps
  <2>1. i \in SignatureSteps /\ Signed(i)
    BY <1>0, <1>1, <1>5, OldStep
  <2>. QED BY <1>0, <1>5, <2>1, OldStep
<1>6. CASE Recorded /\ i = pc + 1
  <2>1. /\ Passed(i)' <=> Succeeded /\ Executing
        /\ Before(i)' = stack /\ Ops'[i].opcode = Op
    BY <1>0, <1>6, NewStep
  <2>2. Succeeded /\ Executing /\ Op \in OneSigOps
    BY <2>1 DEF SignatureSteps, OneSigOps
  <2>3. SignatureAt(i)' = SigTaken /\ FromTop(Before(i), 1)' = Top(1)
    BY <2>1 DEF SignatureAt, SigTaken, FromTop, Top
  <2>4. SigTaken # << >> /\ Len(Top(1)) = 32 =>
          VerifySchnorr(SigTaken, Top(1), codesepPos) /\ Len(SigTaken) \in {64, 65}
    BY <1>0, <2>2, TapscriptChecked, SchnorrAccepted
  <2>5. LastSeparator(i)' = codesep' /\ codesepPos' = Pos(codesep') /\ codesepPos' = codesepPos
    <3>2. pc' = i /\ status' # "raised"
      BY <1>0, <1>6, <2>2, RecordedStep DEF Succeeded
    <3>3. Op # OP_CODESEPARATOR
      BY <2>2, OpsApart DEF OneSigOps, OP_CODESEPARATOR, OP_CHECKSIGADD
    <3>. QED BY <1>0, <1>3, <2>2, <3>2, <3>3, SucceededKeeps DEF SeparatorIsLastExecuted
  <2>. QED BY <2>3, <2>4, <2>5
<1>. QED BY <1>0, <1>4, <1>5, <1>6, OldOrNew

\* A tapscript signature that counts as success under a 32-byte key verified
\* there, at the separator position of that moment.
THEOREM TapscriptSuccessVerified ==
  ASSUME DigestsAreItems
  PROVE  Spec => []TapscriptSuccessIsSigned
<1>1. Init => TapscriptSuccessIsSigned
  BY DEF Init, Begin, TapscriptSuccessIsSigned, SignatureSteps, OpSteps
<1>2. SigningInv /\ [Next]_vars => SigningInv'
  BY StepSigning
<1>3. SigningInv => SeparatorIsLastExecuted
  BY SeparatorMeans DEF SigningInv, Between
<1>4. SigningInv /\ SeparatorIsLastExecuted' /\ TapscriptSuccessIsSigned /\ [Next]_vars
        => TapscriptSuccessIsSigned'
  BY StepTapscript
<1>. QED BY <1>1, <1>2, <1>3, <1>4, InitSigning, PTL DEF Spec

------------------------------------------------------------------------------
(* The operations that check one signature.                                *)

LEMMA TopOfAppend ==
  ASSUME NEW S, NEW s \in Seq(S), NEW e
  PROVE  FromTop(Append(s, e), 1) = e
<1>1. Len(s) \in Nat /\ Len(Append(s, e)) = Len(s) + 1 /\ Append(s, e)[Len(s) + 1] = e
  BY AppendOne
<1>2. Len(s) + 1 + 1 - 1 = Len(s) + 1
  BY <1>1
<1>. QED BY <1>1, <1>2 DEF FromTop

LEMMA BoolSays == ASSUME NEW b PROVE Bool(b) = <<1>> <=> b
<1>1. << >> # <<1>>
  OBVIOUS
<1>. QED BY <1>1 DEF Bool

\* The code that the newest signature operation signed.
LEMMA CodeSigned ==
  ASSUME TraceInv, SeparatorInv, status # "raised", [Next]_vars, NEW i, i = pc + 1, NEW sigs
  PROVE  SignedCode(i, sigs)' = ScriptCode({sigs[k] : k \in DOMAIN sigs})
<1>1. LastSeparator(i - 1)' = codesep
  <2>1. pc \in 0..pc /\ LastSeparator(pc) = codesep
    BY SeparatorMeans DEF TraceInv, SeparatorIsLastExecuted
  <2>2. i - 1 = pc
    BY DEF TraceInv
  <2>. QED BY <2>1, <2>2, PastKept
<1>2. input' = input /\ Ops' = Ops
  BY PastKept
<1> DEFINE rest == SubSeq(Ops, codesep + 1, Len(Ops))
           written == {encode_push(sigs[k]) : k \in {x \in DOMAIN sigs : sigs[x] # << >>}}
           found == {encode_push(s) : s \in {sigs[k] : k \in DOMAIN sigs} \ {<< >>}}
<1>3. written = found
  OBVIOUS
<1>4. SignedCode(i, sigs)' = IF input.sigVersion = "BASE" THEN Without(rest, written) ELSE rest
  BY <1>1, <1>2 DEF SignedCode
<1>5. ASSUME NEW ops, NEW pushes
      PROVE  find_and_delete(ops, pushes) = Without(ops, pushes)
  BY DEF find_and_delete, Without
<1>6. ScriptCode({sigs[k] : k \in DOMAIN sigs})
        = IF input.sigVersion # "BASE" THEN rest ELSE find_and_delete(rest, found)
  BY DEF ScriptCode, Ops
<1>. HIDE DEF rest, written, found
<1>. QED BY <1>3, <1>4, <1>5, <1>6

\* The check of the two items on top, over the code as it is at the moment.
Verifies == EcdsaValid(Top(2), Top(1), ScriptCode({Top(2)}), input.sigVersion)
EcdsaDetail == Detail(Top(2), Top(1), ScriptCode({Top(2)}), Verifies)

\* A single signature that a legacy or witness script goes on after.
LEMMA EcdsaChecked ==
  ASSUME LoopInTurn, Succeeded, Executing, ~Tapscript, Op \in OneSigOps
  PROVE  /\ Op \in CHECKSIG_OPCODES /\ Op # OP_CHECKSIGADD /\ Has(2)
         /\ ~NullFails(Verifies, Top(2))
         /\ \E s : Finish(s, altstack, execStack, Count, EcdsaDetail, "OK")
         /\ Op = OP_CHECKSIG => stack' = Append(Drop(2), Bool(Verifies))
         /\ Op = OP_CHECKSIGVERIFY => Verifies
<1>1. Op \in CHECKSIG_OPCODES
  <2>1. Op = OP_CHECKSIGADD => OpCheckSigAdd
    BY SucceededSpecial
  <2>2. OpCheckSigAdd => status' = "raised"
    BY DEF OpCheckSigAdd, Raise, Plain, Finish
  <2>. QED BY <2>1, <2>2 DEF OneSigOps, Succeeded
<1>2. OpCheckSig /\ Op # OP_CHECKSIGADD
  BY <1>1, SucceededSpecial, OpsApart DEF OpTapscriptCheckSig
<1>3. EcdsaRefusal = "OK" /\ ~NullFails(Verifies, Top(2))
  BY <1>2 DEF OpCheckSig, Verifies, EcdsaDetail, Finish, Succeeded
<1>4. Has(2)
  BY <1>3 DEF EcdsaRefusal
<1>5. Conclude(Drop(2), Count, EcdsaDetail, Verifies, Op = OP_CHECKSIGVERIFY, "CHECKSIGVERIFY")
  BY <1>2, <1>3 DEF OpCheckSig, Verifies, EcdsaDetail
<1>6. OP_CHECKSIG # OP_CHECKSIGVERIFY
  BY DEF OP_CHECKSIG, OP_CHECKSIGVERIFY
<1>7. CASE Op = OP_CHECKSIGVERIFY
  <2>1. Verifies /\ Finish(Drop(2), altstack, execStack, Count, EcdsaDetail, "OK")
    BY <1>5, <1>7 DEF Conclude, Finish, Succeeded
  <2>. QED BY <1>1, <1>2, <1>3, <1>4, <1>6, <1>7, <2>1
<1>8. CASE Op # OP_CHECKSIGVERIFY
  <2>1. Finish(Append(Drop(2), Bool(Verifies)), altstack, execStack, Count, EcdsaDetail, "OK")
    BY <1>5, <1>8 DEF Conclude
  <2>2. stack' = Append(Drop(2), Bool(Verifies))
    BY <2>1 DEF Finish
  <2>. QED BY <1>1, <1>2, <1>3, <1>4, <1>8, <2>1, <2>2
<1>. QED BY <1>7, <1>8

\* The three things the trace tells of a single signature.
SingleTells(i) ==
  /\ ~Tapscript => (CameOutTrue(i) <=>
       EcdsaValid(SignatureAt(i), FromTop(Before(i), 1),
                  SignedCode(i, <<SignatureAt(i)>>), input.sigVersion))
  /\ Flag("NULLFAIL") /\ ~Tapscript => CameOutTrue(i) \/ SignatureAt(i) = << >>
  /\ \A d \in steps[i].sigCheck : d.valid = CameOutTrue(i)

\* Nothing an old step tells changes.
LEMMA OldTells ==
  ASSUME TraceInv, [Next]_vars, NEW i \in OpSteps
  PROVE  /\ CameOutTrue(i)' = CameOutTrue(i)
         /\ \A sigs : SignedCode(i, sigs)' = SignedCode(i, sigs)
         /\ Multi(i)' = Multi(i)
         /\ SingleTells(i)' = SingleTells(i)
<1>1. /\ Before(i)' = Before(i) /\ steps'[i] = steps[i] /\ input' = input /\ Ops' = Ops
      /\ LastSeparator(i - 1)' = LastSeparator(i - 1)
      /\ SignatureAt(i)' = SignatureAt(i)
  BY OldStep, PastKept
<1>2. CameOutTrue(i)' = CameOutTrue(i)
  BY <1>1 DEF CameOutTrue
<1>3. ASSUME NEW sigs PROVE SignedCode(i, sigs)' = SignedCode(i, sigs)
  BY <1>1 DEF SignedCode
<1>4. Multi(i)' = Multi(i)
  BY <1>1 DEF Multi
<1>5. PICK sigs : sigs = <<SignatureAt(i)>> /\ sigs = <<SignatureAt(i)>>'
  BY <1>1
<1>6. SingleTells(i)' = SingleTells(i)
  BY <1>1, <1>2, <1>3, <1>5 DEF SingleTells, Tapscript, Flag
<1>. QED BY <1>2, <1>3, <1>4, <1>6

LEMMA NewSingle ==
  ASSUME SigningInv, Recorded, [Next]_vars, NEW i, i = pc + 1, (i \in SignatureSteps)'
  PROVE  SingleTells(i)'
<1>0. TraceInv /\ HistoryInv /\ LoopInTurn /\ SeparatorInv /\ TypeInv
  BY DEF SigningInv, Between, MachineInv
<1>1. /\ Passed(i)' <=> Succeeded /\ Executing
      /\ Before(i)' = stack /\ Ops'[i].opcode = Op /\ steps'[i].stack = stack'
      /\ status = "running"
      /\ \A s, a, x, n, sig, err :
           Finish(s, a, x, n, sig, err) => steps'[i].sigCheck = sig
  BY <1>0, NewStep
<1>2. Succeeded /\ Executing /\ Op \in OneSigOps
  BY <1>1 DEF SignatureSteps, OneSigOps
<1>3. /\ SignatureAt(i)' = SigTaken /\ FromTop(Before(i), 1)' = Top(1)
      /\ FromTop(Before(i), 2)' = Top(2)
  BY <1>1 DEF SignatureAt, SigTaken, FromTop, Top
<1>4. /\ Op = OP_CHECKSIG => (CameOutTrue(i)' <=> FromTop(stack', 1) = <<1>>)
      /\ Op = OP_CHECKSIGADD =>
           (CameOutTrue(i)' <=> FromTop(stack', 1) = encode_num(decode_num(Top(2)) + 1))
      /\ Op = OP_CHECKSIGVERIFY => CameOutTrue(i)'
  BY <1>1, <1>3 DEF CameOutTrue, FromTop, OP_CHECKSIG, OP_CHECKMULTISIG, OP_CHECKSIGADD,
                    OP_CHECKSIGVERIFY
<1>5. Tapscript' = Tapscript /\ Flag("NULLFAIL")' = Flag("NULLFAIL") /\ input' = input
  BY <1>0, PastKept DEF Tapscript, Flag
<1>7. CASE Tapscript
  <2>1. /\ SchnorrError(SigTaken, Top(1)) = "OK"
        /\ Has(IF Op = OP_CHECKSIGADD THEN 3 ELSE 2)
        /\ steps'[i].sigCheck = SchnorrDetail(SigTaken, Top(1))
        /\ Op = OP_CHECKSIG => stack' = Append(Drop(2), Bool(SigTaken # << >>))
        /\ Op = OP_CHECKSIGADD =>
             stack' = Append(Drop(3), encode_num(decode_num(Top(2)) + Int01(SigTaken # << >>)))
    BY <1>0, <1>1, <1>2, <1>7, TapscriptChecked
  <2>2. SUFFICES ASSUME NEW d \in steps'[i].sigCheck PROVE d.valid = CameOutTrue(i)'
    BY <1>5, <1>7 DEF SingleTells
  <2>3. d.valid = TRUE /\ SigTaken # << >>
    BY <2>1, <2>2, SchnorrAccepted DEF SchnorrDetail, SchnorrChecked, Detail
  <2>4. CASE Op = OP_CHECKSIG
    <3>1. Drop(2) \in Seq(Item)
      <4>1. Has(2)
        BY <2>1, <2>4 DEF OP_CHECKSIG, OP_CHECKSIGADD
      <4>. QED BY <1>0, <4>1, TakenType
    <3>2. FromTop(stack', 1) = Bool(TRUE)
      BY <2>1, <2>3, <2>4, <3>1, TopOfAppend
    <3>. QED BY <1>4, <2>3, <2>4, <3>2, BoolSays
  <2>5. CASE Op = OP_CHECKSIGADD
    <3>1. Drop(3) \in Seq(Item)
      BY <1>0, <2>1, <2>5, TakenType
    <3>2. FromTop(stack', 1) = encode_num(decode_num(Top(2)) + 1)
      BY <2>1, <2>3, <2>5, <3>1, TopOfAppend DEF Int01
    <3>. QED BY <1>4, <2>3, <2>5, <3>2
  <2>6. CASE Op = OP_CHECKSIGVERIFY
    BY <1>4, <2>3, <2>6
  <2>. QED BY <1>2, <2>4, <2>5, <2>6 DEF OneSigOps, CHECKSIG_OPCODES
<1>8. CASE ~Tapscript
  <2>1. Verifies \in BOOLEAN
    BY DEF Verifies, EcdsaValid
  <2>2. /\ Op \in CHECKSIG_OPCODES /\ Op # OP_CHECKSIGADD /\ Has(2)
        /\ ~NullFails(Verifies, Top(2))
        /\ steps'[i].sigCheck = EcdsaDetail
        /\ Op = OP_CHECKSIG => stack' = Append(Drop(2), Bool(Verifies))
        /\ Op = OP_CHECKSIGVERIFY => Verifies
    BY <1>0, <1>1, <1>2, <1>8, EcdsaChecked
  <2>3. SignatureAt(i)' = Top(2)
    BY <1>3, <2>2 DEF SigTaken
  <2>4. PICK sigs : sigs = <<Top(2)>>
    OBVIOUS
  <2>5. SignedCode(i, sigs)' = ScriptCode({Top(2)})
    <3>1. {sigs[k] : k \in DOMAIN sigs} = {Top(2)}
      BY <2>4
    <3>. QED BY <1>0, <1>1, <3>1, CodeSigned
  <2>7. CameOutTrue(i)' <=> Verifies
    <3>1. CASE Op = OP_CHECKSIG
      <4>1. Drop(2) \in Seq(Item)
        BY <1>0, <2>2, TakenType
      <4>2. FromTop(stack', 1) = Bool(Verifies)
        BY <2>2, <3>1, <4>1, TopOfAppend
      <4>. QED BY <1>4, <3>1, <4>2, BoolSays
    <3>2. CASE Op = OP_CHECKSIGVERIFY
      BY <1>4, <2>2, <3>2
    <3>. QED BY <2>2, <3>1, <3>2 DEF CHECKSIG_OPCODES
  <2>8. CameOutTrue(i)' \in BOOLEAN
    BY DEF CameOutTrue
  <2>9. \A d \in steps'[i].sigCheck : d.valid = CameOutTrue(i)'
    BY <2>1, <2>2, <2>7, <2>8 DEF EcdsaDetail, Detail
  <2>10. Flag("NULLFAIL") => Verifies \/ Top(2) = << >>
    BY <2>2 DEF NullFails
  <2>. QED BY <1>3, <1>5, <2>1, <2>3, <2>4, <2>5, <2>7, <2>9, <2>10 DEF SingleTells, Verifies
<1>. QED BY <1>7, <1>8

\* A signature operation of a legacy or witness script comes out true exactly
\* when its signature verifies over the code that follows the last separator
\* executed before it, without the signature itself in a legacy script.
THEOREM ChecksigDecidesSignature ==
  ASSUME DigestsAreItems
  PROVE  Spec => []ChecksigIsSigned
<1> DEFINE Inv == \A i \in SignatureSteps : SingleTells(i)
<1>1. Init => Inv
  BY DEF Init, Begin, SignatureSteps, OpSteps
<1>2. ASSUME SigningInv, Inv, [Next]_vars PROVE Inv'
  <2>1. TraceInv
    BY <1>2 DEF SigningInv, Between
  <2>2. ASSUME NEW i \in SignatureSteps' PROVE SingleTells(i)'
    <3>1. i \in OpSteps'
      BY DEF SignatureSteps
    <3>2. CASE i \in OpSteps
      BY <1>2, <2>1, <3>2, OldStep, OldTells
    <3>3. CASE Recorded /\ i = pc + 1
      BY <1>2, <2>2, <3>3, NewSingle
    <3>. QED BY <1>2, <2>1, <3>1, <3>2, <3>3, OldOrNew
  <2>. QED BY <2>2
<1>3. Inv => ChecksigIsSigned
  BY DEF SingleTells, ChecksigIsSigned
<1>4. SigningInv /\ [Next]_vars => SigningInv'
  BY StepSigning
<1>. QED BY <1>1, <1>2, <1>3, <1>4, InitSigning, PTL DEF Spec

------------------------------------------------------------------------------
(* Multi-signature checks.                                                 *)

\* What the opcode takes from the stack for the loop.
JobTaken ==
  LET sigs == [k \in 1..SigsCount |-> Top(KeysCount + 2 + k)]
  IN  [sigs |-> sigs,
       keys |-> [k \in 1..KeysCount |-> Top(k + 1)],
       script_code |-> ScriptCode({sigs[k] : k \in DOMAIN sigs}),
       sig_version |-> input.sigVersion,
       flags |-> input.flags]

\* The detail to be shown is that of the latest comparison, and tells how the
\* loop ended once it has: it found a place for the last signature, or none.
DetailInv ==
  \A d \in lastDetail : d.valid \in BOOLEAN /\ (NSigs = 0 => d.valid) /\ (~success => ~d.valid)

\* While the loop runs its job is what the stack holds, and its pairing is the
\* greedy one.
MultiInv ==
  loopPhase # "idle" =>
    /\ MultisigRefusal = "OK" /\ job = JobTaken
    /\ PairingInv /\ DetailInv
    /\ loopPhase = "left" => (success <=> HasMatching(job)) /\ (success => NSigs = 0)

LEMMA LoopMoves ==
  ASSUME LoopInTurn, [Next]_vars, loopPhase' # "idle"
  PROVE  BeginMultisig \/ MultisigLoop \/ UNCHANGED vars
<1>1. ~Recorded
  BY DEF Recorded
<1>2. ~(RejectScriptSize \/ RejectTruncated \/ BeginLoop \/ EndUnbalanced \/ EndReturn)
  BY DEF RejectScriptSize, RejectTruncated, BeginLoop, EndUnbalanced, EndReturn, AtEnd, Terminal,
         multisigVars, LoopInTurn, InTurn
<1>3. ~EscapeSchnorr
  BY DEF EscapeSchnorr, Executes, Processes, AtOp, Charge, multisigVars
<1>4. ~(RaiseInMultisig \/ NullFailMultisig \/ EndMultisig)
  BY DEF RaiseInMultisig, NullFailMultisig, EndMultisig, LeaveMultisig
<1>. QED BY <1>1, <1>2, <1>3, <1>4, RefusalRecords, ConditionalRecords, PlainOpRecords,
            SignatureRecords DEF Next

LEMMA TakenCounts ==
  ASSUME MultisigRefusal = "OK"
  PROVE  /\ KeysCount \in Nat /\ SigsCount \in 0..KeysCount /\ SigsCount \in Nat
         /\ Has(KeysCount + SigsCount + 3)
         /\ ~Tapscript
         /\ JobTaken.sigs = [k \in 1..SigsCount |-> Top(KeysCount + 2 + k)]
         /\ JobTaken.keys = [k \in 1..KeysCount |-> Top(k + 1)]
         /\ JobTaken.sig_version = input.sigVersion
         /\ JobTaken.script_code
              = ScriptCode({JobTaken.sigs[k] : k \in DOMAIN JobTaken.sigs})
<1>1. /\ KeysCounted /\ SigsCount \in 0..KeysCount /\ Has(KeysCount + SigsCount + 3) /\ ~Tapscript
  BY DEF MultisigRefusal
<1>2. KeysCount \in Nat
  BY <1>1, LimitsAssumption DEF KeysCounted
<1>. QED BY <1>1, <1>2 DEF JobTaken

\* The job depends on the stack and on the place in the script.
LEMMA SameJob ==
  ASSUME UNCHANGED <<stack, input, opCount, codesep, pc>>
  PROVE  MultisigRefusal' = MultisigRefusal /\ JobTaken' = JobTaken
<1>1. /\ KeysCount' = KeysCount /\ SigsCount' = SigsCount
      /\ \A n : Top(n)' = Top(n)
      /\ \A sigs : ScriptCode(sigs)' = ScriptCode(sigs)
  BY DEF KeysCount, SigsCount, Top, ScriptCode
<1>2. MultisigRefusal' = MultisigRefusal
  BY DEF MultisigRefusal, KeysCounted, KeysCount, SigsCount, Top, Has, IsNum, Tapscript,
         Flag, CountWithKeys, Count, Op
<1>3. PICK n, m : n = KeysCount /\ n = KeysCount' /\ m = SigsCount /\ m = SigsCount'
  BY <1>1
<1>4. /\ [k \in 1..m |-> Top(n + 2 + k)]' = [k \in 1..m |-> Top(n + 2 + k)]
      /\ [k \in 1..n |-> Top(k + 1)]' = [k \in 1..n |-> Top(k + 1)]
  BY <1>1
<1>5. PICK code : code = ScriptCode({[k \in 1..m |-> Top(n + 2 + k)][x] : x \in 1..m})
  OBVIOUS
<1>6. code = ScriptCode({[k \in 1..m |-> Top(n + 2 + k)][x] : x \in 1..m})'
  BY <1>1, <1>4, <1>5
<1>. QED BY <1>2, <1>3, <1>4, <1>5, <1>6 DEF JobTaken

LEMMA BeginMulti ==
  ASSUME TypeInv', BeginMultisig
  PROVE  MultiInv'
<1>1. job' = JobTaken /\ lastDetail' = {} /\ loopPhase' = "pairing"
  BY DEF BeginMultisig, EnterLoop, JobTaken
<1>2. UNCHANGED <<stack, input, opCount, codesep, pc>> /\ MultisigRefusal = "OK"
  BY DEF BeginMultisig, evalVars, runVars, codeVars
<1>3. MultisigRefusal' = "OK" /\ JobTaken' = JobTaken
  BY <1>2, SameJob
<1>4. Entered'
  <2>1. job'.sigs \in Seq(Item) /\ job'.keys \in Seq(Item)
    BY <1>1 DEF TypeInv, MultisigArguments
  <2>2. /\ job'.sigs = [k \in 1..SigsCount |-> Top(KeysCount + 2 + k)]
        /\ job'.keys = [k \in 1..KeysCount |-> Top(k + 1)]
        /\ KeysCount \in Nat /\ SigsCount \in 0..KeysCount /\ SigsCount \in Nat
    BY <1>1, <1>2, TakenCounts
  <2>3. Len(job'.sigs) = SigsCount /\ Len(job'.keys) = KeysCount
    BY <2>2
  <2>4. curSig' = 0 /\ curKey' = 0 /\ success' = TRUE
    BY DEF BeginMultisig, EnterLoop
  <2>. QED BY <2>1, <2>2, <2>3, <2>4 DEF Entered
<1>5. PairingInv'
  BY <1>4, EntersPairing
<1>6. DetailInv'
  BY <1>1 DEF DetailInv
<1>. QED BY <1>1, <1>3, <1>5, <1>6 DEF MultiInv

LEMMA CompareDetail ==
  ASSUME PairingInv, Compare
  PROVE  DetailInv'
<1> DEFINE ok == EcdsaValid(Sig, PubKey, job.script_code, job.sig_version)
           S == Len(job.sigs)
           K == Len(job.keys)
<1>1. /\ S \in Nat /\ K \in Nat /\ curSig \in Nat /\ curKey \in Nat
      /\ S - curSig > 0 /\ S - curSig <= K - curKey
  BY DEF PairingInv, PairingTypes, InBounds, Compare, InLoop, NSigs, NKeys
<1>2. /\ job' = job /\ ok \in BOOLEAN
      /\ lastDetail' = Detail(Sig, PubKey, job.script_code, ok)
      /\ curSig' = IF ok THEN curSig + 1 ELSE curSig
      /\ success' = ~(S - curSig' > K - curKey - 1)
  BY DEF Compare, NextSig, TooFewKeys, EcdsaValid, NKeys
<1>3. NSigs' = S - curSig'
  BY <1>2 DEF NSigs
<1>4. (NSigs' = 0 => ok) /\ (~success' => ~ok)
  <2>. HIDE DEF ok, S, K
  <2>1. CASE ok
    <3>1. success' = ~(S - (curSig + 1) > K - curKey - 1)
      BY <1>2, <2>1
    <3>2. ~(S - (curSig + 1) > K - curKey - 1)
      BY <1>1
    <3>. QED BY <2>1, <3>1, <3>2
  <2>2. CASE ~ok
    BY <1>1, <1>2, <1>3, <2>2
  <2>. QED BY <2>1, <2>2
<1>5. \A d \in lastDetail' : d.valid = ok
  BY <1>2 DEF Detail
<1>. HIDE DEF ok
<1>. QED BY <1>2, <1>4, <1>5 DEF DetailInv

LEMMA LoopMulti ==
  ASSUME MultiInv, loopPhase # "idle", MultisigLoop \/ UNCHANGED vars
  PROVE  MultiInv'
<1>1. /\ MultisigRefusal = "OK" /\ job = JobTaken /\ PairingInv /\ DetailInv
      /\ loopPhase = "left" => (success <=> HasMatching(job)) /\ (success => NSigs = 0)
  BY DEF MultiInv
<1>2. job' = job /\ UNCHANGED <<stack, input, opCount, codesep, pc>>
  BY DEF MultisigLoop, LoopStep, Compare, RefusePair, LeaveLoop, vars, evalVars, runVars,
         codeVars, multisigVars
<1>3. MultisigRefusal' = "OK" /\ JobTaken' = JobTaken
  BY <1>1, <1>2, SameJob
<1>4. CASE MultisigLoop /\ Compare
  <2>1. loopPhase' = "pairing"
    BY <1>4 DEF Compare, InLoop
  <2>. QED BY <1>1, <1>2, <1>3, <1>4, <2>1, ComparePairing, CompareDetail DEF MultiInv
<1>5. CASE ~Compare
  <2>1. /\ UNCHANGED <<curSig, curKey, success, lastDetail>>
        /\ loopPhase' = "left" => LeaveLoop \/ loopPhase = "left"
    BY <1>5 DEF MultisigLoop, LoopStep, RefusePair, LeaveLoop, vars, multisigVars
  <2>2. PairingInv' /\ DetailInv'
    BY <1>1, <1>2, <2>1, SamePairing DEF DetailInv, NSigs
  <2>3. LeaveLoop => (success <=> HasMatching(job)) /\ (success => NSigs = 0)
    <3>1. NSigs \in Nat
      BY <1>1 DEF PairingInv, PairingTypes, InBounds, NSigs
    <3>2. LeaveLoop /\ success => NSigs = 0
      BY <3>1 DEF LeaveLoop
    <3>. QED BY <1>1, <3>2, PairedHasMatching, GivenUpHasNone
  <2>4. HasMatching(job)' = HasMatching(job) /\ NSigs' = NSigs
    BY <1>2, <2>1 DEF NSigs, HasMatching, IsMatching, Accepts
  <2>. QED BY <1>1, <1>2, <1>3, <2>1, <2>2, <2>3, <2>4 DEF MultiInv
<1>6. CASE UNCHANGED vars /\ Compare
  <2>1. curKey' = curKey /\ curKey' = curKey + 1 /\ curKey \in Nat
    BY <1>1, <1>6 DEF vars, multisigVars, Compare, PairingInv, PairingTypes
  <2>. QED BY <2>1
<1>. QED BY <1>4, <1>5, <1>6

LEMMA StepMulti ==
  ASSUME LoopInTurn, TypeInv', MultiInv, [Next]_vars
  PROVE  MultiInv'
<1>1. CASE loopPhase' = "idle"
  BY <1>1 DEF MultiInv
<1>2. CASE loopPhase' # "idle"
  <2>1. MultisigLoop \/ UNCHANGED vars => loopPhase # "idle"
    BY <1>2 DEF MultisigLoop, LoopStep, Compare, RefusePair, LeaveLoop, InLoop, vars, multisigVars
  <2>. QED BY <1>2, <2>1, LoopMoves, BeginMulti, LoopMulti
<1>. QED BY <1>1, <1>2

\* Some of these keys, in order, accept these signatures, in order.
Assignable(sigs, keys, code, version) ==
  \E f \in [DOMAIN sigs -> DOMAIN keys] :
    /\ \A x, y \in DOMAIN sigs : x < y => f[x] < f[y]
    /\ \A x \in DOMAIN sigs : EcdsaValid(sigs[x], keys[f[x]], code, version)

\* The loop reads both sequences from the other end: that makes no difference.
LEMMA ReversedAssignable ==
  ASSUME NEW m \in Nat, NEW n \in Nat, NEW sigs, NEW keys, NEW sigs2, NEW keys2,
         DOMAIN sigs = 1..m, DOMAIN sigs2 = 1..m, DOMAIN keys = 1..n, DOMAIN keys2 = 1..n,
         \A x \in 1..m : sigs2[x] = sigs[m + 1 - x],
         \A y \in 1..n : keys2[y] = keys[n + 1 - y],
         NEW code, NEW version, Assignable(sigs, keys, code, version)
  PROVE  Assignable(sigs2, keys2, code, version)
<1>1. PICK f \in [1..m -> 1..n] :
        /\ \A x, y \in 1..m : x < y => f[x] < f[y]
        /\ \A x \in 1..m : EcdsaValid(sigs[x], keys[f[x]], code, version)
  BY DEF Assignable
<1> DEFINE g == [x \in 1..m |-> n + 1 - f[m + 1 - x]]
<1>2. \A x \in 1..m : m + 1 - x \in 1..m /\ f[m + 1 - x] \in 1..n
  BY <1>1
<1>3. g \in [1..m -> 1..n]
  BY <1>2
<1>4. \A x, y \in 1..m : x < y => g[x] < g[y]
  <2> SUFFICES ASSUME NEW x \in 1..m, NEW y \in 1..m, x < y PROVE g[x] < g[y]
    OBVIOUS
  <2>1. m + 1 - y < m + 1 - x
    OBVIOUS
  <2>2. f[m + 1 - y] < f[m + 1 - x]
    BY <1>1, <1>2, <2>1
  <2>. QED BY <1>2, <2>2
<1>5. \A x \in 1..m : EcdsaValid(sigs2[x], keys2[g[x]], code, version)
  <2> SUFFICES ASSUME NEW x \in 1..m PROVE EcdsaValid(sigs2[x], keys2[g[x]], code, version)
    OBVIOUS
  <2>1. n + 1 - g[x] = f[m + 1 - x] /\ g[x] \in 1..n
    BY <1>2, <1>3
  <2>2. keys2[g[x]] = keys[f[m + 1 - x]]
    BY <2>1
  <2>. QED BY <1>1, <1>2, <2>2
<1>. HIDE DEF g
<1>. QED BY <1>3, <1>4, <1>5 DEF Assignable

\* The job has a matching exactly when its keys accept its signatures.
LEMMA MatchingAssignable ==
  ASSUME job.sigs \in Seq(Item), job.keys \in Seq(Item)
  PROVE  HasMatching(job) <=> Assignable(job.sigs, job.keys, job.script_code, job.sig_version)
<1>1. DOMAIN job.sigs = 1..Len(job.sigs) /\ DOMAIN job.keys = 1..Len(job.keys)
  BY LenProperties
<1>. QED BY <1>1 DEF HasMatching, IsMatching, Accepts, Assignable

\* The arguments on the stack, read upwards.
Written ==
  LET n == KeysCount
      m == SigsCount
      top == Len(stack)
  IN  [keys |-> SubSeq(stack, top - n, top - 1),
       sigs |-> SubSeq(stack, top - n - 1 - m, top - n - 2)]

LEMMA WrittenReversed ==
  ASSUME TypeInv, MultisigRefusal = "OK", job = JobTaken
  PROVE  /\ KeysCount \in Nat /\ SigsCount \in Nat /\ job.keys \in Seq(Item) /\ job.sigs \in Seq(Item)
         /\ DOMAIN job.keys = 1..KeysCount /\ DOMAIN job.sigs = 1..SigsCount
         /\ DOMAIN Written.keys = 1..KeysCount /\ DOMAIN Written.sigs = 1..SigsCount
         /\ \A y \in 1..KeysCount : Written.keys[y] = job.keys[KeysCount + 1 - y]
         /\ \A x \in 1..SigsCount : Written.sigs[x] = job.sigs[SigsCount + 1 - x]
<1>1. /\ KeysCount \in Nat /\ SigsCount \in Nat /\ Has(KeysCount + SigsCount + 3)
      /\ job.sigs = [k \in 1..SigsCount |-> Top(KeysCount + 2 + k)]
      /\ job.keys = [k \in 1..KeysCount |-> Top(k + 1)]
  BY TakenCounts
<1>2. stack \in Seq(Item) /\ Len(stack) \in Nat
  BY LenProperties DEF TypeInv, TypeOK
<1>3. PICK n \in Nat, m \in Nat, top \in Nat :
        n = KeysCount /\ m = SigsCount /\ top = Len(stack) /\ n + m + 3 <= top
  BY <1>1, <1>2 DEF Has
<1>4. /\ Written.keys = SubSeq(stack, top - n, top - 1)
      /\ Written.sigs = SubSeq(stack, top - n - 1 - m, top - n - 2)
  BY <1>3 DEF Written
<1>5. /\ DOMAIN Written.keys = 1..n
      /\ \A y \in 1..n : Written.keys[y] = stack[top - n + y - 1]
  BY <1>2, <1>3, <1>4
<1>6. /\ DOMAIN Written.sigs = 1..m
      /\ \A x \in 1..m : Written.sigs[x] = stack[top - n - 1 - m + x - 1]
  BY <1>2, <1>3, <1>4
<1>7. /\ \A k \in 1..n : job.keys[k] = stack[top - k] /\ job.keys[k] \in Item
      /\ \A k \in 1..m : job.sigs[k] = stack[top - n - 1 - k] /\ job.sigs[k] \in Item
  <2>1. ASSUME NEW k \in 1..n PROVE job.keys[k] = stack[top - k] /\ job.keys[k] \in Item
    <3>1. job.keys[k] = stack[top + 1 - (k + 1)]
      BY <1>1, <1>3 DEF Top
    <3>2. top + 1 - (k + 1) = top - k /\ top - k \in 1..top
      BY <1>3
    <3>. QED BY <1>2, <1>3, <3>1, <3>2
  <2>2. ASSUME NEW k \in 1..m PROVE job.sigs[k] = stack[top - n - 1 - k] /\ job.sigs[k] \in Item
    <3>1. job.sigs[k] = stack[top + 1 - (n + 2 + k)]
      BY <1>1, <1>3 DEF Top
    <3>2. top + 1 - (n + 2 + k) = top - n - 1 - k /\ top - n - 1 - k \in 1..top
      BY <1>3
    <3>. QED BY <1>2, <1>3, <3>1, <3>2
  <2>. QED BY <2>1, <2>2
<1>8. job.keys \in Seq(Item) /\ job.sigs \in Seq(Item)
  BY <1>1, <1>3, <1>7
<1>9. \A y \in 1..n : Written.keys[y] = job.keys[n + 1 - y]
  <2> SUFFICES ASSUME NEW y \in 1..n PROVE Written.keys[y] = job.keys[n + 1 - y]
    OBVIOUS
  <2>1. n + 1 - y \in 1..n /\ top - (n + 1 - y) = top - n + y - 1
    BY <1>3
  <2>. QED BY <1>5, <1>7, <2>1
<1>10. \A x \in 1..m : Written.sigs[x] = job.sigs[m + 1 - x]
  <2> SUFFICES ASSUME NEW x \in 1..m PROVE Written.sigs[x] = job.sigs[m + 1 - x]
    OBVIOUS
  <2>1. m + 1 - x \in 1..m /\ top - n - 1 - (m + 1 - x) = top - n - 1 - m + x - 1
    BY <1>3
  <2>. QED BY <1>6, <1>7, <2>1
<1>. QED BY <1>1, <1>3, <1>5, <1>6, <1>8, <1>9, <1>10

\* A failed check whose signatures are not all empty finds the first that is not.
LEMMA FirstFound ==
  ASSUME job.sigs \in Seq(Item), NEW k \in DOMAIN job.sigs, job.sigs[k] # << >>
  PROVE  \E i \in DOMAIN job.sigs : FirstNonEmpty(i)
<1> DEFINE T == {i \in DOMAIN job.sigs : job.sigs[i] # << >>}
<1>1. T \in SUBSET Nat /\ T # {} /\ DOMAIN job.sigs = 1..Len(job.sigs) /\ Len(job.sigs) \in Nat
  BY LenProperties
<1>2. PICK i \in T : \A j \in T : i <= j
  <2>. HIDE DEF T
  <2>. QED BY <1>1, LeastOf
<1>3. \A j \in 1..(i - 1) : job.sigs[j] = << >>
  BY <1>1, <1>2
<1>. QED BY <1>2, <1>3 DEF FirstNonEmpty

\* A multi-signature check that the script goes on after.
LEMMA MultisigEnds ==
  ASSUME LoopInTurn, MultiInv, TypeInv, Succeeded, Executing, Op \in CHECKMULTISIG_OPCODES
  PROVE  /\ MultisigRefusal = "OK" /\ job = JobTaken
         /\ success \in BOOLEAN /\ (success <=> HasMatching(job))
         /\ \A d \in lastDetail : d.valid = success
         /\ \E s : Finish(s, altstack, execStack, CountWithKeys(Len(job.keys)), lastDetail, "OK")
         /\ Op = OP_CHECKMULTISIG =>
              stack' = Append(Drop(Len(job.keys) + Len(job.sigs) + 3), Bool(success))
         /\ Op = OP_CHECKMULTISIGVERIFY => success
         /\ Flag("NULLFAIL") => success \/ \A k \in DOMAIN job.sigs : job.sigs[k] = << >>
<1> DEFINE n == Len(job.keys) + Len(job.sigs) + 2
           count == CountWithKeys(Len(job.keys))
<1>1. EndMultisig
  BY SucceededSpecial
<1>2. loopPhase = "left"
  BY <1>1 DEF EndMultisig
<1>3. /\ MultisigRefusal = "OK" /\ job = JobTaken /\ PairingInv /\ DetailInv
      /\ (success <=> HasMatching(job)) /\ (success => NSigs = 0)
  BY <1>2 DEF MultiInv
<1>4. success \in BOOLEAN /\ Len(job.keys) \in Nat /\ Len(job.sigs) \in Nat
      /\ job.sigs \in Seq(Item)
  BY <1>3 DEF PairingInv, PairingTypes
<1>5. \A d \in lastDetail : d.valid = success
  BY <1>3, <1>4 DEF DetailInv
<1>6. Conclude(Drop(n + 1), count, lastDetail, success, Op = OP_CHECKMULTISIGVERIFY,
               "CHECKMULTISIGVERIFY")
  BY <1>1 DEF EndMultisig, LeaveMultisig, Finish, Succeeded
<1>7. n + 1 = Len(job.keys) + Len(job.sigs) + 3
  BY <1>4
<1>8. Flag("NULLFAIL") => success \/ \A k \in DOMAIN job.sigs : job.sigs[k] = << >>
  BY <1>1, <1>4, FirstFound DEF EndMultisig
<1>9. OP_CHECKMULTISIG # OP_CHECKMULTISIGVERIFY
  BY DEF OP_CHECKMULTISIG, OP_CHECKMULTISIGVERIFY
<1>10. CASE Op = OP_CHECKMULTISIGVERIFY
  <2>1. success /\ Finish(Drop(n + 1), altstack, execStack, count, lastDetail, "OK")
    BY <1>6, <1>10 DEF Conclude, Finish, Succeeded
  <2>. QED BY <1>3, <1>4, <1>5, <1>8, <1>9, <1>10, <2>1
<1>11. CASE Op # OP_CHECKMULTISIGVERIFY
  <2>1. Finish(Append(Drop(n + 1), Bool(success)), altstack, execStack, count, lastDetail, "OK")
    BY <1>6, <1>11 DEF Conclude
  <2>2. stack' = Append(Drop(n + 1), Bool(success))
    BY <2>1 DEF Finish
  <2>. HIDE DEF n
  <2>. QED BY <1>3, <1>4, <1>5, <1>7, <1>8, <1>11, <2>1, <2>2
<1>. QED BY <1>10, <1>11

\* The three things the trace tells of a multi-signature check.
MultiTells(i) ==
  /\ CameOutTrue(i) <=> Assignable(Multi(i).sigs, Multi(i).keys, SignedCode(i, Multi(i).sigs),
                                   input.sigVersion)
  /\ Flag("NULLFAIL") =>
       CameOutTrue(i) \/ \A k \in DOMAIN Multi(i).sigs : Multi(i).sigs[k] = << >>
  /\ \A d \in steps[i].sigCheck : d.valid = CameOutTrue(i)

LEMMA OldMultiTells ==
  ASSUME TraceInv, [Next]_vars, NEW i \in OpSteps
  PROVE  MultiTells(i)' = MultiTells(i)
<1>1. /\ steps'[i] = steps[i] /\ input' = input /\ CameOutTrue(i)' = CameOutTrue(i)
      /\ Multi(i)' = Multi(i)
  BY OldStep, OldTells
<1>2. PICK sigs : sigs = Multi(i).sigs /\ sigs = Multi(i).sigs'
  BY <1>1
<1>3. SignedCode(i, sigs)' = SignedCode(i, sigs)
  BY OldTells
<1>. QED BY <1>1, <1>2, <1>3 DEF MultiTells, Flag

LEMMA NewMulti ==
  ASSUME SigningInv, MultiInv, Recorded, [Next]_vars, NEW i, i = pc + 1, (i \in MultisigSteps)'
  PROVE  MultiTells(i)'
<1>0. TraceInv /\ HistoryInv /\ LoopInTurn /\ SeparatorInv /\ TypeInv
  BY DEF SigningInv, Between, MachineInv
<1>1. /\ Passed(i)' <=> Succeeded /\ Executing
      /\ Before(i)' = stack /\ Ops'[i].opcode = Op /\ steps'[i].stack = stack'
      /\ status = "running"
      /\ \A s, a, x, n, sig, err :
           Finish(s, a, x, n, sig, err) => steps'[i].sigCheck = sig
  BY <1>0, NewStep
<1>2. Succeeded /\ Executing /\ Op \in CHECKMULTISIG_OPCODES
  BY <1>1 DEF MultisigSteps
<1>3. /\ MultisigRefusal = "OK" /\ job = JobTaken
      /\ success \in BOOLEAN /\ (success <=> HasMatching(job))
      /\ \A d \in lastDetail : d.valid = success
      /\ steps'[i].sigCheck = lastDetail
      /\ Op = OP_CHECKMULTISIG =>
           stack' = Append(Drop(Len(job.keys) + Len(job.sigs) + 3), Bool(success))
      /\ Op = OP_CHECKMULTISIGVERIFY => success
      /\ Flag("NULLFAIL") => success \/ \A k \in DOMAIN job.sigs : job.sigs[k] = << >>
  <2>1. PICK s : Finish(s, altstack, execStack, CountWithKeys(Len(job.keys)), lastDetail, "OK")
    BY <1>0, <1>2, MultisigEnds
  <2>2. steps'[i].sigCheck = lastDetail
    BY <1>1, <2>1
  <2>3. MultisigRefusal = "OK" /\ job = JobTaken
    BY <1>0, <1>2, MultisigEnds
  <2>4. /\ success \in BOOLEAN /\ (success <=> HasMatching(job))
        /\ \A d \in lastDetail : d.valid = success
    BY <1>0, <1>2, MultisigEnds
  <2>5. /\ Op = OP_CHECKMULTISIG =>
             stack' = Append(Drop(Len(job.keys) + Len(job.sigs) + 3), Bool(success))
        /\ Op = OP_CHECKMULTISIGVERIFY => success
    BY <1>0, <1>2, MultisigEnds
  <2>6. Flag("NULLFAIL") => success \/ \A k \in DOMAIN job.sigs : job.sigs[k] = << >>
    BY <1>0, <1>2, MultisigEnds
  <2>. QED BY <2>2, <2>3, <2>4, <2>5, <2>6
<1>4. /\ KeysCount \in Nat /\ SigsCount \in Nat
      /\ job.keys \in Seq(Item) /\ job.sigs \in Seq(Item)
      /\ DOMAIN job.keys = 1..KeysCount /\ DOMAIN job.sigs = 1..SigsCount
      /\ DOMAIN Written.keys = 1..KeysCount /\ DOMAIN Written.sigs = 1..SigsCount
      /\ \A y \in 1..KeysCount : Written.keys[y] = job.keys[KeysCount + 1 - y]
      /\ \A x \in 1..SigsCount : Written.sigs[x] = job.sigs[SigsCount + 1 - x]
  BY <1>0, <1>3, WrittenReversed
<1>5. Multi(i)' = Written
  BY <1>1 DEF Multi, Written, FromTop, KeysCount, SigsCount, Top
<1>6. input' = input /\ Flag("NULLFAIL")' = Flag("NULLFAIL")
  BY <1>0, PastKept DEF Flag
<1>7. CameOutTrue(i)' <=> success
  <2>1. CASE Op = OP_CHECKMULTISIG
    <3>1. Drop(Len(job.keys) + Len(job.sigs) + 3) \in Seq(Item)
      <4>1. loopPhase # "idle"
        <5>1. EndMultisig
          BY <1>0, <1>2, SucceededSpecial
        <5>. QED BY <5>1 DEF EndMultisig
      <4>2. Len(job.keys) \in Nat /\ Len(job.sigs) \in Nat
        BY <1>4, LenProperties
      <4>3. Len(job.keys) + Len(job.sigs) + 3 \in 0..(Len(job.keys) + Len(job.sigs) + 3)
        <5>1. \A a, b \in Nat : a + b + 3 \in 0..(a + b + 3)
          OBVIOUS
        <5>. QED BY <4>2, <5>1
      <4>. QED BY <1>0, <4>1, <4>3, ArgumentsType
    <3>2. FromTop(stack', 1) = Bool(success)
      BY <1>3, <2>1, <3>1, TopOfAppend
    <3>3. CameOutTrue(i)' <=> FromTop(stack', 1) = <<1>>
      BY <1>1, <2>1 DEF CameOutTrue, FromTop, OP_CHECKSIG, OP_CHECKMULTISIG, OP_CHECKSIGADD
    <3>. QED BY <3>2, <3>3, BoolSays
  <2>2. CASE Op = OP_CHECKMULTISIGVERIFY
    <3>1. CameOutTrue(i)'
      BY <1>1, <2>2 DEF CameOutTrue, OP_CHECKSIG, OP_CHECKMULTISIG, OP_CHECKSIGADD,
                        OP_CHECKMULTISIGVERIFY
    <3>. QED BY <1>3, <2>2, <3>1
  <2>. QED BY <1>2, <2>1, <2>2 DEF CHECKMULTISIG_OPCODES
<1>8. CameOutTrue(i)' \in BOOLEAN
  BY DEF CameOutTrue
<1>9. ASSUME NEW x \in 1..SigsCount
      PROVE  /\ SigsCount + 1 - x \in 1..SigsCount
             /\ Written.sigs[x] = job.sigs[SigsCount + 1 - x]
             /\ job.sigs[x] = Written.sigs[SigsCount + 1 - x]
  <2>1. SigsCount + 1 - x \in 1..SigsCount /\ SigsCount + 1 - (SigsCount + 1 - x) = x
    BY <1>4
  <2>. QED BY <1>4, <2>1
<1>10. ASSUME NEW y \in 1..KeysCount
       PROVE  job.keys[y] = Written.keys[KeysCount + 1 - y]
  <2>1. KeysCount + 1 - y \in 1..KeysCount /\ KeysCount + 1 - (KeysCount + 1 - y) = y
    BY <1>4
  <2>. QED BY <1>4, <2>1
<1>11. PICK sigs : sigs = Written.sigs /\ sigs = Multi(i).sigs'
  BY <1>5
<1>12. SignedCode(i, sigs)' = job.script_code /\ job.sig_version = input.sigVersion
  <2>1. SignedCode(i, sigs)' = ScriptCode({sigs[k] : k \in DOMAIN sigs})
    BY <1>0, <1>1, CodeSigned
  <2>2. {sigs[k] : k \in DOMAIN sigs} = {job.sigs[k] : k \in DOMAIN job.sigs}
    <3>1. \A x \in 1..SigsCount :
            /\ sigs[x] \in {job.sigs[k] : k \in 1..SigsCount}
            /\ job.sigs[x] \in {sigs[k] : k \in 1..SigsCount}
      BY <1>9, <1>11
    <3>2. DOMAIN sigs = 1..SigsCount /\ DOMAIN job.sigs = 1..SigsCount
      BY <1>4, <1>11
    <3>. QED BY <3>1, <3>2
  <2>3. /\ JobTaken.script_code = ScriptCode({JobTaken.sigs[k] : k \in DOMAIN JobTaken.sigs})
        /\ JobTaken.sig_version = input.sigVersion
    BY <1>3, TakenCounts
  <2>4. job.script_code = ScriptCode({job.sigs[k] : k \in DOMAIN job.sigs})
    BY <1>3, <2>3
  <2>. QED BY <1>3, <2>1, <2>2, <2>3, <2>4
<1>13. HasMatching(job)
         <=> Assignable(Written.sigs, Written.keys, job.script_code, job.sig_version)
  <2>1. HasMatching(job)
          <=> Assignable(job.sigs, job.keys, job.script_code, job.sig_version)
    BY <1>4, MatchingAssignable
  <2>2. Assignable(job.sigs, job.keys, job.script_code, job.sig_version)
          => Assignable(Written.sigs, Written.keys, job.script_code, job.sig_version)
    BY <1>4, ReversedAssignable
  <2>3. Assignable(Written.sigs, Written.keys, job.script_code, job.sig_version)
          => Assignable(job.sigs, job.keys, job.script_code, job.sig_version)
    <3>1. PICK sigs2, keys2, up, down :
            sigs2 = job.sigs /\ keys2 = job.keys /\ up = Written.sigs /\ down = Written.keys
      OBVIOUS
    <3>2. /\ \A x \in 1..SigsCount : sigs2[x] = up[SigsCount + 1 - x]
          /\ \A y \in 1..KeysCount : keys2[y] = down[KeysCount + 1 - y]
          /\ DOMAIN sigs2 = 1..SigsCount /\ DOMAIN keys2 = 1..KeysCount
          /\ DOMAIN up = 1..SigsCount /\ DOMAIN down = 1..KeysCount
          /\ KeysCount \in Nat /\ SigsCount \in Nat
      BY <1>4, <1>9, <1>10, <3>1
    <3>3. ASSUME NEW code, NEW version, Assignable(up, down, code, version)
          PROVE  Assignable(sigs2, keys2, code, version)
      BY <3>2, <3>3, ReversedAssignable
    <3>. QED BY <3>1, <3>3
  <2>. QED BY <2>1, <2>2, <2>3
<1>14. CameOutTrue(i)' <=> Assignable(Multi(i).sigs, Multi(i).keys,
                                      SignedCode(i, Multi(i).sigs), input.sigVersion)'
  BY <1>3, <1>5, <1>6, <1>7, <1>11, <1>12, <1>13
<1>15. (\A k \in DOMAIN job.sigs : job.sigs[k] = << >>)
         => \A k \in DOMAIN Written.sigs : Written.sigs[k] = << >>
  BY <1>4, <1>9
<1>. QED BY <1>3, <1>5, <1>6, <1>7, <1>8, <1>14, <1>15 DEF MultiTells
\* What the trace tells of every signature operation.
TellsInv ==
  /\ \A i \in SignatureSteps : SingleTells(i)
  /\ \A i \in MultisigSteps : MultiTells(i)

LEMMA StepTells ==
  ASSUME SigningInv, MultiInv, TellsInv, [Next]_vars
  PROVE  TellsInv'
<1>0. TraceInv
  BY DEF SigningInv, Between
<1>1. ASSUME NEW i \in SignatureSteps' PROVE SingleTells(i)'
  <2>1. i \in OpSteps'
    BY DEF SignatureSteps
  <2>2. CASE i \in OpSteps
    BY <1>0, <2>2, OldStep, OldTells DEF TellsInv
  <2>3. CASE Recorded /\ i = pc + 1
    BY <2>3, NewSingle
  <2>. QED BY <1>0, <2>1, <2>2, <2>3, OldOrNew
<1>2. ASSUME NEW i \in MultisigSteps' PROVE MultiTells(i)'
  <2>1. i \in OpSteps'
    BY DEF MultisigSteps
  <2>2. CASE i \in OpSteps
    BY <1>0, <2>2, OldStep, OldMultiTells DEF TellsInv
  <2>3. CASE Recorded /\ i = pc + 1
    BY <2>3, NewMulti
  <2>. QED BY <1>0, <2>1, <2>2, <2>3, OldOrNew
<1>. QED BY <1>1, <1>2 DEF TellsInv

LEMMA InitTells == Init => MultiInv /\ TellsInv
BY DEF Init, Begin, MultiInv, TellsInv, SignatureSteps, MultisigSteps, OpSteps

LEMMA TraceTells ==
  ASSUME DigestsAreItems
  PROVE  Spec => [](SigningInv /\ MultiInv /\ TellsInv)
<1>1. SigningInv => LoopInTurn /\ TypeInv
  BY DEF SigningInv, Between, MachineInv
<1>2. SigningInv /\ MultiInv /\ TellsInv /\ [Next]_vars
        => SigningInv' /\ MultiInv' /\ TellsInv'
  BY <1>1, StepSigning, StepMulti, StepTells, PTL
<1>. QED BY <1>2, InitSigning, InitTells, PTL DEF Spec

\* OP_CHECKMULTISIG comes out true exactly when its signatures verify under
\* keys in the same order, over the code with the signatures taken out, for any
\* number of keys and signatures.
THEOREM MultisigDecidesMatching ==
  ASSUME DigestsAreItems
  PROVE  Spec => []MultisigIsMatching
<1>1. TellsInv => MultisigIsMatching
  BY DEF TellsInv, MultiTells, Assignable, MultisigIsMatching
<1>. QED BY <1>1, TraceTells, PTL

\* Under NULLFAIL no signature operation comes out false over a signature that
\* is not empty.
THEOREM NullFailIsComplete ==
  ASSUME DigestsAreItems
  PROVE  Spec => []NullFailLeavesNothing
<1>1. TellsInv => NullFailLeavesNothing
  BY DEF TellsInv, SingleTells, MultiTells, NullFailLeavesNothing
<1>. QED BY <1>1, TraceTells, PTL

\* The signature check that a step of the trace shows came out as the operation.
THEOREM DetailIsOutcome ==
  ASSUME DigestsAreItems
  PROVE  Spec => []DetailTellsOutcome
<1>1. TellsInv => DetailTellsOutcome
  BY DEF TellsInv, SingleTells, MultiTells, DetailTellsOutcome
<1>. QED BY <1>1, TraceTells, PTL

------------------------------------------------------------------------------
(* The operation budget.                                                   *)

OpsInv ==
  status \in {"start", "running", "returned"} =>
    /\ IsFiniteSet(KeysTaken(pc))
    /\ opCount = Counted(pc) + Cardinality(KeysTaken(pc))
    /\ Legacy => opCount <= MAX_OPS_PER_SCRIPT

\* One more position counts at most one operation more.
LEMMA CountedStep ==
  ASSUME NEW i \in Nat
  PROVE  /\ Counted(i) \in Nat
         /\ Counted(i + 1) = Counted(i) + IF Ops[i + 1].opcode > OP_16 THEN 1 ELSE 0
<1> DEFINE Q == {k \in 1..(i + 1) : Ops[k].opcode > OP_16}
<1>1. /\ Cardinality({k \in 1..i : k \in Q}) \in Nat
      /\ Cardinality({k \in 1..(i + 1) : k \in Q})
           = Cardinality({k \in 1..i : k \in Q}) + IF i + 1 \in Q THEN 1 ELSE 0
  <2>. HIDE DEF Q
  <2>. QED BY CountStep
<1>2. /\ {k \in 1..i : k \in Q} = {k \in 1..i : Ops[k].opcode > OP_16}
      /\ {k \in 1..(i + 1) : k \in Q} = {k \in 1..(i + 1) : Ops[k].opcode > OP_16}
  OBVIOUS
<1>3. i + 1 \in Q <=> Ops[i + 1].opcode > OP_16
  OBVIOUS
<1>. HIDE DEF Q
<1>. QED BY <1>1, <1>2, <1>3 DEF Counted

\* The newest operation adds its own keys to those taken before it.
LEMMA KeysTakenStep ==
  ASSUME NEW old, IsFiniteSet(old), NEW k \in Nat, \A p \in old : p[1] # k, NEW n \in Nat
  PROVE  /\ IsFiniteSet(old \cup ({k} \X (1..n)))
         /\ Cardinality(old \cup ({k} \X (1..n))) = Cardinality(old) + n
         /\ Cardinality(old) \in Nat
<1> DEFINE new == {k} \X (1..n)
<1>1. IsFiniteSet({k}) /\ Cardinality({k}) = 1
  BY FS_Singleton
<1>2. IsFiniteSet(1..n) /\ Cardinality(1..n) = n
  <2>1. IsFiniteSet(1..n) /\ Cardinality(1..n) = IF 1 > n THEN 0 ELSE n - 1 + 1
    BY FS_Interval
  <2>. QED BY <2>1
<1>3. IsFiniteSet(new) /\ Cardinality(new) = n
  <2>1. \A a, b : IsFiniteSet(a) /\ IsFiniteSet(b) =>
          IsFiniteSet(a \X b) /\ Cardinality(a \X b) = Cardinality(a) * Cardinality(b)
    BY FS_Product
  <2>2. IsFiniteSet(new) /\ Cardinality(new) = Cardinality({k}) * Cardinality(1..n)
    BY <1>1, <1>2, <2>1, Zenon
  <2>3. Cardinality({k}) * Cardinality(1..n) = 1 * n
    BY <1>1, <1>2, Zenon
  <2>. QED BY <2>2, <2>3
<1>4. old \cap new = {}
  OBVIOUS
<1>. HIDE DEF new
<1>5. /\ IsFiniteSet(old \cup new)
      /\ Cardinality(old \cup new) = Cardinality(old) + Cardinality(new) - Cardinality(old \cap new)
  BY <1>3, FS_Union
<1>6. Cardinality(old) \in Nat /\ Cardinality(old \cap new) = 0
  BY <1>4, FS_CardinalityType, FS_EmptySet
<1>. QED BY <1>3, <1>5, <1>6 DEF new

\* What a legacy or witness operation that succeeded was charged.
LEMMA ChargedOps ==
  ASSUME LoopInTurn, MultiInv, TypeInv, Succeeded
  PROVE  /\ Executing /\ Op \in CHECKMULTISIG_OPCODES =>
              /\ opCount' = Count + KeysCount /\ KeysCount \in Nat
              /\ Count + KeysCount <= MAX_OPS_PER_SCRIPT
         /\ ~(Executing /\ Op \in CHECKMULTISIG_OPCODES) =>
              /\ opCount' = Count
              /\ Legacy /\ Op > OP_16 => ~(Count > MAX_OPS_PER_SCRIPT)
<1>1. CASE Executing /\ Op \in CHECKMULTISIG_OPCODES
  <2>1. /\ MultisigRefusal = "OK" /\ job = JobTaken
    BY <1>1, MultisigEnds
  <2>2. \E s : Finish(s, altstack, execStack, CountWithKeys(Len(job.keys)), lastDetail, "OK")
    BY <1>1, MultisigEnds
  <2>3. KeysCount \in Nat /\ Len(job.keys) = KeysCount
    <3>1. KeysCount \in Nat /\ job.keys \in Seq(Item) /\ DOMAIN job.keys = 1..KeysCount
      BY <2>1, WrittenReversed
    <3>2. Len(job.keys) \in Nat /\ DOMAIN job.keys = 1..Len(job.keys)
      BY <3>1, LenProperties
    <3>3. \A a, b \in Nat : 1..a = 1..b => a = b
      OBVIOUS
    <3>. QED BY <3>1, <3>2, <3>3
  <2>4. opCount' = Count + KeysCount
    BY <2>2, <2>3 DEF Finish, CountWithKeys
  <2>5. ~(CountWithKeys(KeysCount) > MAX_OPS_PER_SCRIPT)
    BY <2>1 DEF MultisigRefusal
  <2>6. Count \in Nat /\ MAX_OPS_PER_SCRIPT \in Nat
    <3>1. InTurn /\ TypeOK
      BY DEF Succeeded, Recorded, TypeInv
    <3>. QED BY <3>1, OpType, LimitsAssumption
  <2>. QED BY <1>1, <2>3, <2>4, <2>5, <2>6 DEF CountWithKeys
<1>2. CASE ~(Executing /\ Op \in CHECKMULTISIG_OPCODES)
  <2>1. opCount' = Count
    BY <1>2, SucceededKeeps
  <2>2. Rejection = "OK"
    <3>1. ~EndMultisig
      BY <1>2, SpecialAction
    <3>. QED BY <3>1 DEF Succeeded, Recorded, Ordinary, Special, OpIf, SkippedIf, OpElse, OpEndIf,
               OpPickRoll, OpCodeSeparator, OpCheckSig, OpTapscriptCheckSig, OpCheckSigAdd,
               Runs, Executes, Processes
  <2>. QED BY <1>2, <2>1, <2>2 DEF Rejection
<1>. QED BY <1>1, <1>2

LEMMA StepOps ==
  ASSUME SigningInv, MultiInv, OpsInv, [Next]_vars
  PROVE  OpsInv'
<1>0. TraceInv /\ HistoryInv /\ LoopInTurn /\ TypeInv /\ TypeOK
  BY DEF SigningInv, Between, MachineInv, TypeInv
<1>1. CASE Succeeded
  <2>1. /\ pc \in Nat /\ pc' = pc + 1 /\ input' = input /\ Ops' = Ops
        /\ \A i \in 1..pc : steps'[i] = steps[i]
        /\ Recorded /\ InTurn /\ status = "running"
    BY <1>0, <1>1, RecordedStep DEF Succeeded, Recorded, InTurn
  <2>2. /\ IsFiniteSet(KeysTaken(pc))
        /\ opCount = Counted(pc) + Cardinality(KeysTaken(pc))
        /\ Legacy => opCount <= MAX_OPS_PER_SCRIPT
    BY <2>1 DEF OpsInv
  <2>3. /\ Counted(pc) \in Nat /\ Counted(pc)' = Counted(pc) + IF Op > OP_16 THEN 1 ELSE 0
    <3>1. Counted(pc)' = Counted(pc + 1)
      BY <2>1 DEF Counted
    <3>2. Ops[pc + 1].opcode = Op
      BY DEF Op, Ops
    <3>. QED BY <2>1, <3>1, <3>2, CountedStep
  <2>4. PICK n \in Nat :
          /\ n = IF Executing /\ Op \in CHECKMULTISIG_OPCODES THEN KeysCount ELSE 0
          /\ opCount' = Count + n
          /\ Legacy => Count + n <= MAX_OPS_PER_SCRIPT
    <3>1. /\ Count \in Nat /\ opCount \in Nat /\ MAX_OPS_PER_SCRIPT \in Nat
      BY <1>0, <2>1, OpType, LimitsAssumption DEF TypeOK
    <3>2. CASE Executing /\ Op \in CHECKMULTISIG_OPCODES
      BY <1>0, <1>1, <3>2, ChargedOps
    <3>3. CASE ~(Executing /\ Op \in CHECKMULTISIG_OPCODES)
      <4>1. /\ opCount' = Count /\ (Legacy /\ Op > OP_16 => ~(Count > MAX_OPS_PER_SCRIPT))
        BY <1>0, <1>1, <3>3, ChargedOps
      <4>2. Legacy => Count <= MAX_OPS_PER_SCRIPT
        BY <2>2, <3>1, <4>1 DEF Count
      <4>3. opCount' = Count + 0
        BY <3>1, <4>1
      <4>. QED BY <3>3, <4>2, <4>3, <3>1
    <3>. QED BY <3>2, <3>3
  <2>5. KeysTaken(pc)' = KeysTaken(pc) \cup ({pc + 1} \X (1..n))
    <3>1. \A k \in 1..pc : KeysOf(k)' = KeysOf(k)
      <4> SUFFICES ASSUME NEW k \in 1..pc PROVE KeysOf(k)' = KeysOf(k)
        OBVIOUS
      <4>1. Before(k)' = Before(k)
        BY <1>0, <2>1, PastKept
      <4>. QED BY <2>1, <4>1 DEF KeysOf
    <3>2. ASSUME NEW i, i = pc + 1 PROVE KeysOf(i)' = n
      <4>1. /\ Before(i)' = stack /\ Ops'[i].opcode = Op /\ steps'[i].executed = Executing
        BY <1>0, <2>1, <3>2, NewStep
      <4>. QED BY <2>4, <4>1 DEF KeysOf, KeysCount, FromTop, Top
    <3>3. PICK i : i = pc + 1
      OBVIOUS
    <3>4. KeysTaken(pc)' = UNION {{k} \X (1..KeysOf(k)') : k \in 1..i}
      BY <2>1, <3>3 DEF KeysTaken
    <3>5. 1..i = 1..pc \cup {i}
      BY <2>1, <3>3
    <3>6. UNION {{k} \X (1..KeysOf(k)') : k \in 1..i}
            = (UNION {{k} \X (1..KeysOf(k)') : k \in 1..pc}) \cup ({i} \X (1..n))
      BY <3>2, <3>3, <3>5
    <3>7. UNION {{k} \X (1..KeysOf(k)') : k \in 1..pc} = KeysTaken(pc)
      BY <3>1 DEF KeysTaken
    <3>. QED BY <3>3, <3>4, <3>6, <3>7
  <2>6. /\ IsFiniteSet(KeysTaken(pc)') /\ Cardinality(KeysTaken(pc)') = Cardinality(KeysTaken(pc)) + n
        /\ Cardinality(KeysTaken(pc)) \in Nat
    <3>1. \A p \in KeysTaken(pc) : p[1] # pc + 1
      BY <2>1 DEF KeysTaken
    <3>2. PICK old : old = KeysTaken(pc)
      OBVIOUS
    <3>3. pc + 1 \in Nat
      BY <2>1
    <3>. QED BY <2>2, <2>5, <3>1, <3>2, <3>3, KeysTakenStep
  <2>7. opCount' = Counted(pc)' + Cardinality(KeysTaken(pc)')
    BY <2>2, <2>3, <2>4, <2>6 DEF Count
  <2>8. Legacy' = Legacy
    BY <2>1 DEF Legacy
  <2>. QED BY <2>4, <2>6, <2>7, <2>8 DEF OpsInv
<1>2. CASE Silent
  <2>1. UNCHANGED <<input, pc, steps>>
    BY <1>2 DEF Silent
  <2>2. KeysTaken(pc)' = KeysTaken(pc) /\ Counted(pc)' = Counted(pc) /\ Legacy' = Legacy
    BY <2>1 DEF KeysTaken, KeysOf, Counted, Ops, Before, Legacy
  <2>3. status' \in {"start", "running", "returned"} =>
          opCount' = opCount /\ status \in {"start", "running", "returned"}
    BY <1>2 DEF Silent, InTurn, AtEnd
  <2>. QED BY <2>2, <2>3 DEF OpsInv
<1>3. status' = "raised" => OpsInv'
  BY DEF OpsInv
<1>4. Ended => status' = "raised"
  BY DEF Ended, Terminal
<1>. QED BY <1>0, <1>1, <1>2, <1>3, <1>4, StepRecords DEF Succeeded

LEMMA InitOps == Init => OpsInv
<1> SUFFICES ASSUME Init PROVE OpsInv
  OBVIOUS
<1>1. pc = 0 /\ opCount = 0
  BY DEF Init, Begin
<1>2. KeysTaken(0) = {} /\ {k \in 1..0 : Ops[k].opcode > OP_16} = {}
  BY DEF KeysTaken
<1>3. IsFiniteSet(KeysTaken(0)) /\ Cardinality(KeysTaken(0)) = 0 /\ Counted(0) = 0
  BY <1>2, FS_EmptySet DEF Counted
<1>4. 0 <= MAX_OPS_PER_SCRIPT
  BY LimitsAssumption
<1>5. opCount = Counted(pc) + Cardinality(KeysTaken(pc))
  BY <1>1, <1>3
<1>. QED BY <1>1, <1>3, <1>4, <1>5 DEF OpsInv

\* The operation budget is charged by the script text plus one for every public
\* key, and no legacy script goes on beyond it.
THEOREM OpsAreCharged ==
  ASSUME DigestsAreItems
  PROVE  Spec => []OpsCharged
<1>1. OpsInv => OpsCharged
  BY DEF OpsInv, OpsCharged
<1>2. SigningInv /\ MultiInv /\ OpsInv /\ [Next]_vars => OpsInv'
  BY StepOps
<1>. QED BY <1>1, <1>2, InitOps, TraceTells, PTL DEF Spec

------------------------------------------------------------------------------
(* Numbers.                                                                *)

\* The digits of an item, and the number that those from k on stand for.
DigitOf(item, k) == IF k = Len(item) THEN item[k] % 128 ELSE item[k]
IsFrom(item, n, f) ==
  f = [k \in 1..(n + 1) |-> IF k > n THEN 0 ELSE DigitOf(item, k) + 256 * f[k + 1]]

\* A byte is a digit, and the last byte of an item one without its sign.
LEMMA DigitType ==
  ASSUME NEW item \in Item, NEW k \in 1..Len(item)
  PROVE  DigitOf(item, k) \in 0..255 /\ (k = Len(item) => DigitOf(item, k) < 128)
<1>1. item[k] \in 0..255
  BY ElementOfSeq DEF Item, Byte
<1>2. PICK d \in 0..255 : d = item[k]
  BY <1>1
<1>3. d % 128 \in 0..127
  OBVIOUS
<1>. QED BY <1>2, <1>3 DEF DigitOf

\* An item has a length.
LEMMA LengthType ==
  ASSUME NEW item \in Item
  PROVE  Len(item) \in Nat
BY LenProperties DEF Item

\* Five digits add up from the last one backwards.
LEMMA HornerExists ==
  ASSUME NEW d \in [1..5 -> Nat]
  PROVE  \E g \in [1..6 -> Nat] :
           /\ g[6] = 0 /\ g[5] = d[5] + 256 * g[6] /\ g[4] = d[4] + 256 * g[5]
           /\ g[3] = d[3] + 256 * g[4] /\ g[2] = d[2] + 256 * g[3]
           /\ g[1] = d[1] + 256 * g[2]
<1>5. PICK g5 \in Nat : g5 = d[5] + 256 * 0
  OBVIOUS
<1>4. PICK g4 \in Nat : g4 = d[4] + 256 * g5
  OBVIOUS
<1>3. PICK g3 \in Nat : g3 = d[3] + 256 * g4
  OBVIOUS
<1>2. PICK g2 \in Nat : g2 = d[2] + 256 * g3
  OBVIOUS
<1>1. PICK g1 \in Nat : g1 = d[1] + 256 * g2
  OBVIOUS
<1> DEFINE g == [k \in 1..6 |-> IF k = 1 THEN g1 ELSE IF k = 2 THEN g2 ELSE IF k = 3 THEN g3
                                ELSE IF k = 4 THEN g4 ELSE IF k = 5 THEN g5 ELSE 0]
<1>6. g \in [1..6 -> Nat]
  OBVIOUS
<1>7. g[6] = 0 /\ g[5] = g5 /\ g[4] = g4 /\ g[3] = g3 /\ g[2] = g2 /\ g[1] = g1
  OBVIOUS
<1> HIDE DEF g
<1>. QED BY <1>1, <1>2, <1>3, <1>4, <1>5, <1>6, <1>7

\* An item of at most five bytes has such a function.
LEMMA FromExists ==
  ASSUME NEW item \in Item, NEW n \in 0..5, n = Len(item)
  PROVE  \E f : IsFrom(item, n, f)
<1>1. n = Len(item)
  OBVIOUS
<1>2. n \in 0..5
  OBVIOUS
<1> DEFINE D(k) == IF k <= n THEN DigitOf(item, k) ELSE 0
<1>3. \A k \in 1..5 : D(k) \in Nat
  <2> SUFFICES ASSUME NEW k \in 1..5 PROVE D(k) \in Nat
    OBVIOUS
  <2>1. CASE k <= n
    <3>1. k \in 1..Len(item)
      BY <1>1, <1>2, <2>1
    <3>2. PICK d \in 0..255 : d = DigitOf(item, k)
      BY <3>1, DigitType
    <3>3. D(k) = d
      BY <2>1, <3>2, Zenon
    <3> HIDE DEF D
    <3>. QED BY <3>3
  <2>2. CASE ~(k <= n)
    BY <2>2
  <2>. QED BY <2>1, <2>2
<1> DEFINE d == [k \in 1..5 |-> D(k)]
<1>4. \A k \in 1..n : k \in 1..5 /\ d[k] = DigitOf(item, k)
  BY <1>2
<1>5. \A k \in 1..5 : k > n => d[k] = 0
  BY <1>2
<1>11. d \in [1..5 -> Nat]
  BY <1>3
<1> HIDE DEF D, d
<1>6. PICK g \in [1..6 -> Nat] :
        /\ g[6] = 0 /\ g[5] = d[5] + 256 * g[6] /\ g[4] = d[4] + 256 * g[5]
        /\ g[3] = d[3] + 256 * g[4] /\ g[2] = d[2] + 256 * g[3]
        /\ g[1] = d[1] + 256 * g[2]
  BY <1>11, HornerExists
<1>7. \A k \in 1..n : g[k] = d[k] + 256 * g[k + 1]
  <2> TAKE k \in 1..n
  <2>1. k \in 1..5
    BY <1>2
  <2>2. k = 1 \/ k = 2 \/ k = 3 \/ k = 4 \/ k = 5
    BY <2>1
  <2>3. CASE k = 1
    <3>1. k + 1 = 2
      BY <2>3
    <3>. QED BY <1>6, <2>3, <3>1, Zenon
  <2>4. CASE k = 2
    <3>1. k + 1 = 3
      BY <2>4
    <3>. QED BY <1>6, <2>4, <3>1, Zenon
  <2>5. CASE k = 3
    <3>1. k + 1 = 4
      BY <2>5
    <3>. QED BY <1>6, <2>5, <3>1, Zenon
  <2>6. CASE k = 4
    <3>1. k + 1 = 5
      BY <2>6
    <3>. QED BY <1>6, <2>6, <3>1, Zenon
  <2>7. CASE k = 5
    <3>1. k + 1 = 6
      BY <2>7
    <3>. QED BY <1>6, <2>7, <3>1, Zenon
  <2>. QED BY <2>2, <2>3, <2>4, <2>5, <2>6, <2>7
<1>8. g[n + 1] = 0
  <2>0. g[6] = 0
    BY <1>6
  <2>1. ASSUME n < 5 PROVE d[5] = 0 /\ g[5] = 0
    <3>1. d[5] = 0
      BY <1>2, <1>5, <2>1
    <3>2. g[6] = 0
      BY <1>2, <2>0, <2>1
    <3>3. g[5] = d[5] + 256 * g[6]
      BY <1>6
    <3>. QED BY <3>1, <3>2, <3>3
  <2>2. ASSUME n < 4 PROVE d[4] = 0 /\ g[4] = 0
    <3>1. d[4] = 0
      BY <1>2, <1>5, <2>2
    <3>2. g[5] = 0
      BY <1>2, <2>1, <2>2
    <3>3. g[4] = d[4] + 256 * g[5]
      BY <1>6
    <3>. QED BY <3>1, <3>2, <3>3
  <2>3. ASSUME n < 3 PROVE d[3] = 0 /\ g[3] = 0
    <3>1. d[3] = 0
      BY <1>2, <1>5, <2>3
    <3>2. g[4] = 0
      BY <1>2, <2>2, <2>3
    <3>3. g[3] = d[3] + 256 * g[4]
      BY <1>6
    <3>. QED BY <3>1, <3>2, <3>3
  <2>4. ASSUME n < 2 PROVE d[2] = 0 /\ g[2] = 0
    <3>1. d[2] = 0
      BY <1>2, <1>5, <2>4
    <3>2. g[3] = 0
      BY <1>2, <2>3, <2>4
    <3>3. g[2] = d[2] + 256 * g[3]
      BY <1>6
    <3>. QED BY <3>1, <3>2, <3>3
  <2>5. ASSUME n < 1 PROVE d[1] = 0 /\ g[1] = 0
    <3>1. d[1] = 0
      BY <1>2, <1>5, <2>5
    <3>2. g[2] = 0
      BY <1>2, <2>4, <2>5
    <3>3. g[1] = d[1] + 256 * g[2]
      BY <1>6
    <3>. QED BY <3>1, <3>2, <3>3
  <2>. QED BY <1>2, <2>0, <2>1, <2>2, <2>3, <2>4, <2>5
<1> DEFINE f == [k \in 1..(n + 1) |-> g[k]]
<1>9. \A k \in 1..(n + 1) : f[k] = IF k > n THEN 0 ELSE DigitOf(item, k) + 256 * f[k + 1]
  <2> TAKE k \in 1..(n + 1)
  <2>1. CASE k > n
    <3>1. k = n + 1
      BY <1>2, <2>1
    <3>2. f[k] = g[n + 1]
      BY <3>1
    <3>. QED BY <1>8, <2>1, <3>2
  <2>2. CASE ~(k > n)
    <3>1. k \in 1..n /\ k + 1 \in 1..(n + 1)
      BY <1>2, <2>2
    <3>2. f[k] = g[k] /\ f[k + 1] = g[k + 1]
      BY <3>1
    <3> HIDE DEF f
    <3>3. g[k] = DigitOf(item, k) + 256 * g[k + 1]
      BY <1>4, <1>7, <3>1
    <3>. QED BY <2>2, <3>2, <3>3, Zenon
  <2>. QED BY <2>1, <2>2
<1>10. f = [k \in 1..(n + 1) |-> IF k > n THEN 0 ELSE DigitOf(item, k) + 256 * f[k + 1]]
  <2>1. f = [k \in 1..(n + 1) |-> f[k]]
    OBVIOUS
  <2> HIDE DEF f
  <2>. QED BY <1>9, <2>1, Zenon
<1> HIDE DEF f
<1>. QED BY <1>10, Zenon DEF IsFrom

\* What decode_num adds up is the number.
LEMMA ValueIs ==
  ASSUME NEW item \in Item, Len(item) <= 5
  PROVE  Value(item) = decode_num(item)
<1>1. PICK n \in Nat : n = Len(item)
  BY LengthType
<1>2. n \in 0..5
  BY <1>1
<1> DEFINE from == CHOOSE f : IsFrom(item, Len(item), f)
           D(k) == DigitOf(item, k)
           abs(m) == (IF m >= 1 THEN D(1) ELSE 0) + (IF m >= 2 THEN 256 * D(2) ELSE 0)
                   + (IF m >= 3 THEN 65536 * D(3) ELSE 0) + (IF m >= 4 THEN TWO24 * D(4) ELSE 0)
                   + (IF m >= 5 THEN 256 * TWO24 * D(5) ELSE 0)
<1>3. IsFrom(item, Len(item), from)
  <2>1. \E f : IsFrom(item, n, f)
    BY <1>1, <1>2, FromExists
  <2>. QED BY <1>1, <2>1, Zenon
<1>4. Value(item) = IF Len(item) > 0 /\ item[Len(item)] >= 128 THEN -from[1] ELSE from[1]
  BY Zenon DEF Value, IsFrom, DigitOf
<1>5. decode_num(item) = IF Len(item) > 0 /\ item[Len(item)] >= 128
                           THEN -abs(Len(item)) ELSE abs(Len(item))
  BY DEF decode_num, Digit, DigitOf
<1>6. \A k \in 1..(n + 1) : from[k] = IF k > n THEN 0 ELSE D(k) + 256 * from[k + 1]
  <2> HIDE DEF from
  <2>1. from = [k \in 1..(n + 1) |-> IF k > n THEN 0 ELSE D(k) + 256 * from[k + 1]]
    <3>1. IsFrom(item, n, from)
      BY <1>1, <1>3
    <3>. QED BY <3>1, Zenon DEF IsFrom
  <2> HIDE DEF D
  <2>. QED BY <2>1, Zenon
<1>7. \A k \in 1..n : D(k) \in Nat
  <2> TAKE k \in 1..n
  <2>1. k \in 1..Len(item)
    BY <1>1
  <2>2. PICK d \in 0..255 : d = DigitOf(item, k)
    BY <2>1, DigitType
  <2>3. D(k) = d
    BY <2>2, Zenon
  <2> HIDE DEF D
  <2>. QED BY <2>3
<1> HIDE DEF from, D
<1>8. from[1] = abs(n)
  <2>1. from[n + 1] = 0
    BY <1>2, <1>6
  <2>2. \A k \in 1..n : from[k] = D(k) + 256 * from[k + 1]
    BY <1>2, <1>6
  <2>3. CASE n = 0
    BY <2>1, <2>3
  <2>4. CASE n = 1
    BY <1>7, <2>1, <2>2, <2>4
  <2>5. CASE n = 2
    BY <1>7, <2>1, <2>2, <2>5
  <2>6. CASE n = 3
    BY <1>7, <2>1, <2>2, <2>6
  <2>7. CASE n = 4
    <3>1. PICK d1 \in Nat, d2 \in Nat, d3 \in Nat, d4 \in Nat :
            d1 = D(1) /\ d2 = D(2) /\ d3 = D(3) /\ d4 = D(4)
      BY <1>7, <2>7
    <3>2. from[5] = 0 /\ from[4] = d4 + 256 * from[5] /\ from[3] = d3 + 256 * from[4]
          /\ from[2] = d2 + 256 * from[3] /\ from[1] = d1 + 256 * from[2]
      BY <2>1, <2>2, <2>7, <3>1
    <3>3. PICK t : t = d1 + 256 * d2 + 65536 * d3 + 16777216 * d4
      OBVIOUS
    <3>4. from[1] = t
      BY <3>2, <3>3
    <3>5. abs(n) = t
      BY <2>7, <3>1, <3>3 DEF TWO24
    <3> HIDE DEF abs
    <3>. QED BY <3>4, <3>5, Zenon
  <2>8. CASE n = 5
    <3>1. PICK d1 \in Nat, d2 \in Nat, d3 \in Nat, d4 \in Nat, d5 \in Nat :
            d1 = D(1) /\ d2 = D(2) /\ d3 = D(3) /\ d4 = D(4) /\ d5 = D(5)
      BY <1>7, <2>8
    <3>2. from[6] = 0 /\ from[5] = d5 + 256 * from[6] /\ from[4] = d4 + 256 * from[5]
          /\ from[3] = d3 + 256 * from[4]
          /\ from[2] = d2 + 256 * from[3] /\ from[1] = d1 + 256 * from[2]
      BY <2>1, <2>2, <2>8, <3>1
    <3>3. PICK t : t = d1 + 256 * d2 + 65536 * d3 + 16777216 * d4 + 4294967296 * d5
      OBVIOUS
    <3>4. from[1] = t
      BY <3>2, <3>3
    <3>5. abs(n) = t
      BY <2>8, <3>1, <3>3 DEF TWO24
    <3> HIDE DEF abs
    <3>. QED BY <3>4, <3>5, Zenon
  <2>. QED BY <1>2, <2>3, <2>4, <2>5, <2>6, <2>7, <2>8
<1> HIDE DEF abs
<1>. QED BY <1>1, <1>4, <1>5, <1>8

------------------------------------------------------------------------------
(* What a lock that passed has checked.                                    *)

LockOps == {OP_CHECKLOCKTIMEVERIFY, OP_CHECKSEQUENCEVERIFY}

\* The operations that are neither.
PlainOps ==
  (OP_0..OP_PUSHDATA4) \cup {OP_1NEGATE} \cup SMALL_INTS
    \cup {OP_VERIFY, OP_RETURN, OP_NOP} \cup UPGRADABLE_NOPS
    \cup {OP_TOALTSTACK, OP_FROMALTSTACK} \cup STACK_SHUFFLES
    \cup {OP_IFDUP, OP_DEPTH, OP_SIZE, OP_EQUAL, OP_EQUALVERIFY}
    \cup UNARY_NUMERIC \cup {OP_WITHIN} \cup HASH_OPCODES
    \cup ConditionalOps \cup SpecialOps

\* No lock is one of the other operations.
LEMMA PlainApart ==
  /\ \A op \in PlainOps : op \notin BINARY_NUMERIC \cup LockOps
  /\ \A op \in BINARY_NUMERIC : op \notin LockOps
  /\ OP_CHECKLOCKTIMEVERIFY # OP_CHECKSEQUENCEVERIFY
BY DEF PlainOps, LockOps, ConditionalOps, SpecialOps, SMALL_INTS, UPGRADABLE_NOPS,
       STACK_SHUFFLES, UNARY_NUMERIC, BINARY_NUMERIC, HASH_OPCODES, CHECKSIG_OPCODES,
       CHECKMULTISIG_OPCODES,
       OP_0, OP_PUSHDATA1, OP_PUSHDATA2, OP_PUSHDATA4, OP_1NEGATE,
       OP_1, OP_16, OP_NOP, OP_IF, OP_NOTIF,
       OP_ELSE, OP_ENDIF, OP_VERIFY, OP_RETURN, OP_TOALTSTACK, OP_FROMALTSTACK,
       OP_2DROP, OP_2DUP, OP_3DUP, OP_2OVER, OP_2ROT, OP_2SWAP, OP_IFDUP,
       OP_DEPTH, OP_DROP, OP_DUP, OP_NIP, OP_OVER, OP_PICK, OP_ROLL, OP_ROT,
       OP_SWAP, OP_TUCK, OP_SIZE, OP_EQUAL, OP_EQUALVERIFY,
       OP_1ADD, OP_1SUB, OP_NEGATE, OP_ABS, OP_NOT, OP_0NOTEQUAL,
       OP_ADD, OP_SUB, OP_BOOLAND, OP_BOOLOR, OP_NUMEQUAL, OP_NUMEQUALVERIFY,
       OP_NUMNOTEQUAL, OP_LESSTHAN, OP_GREATERTHAN, OP_LESSTHANOREQUAL,
       OP_GREATERTHANOREQUAL, OP_MIN, OP_MAX, OP_WITHIN, OP_RIPEMD160, OP_SHA1,
       OP_SHA256, OP_HASH160, OP_HASH256, OP_CODESEPARATOR, OP_CHECKSIG,
       OP_CHECKSIGVERIFY, OP_CHECKMULTISIG, OP_CHECKMULTISIGVERIFY, OP_NOP1,
       OP_CHECKLOCKTIMEVERIFY, OP_CHECKSEQUENCEVERIFY, OP_NOP4, OP_NOP10,
       OP_CHECKSIGADD

\* An action of the machine that is neither arithmetic nor a lock runs one of the
\* other operations, or lets an exception out.
LEMMA PlainActions ==
  ASSUME LoopInTurn,
         \/ OpPush \/ OpSmallInt \/ OpIf \/ SkippedIf \/ OpElse \/ OpEndIf
         \/ OpVerify \/ OpReturn \/ OpNop \/ OpUpgradableNop
         \/ OpToAltStack \/ OpFromAltStack \/ OpShuffle \/ OpIfDup \/ OpDepth
         \/ OpSize \/ OpPickRoll \/ OpEqual
         \/ OpUnary \/ OpWithin \/ OpHash \/ OpCodeSeparator
         \/ OpCheckSig \/ OpTapscriptCheckSig \/ OpCheckSigAdd \/ EscapeSchnorr
         \/ RefuseMultisig \/ BeginMultisig \/ MultisigLoop \/ RaiseInMultisig
         \/ NullFailMultisig \/ EndMultisig
  PROVE  Op \in PlainOps \/ status' = "escaped"
<1>1. CASE \/ OpPush \/ OpSmallInt \/ OpIf \/ SkippedIf \/ OpElse \/ OpEndIf
           \/ OpVerify \/ OpReturn \/ OpNop \/ OpUpgradableNop
  BY <1>1 DEF OpPush, OpSmallInt, OpIf, SkippedIf, OpElse, OpEndIf, OpVerify, OpReturn, OpNop,
              OpUpgradableNop, Runs, Executes, Processes, PlainOps, ConditionalOps
<1>2. CASE \/ OpToAltStack \/ OpFromAltStack \/ OpShuffle \/ OpIfDup \/ OpDepth
           \/ OpSize \/ OpEqual \/ OpUnary \/ OpWithin \/ OpHash
  BY <1>2 DEF OpToAltStack, OpFromAltStack, OpShuffle, OpIfDup, OpDepth, OpSize, OpEqual,
              OpUnary, OpWithin, OpHash, Runs, Executes, Processes, PlainOps
<1>3. CASE \/ OpPickRoll \/ OpCodeSeparator \/ OpCheckSig \/ OpTapscriptCheckSig
           \/ OpCheckSigAdd \/ EndMultisig
  BY <1>3, SpecialAction DEF PlainOps, SpecialOps
<1>4. CASE EscapeSchnorr
  BY <1>4 DEF EscapeSchnorr
<1>5. CASE RefuseMultisig \/ BeginMultisig
  BY <1>5 DEF RefuseMultisig, BeginMultisig, Executes, Processes, PlainOps, SpecialOps
<1>6. CASE MultisigLoop \/ RaiseInMultisig \/ NullFailMultisig
  <2>1. loopPhase # "idle"
    BY <1>6 DEF MultisigLoop, LoopStep, InLoop, RaiseInMultisig, NullFailMultisig, Compare,
                RefusePair, LeaveLoop
  <2>. QED BY <2>1 DEF LoopInTurn, PlainOps, SpecialOps
<1>. QED BY <1>1, <1>2, <1>3, <1>4, <1>5, <1>6

\* Which action an operation that is one of these, and succeeded, was.
LEMMA TellingAction ==
  ASSUME LoopInTurn, pc \in Nat, Succeeded, Executing, [Next]_vars,
         Op \in BINARY_NUMERIC \cup LockOps
  PROVE  OpBinary \/ OpCheckLockTimeVerify \/ OpCheckSequenceVerify
<1>1. /\ pc' = pc + 1 /\ status' = "running" /\ error' = "OK"
  BY SucceededForm
<1>2. ASSUME NEW s, NEW err, Raise(s, err) PROVE err = "OK"
  BY <1>1, <1>2 DEF Raise, Plain, Finish
<1>3. ASSUME Ended \/ Silent PROVE FALSE
  BY <1>1, <1>3 DEF Ended, Terminal, Silent
<1>4. ~(RejectScriptSize \/ RejectTruncated \/ BeginLoop \/ EndUnbalanced \/ EndReturn)
  BY <1>3, StartAndEndRecords
<1>5. ~(RejectOp \/ Underflow \/ BadOpcode \/ BadNumber)
  BY <1>2 DEF RejectOp, Underflow, BadOpcode, BadNumber
<1>6. ~SkipOp
  BY DEF SkipOp
<1>7. ~(UNCHANGED vars)
  BY <1>1 DEF vars, evalVars, runVars
<1>8. Op \notin PlainOps
  BY PlainApart
<1>. QED BY <1>1, <1>4, <1>5, <1>6, <1>7, <1>8, PlainActions DEF Next

\* The same of an operation that a step recorded.
LEMMA TellingActions ==
  ASSUME LoopInTurn, pc \in Nat, Succeeded, Executing, [Next]_vars
  PROVE  /\ Op \in BINARY_NUMERIC => OpBinary
         /\ Op = OP_CHECKLOCKTIMEVERIFY => OpCheckLockTimeVerify
         /\ Op = OP_CHECKSEQUENCEVERIFY => OpCheckSequenceVerify
<1>1. /\ OpBinary => Op \in BINARY_NUMERIC
      /\ OpCheckLockTimeVerify => Op = OP_CHECKLOCKTIMEVERIFY
      /\ OpCheckSequenceVerify => Op = OP_CHECKSEQUENCEVERIFY
  BY DEF OpBinary, OpCheckLockTimeVerify, OpCheckSequenceVerify, Runs, Executes, Processes
<1>. QED BY <1>1, TellingAction, PlainApart DEF LockOps

\* An operand that a lock has decoded.
LockOperand(top) ==
  /\ top \in Item /\ Len(top) <= MAX_LOCK_NUM_SIZE
  /\ decode_num(top) \in Nat

\* What a step that passed a lock tells.
LockTells(i) ==
  Passed(i) /\ Ops[i].opcode \in LockOps =>
    LET top == FromTop(Before(i), 1)
        n == decode_num(top)
    IN  /\ steps[i].stack = Before(i) /\ steps[i].altstack = AltBefore(i)
        /\ Ops[i].opcode = OP_CHECKLOCKTIMEVERIFY /\ Flag("CHECKLOCKTIMEVERIFY") =>
             LockOperand(top) /\ check_locktime(input.tx, n)
        /\ Ops[i].opcode = OP_CHECKSEQUENCEVERIFY /\ Flag("CHECKSEQUENCEVERIFY") =>
             /\ LockOperand(top)
             /\ HasFlag(n, SEQUENCE_LOCKTIME_DISABLE_FLAG) \/ check_sequence(input.tx, n)

\* A lock that its turn passed read its operand and compared it.
LEMMA LockTurnPasses ==
  ASSUME TypeInv, NEW b, LockTurn(b), status' = "running", error' = "OK"
  PROVE  /\ LockOperand(Top(1)) /\ b
         /\ stack' = stack /\ altstack' = altstack
<1>1. ASSUME NEW s, NEW err, Raise(s, err) PROVE err = "OK"
  BY <1>1 DEF Raise, Plain, Finish
<1>2. LockOperandRefusal = "OK" /\ b /\ Leave(stack)
  BY <1>1 DEF LockTurn
<1>3. stack' = stack /\ altstack' = altstack
  BY <1>2 DEF Leave, Plain, Finish
<1>4. Has(1) /\ Decodable(Top(1), Flag("MINIMALDATA"), MAX_LOCK_NUM_SIZE)
      /\ ~(decode_num(Top(1)) < 0)
  BY <1>2 DEF LockOperandRefusal
<1>5. Top(1) \in Item
  BY <1>4, TakenType
<1>6. PICK n \in Int : n = decode_num(Top(1))
  BY <1>5, DecodeNumType
<1>7. n \in Nat
  BY <1>4, <1>6
<1>. QED BY <1>2, <1>3, <1>4, <1>5, <1>6, <1>7 DEF LockOperand, Decodable

\* An operation with no meaning moves nothing.
LEMMA NopPasses ==
  ASSUME UpgradableNop
  PROVE  stack' = stack /\ altstack' = altstack
BY DEF UpgradableNop, Raise, Leave, Plain, Finish

\* Every step keeps what the trace tells of the locks passed so far.
LEMMA StepLocks ==
  ASSUME Between, \A i \in OpSteps : LockTells(i), [Next]_vars
  PROVE  \A i \in OpSteps' : LockTells(i)'
<1>0. TraceInv /\ HistoryInv /\ LoopInTurn /\ TypeInv /\ pc \in Nat
  BY DEF Between, MachineInv, TraceInv
<1> SUFFICES ASSUME NEW i \in OpSteps' PROVE LockTells(i)'
  OBVIOUS
<1>1. CASE i \in OpSteps
  <2>1. /\ Passed(i)' = Passed(i) /\ Before(i)' = Before(i) /\ steps'[i] = steps[i]
        /\ Ops'[i] = Ops[i] /\ input' = input
    BY <1>0, <1>1, OldStep
  <2>2. i \in 1..(pc + 1)
    BY <1>0, <1>1 DEF OpSteps
  <2>3. AltBefore(i)' = AltBefore(i)
    BY <1>0, <2>2, PastKept
  <2>. QED BY <1>1, <2>1, <2>3 DEF LockTells, Flag
<1>2. CASE Recorded /\ i = pc + 1
  <2>1. /\ Passed(i)' <=> Succeeded /\ Executing
        /\ Before(i)' = stack /\ Ops'[i].opcode = Op /\ steps'[i].stack = stack'
    BY <1>0, <1>2, NewStep
  <2>2. steps'[i].altstack = altstack' /\ AltBefore(i)' = altstack
    <3>1. status # "raised" /\ i \in 1..(pc + 1)
      BY <1>0, <1>2 DEF Recorded, InTurn
    <3>. QED BY <1>0, <1>2, <3>1, PastKept, RecordedStep DEF HistoryInv
  <2> SUFFICES ASSUME Succeeded, Executing, Op \in LockOps PROVE LockTells(i)'
    BY <2>1 DEF LockTells
  <2>3. input' = input /\ status' = "running" /\ error' = "OK"
    BY SucceededForm
  <2>4. PICK top, n : top = Top(1) /\ n = decode_num(top)
    OBVIOUS
  <2>5. FromTop(Before(i), 1)' = top /\ decode_num(FromTop(Before(i), 1))' = n
    BY <2>1, <2>4 DEF Top, FromTop
  <2>6. CASE Op = OP_CHECKLOCKTIMEVERIFY
    <3>1. OpCheckLockTimeVerify
      BY <1>0, <2>6, TellingActions
    <3>2. /\ stack' = stack /\ altstack' = altstack
          /\ Flag("CHECKLOCKTIMEVERIFY") => LockOperand(top) /\ check_locktime(input.tx, n)
      BY <1>0, <2>3, <2>4, <3>1, LockTurnPasses, NopPasses DEF OpCheckLockTimeVerify
    <3>. QED BY <2>1, <2>2, <2>3, <2>5, <2>6, <3>2, PlainApart DEF LockTells, LockOperand, Flag
  <2>7. CASE Op = OP_CHECKSEQUENCEVERIFY
    <3>1. OpCheckSequenceVerify
      BY <1>0, <2>7, TellingActions
    <3>2. /\ stack' = stack /\ altstack' = altstack
          /\ Flag("CHECKSEQUENCEVERIFY") =>
               /\ LockOperand(top)
               /\ HasFlag(n, SEQUENCE_LOCKTIME_DISABLE_FLAG) \/ check_sequence(input.tx, n)
      BY <1>0, <2>3, <2>4, <3>1, LockTurnPasses, NopPasses DEF OpCheckSequenceVerify
    <3>. QED BY <2>1, <2>2, <2>3, <2>5, <2>7, <3>2, PlainApart DEF LockTells, LockOperand, Flag
  <2>. QED BY <2>6, <2>7 DEF LockOps
<1>. QED BY <1>0, <1>1, <1>2, OldOrNew

\* The transaction's lock time is reached no sooner than the one the script
\* named.
LEMMA LockTimeGate ==
  ASSUME NEW tx \in TxView, NEW n \in Nat, NEW h \in Nat, NEW t \in Nat,
         check_locktime(tx, n), Mature(tx, h, t)
  PROVE  n = 0 \/ n \in 1..((IF n < LOCKTIME_THRESHOLD THEN h ELSE t) - 1)
<1>1. PICK at \in Nat, T \in Nat : at = tx.locktime /\ T = LOCKTIME_THRESHOLD
  BY LockAssumption DEF TxView
<1>2. (at < T <=> n < T) /\ n <= at /\ tx.sequence # SEQUENCE_FINAL
  BY <1>1 DEF check_locktime
<1>3. at = 0 \/ at < (IF at < T THEN h ELSE t)
  BY <1>1, <1>2 DEF Mature
<1>4. n = 0 \/ n \in 1..((IF n < T THEN h ELSE t) - 1)
  BY <1>2, <1>3
<1>. QED BY <1>1, <1>4

\* The unit of a sequence and its length can be told from what is left of it
\* when the other bits are masked away.
LEMMA MaskedParts ==
  ASSUME NEW x \in Nat
  PROVE  /\ Length(x) \in Nat /\ Length(x) < SEQUENCE_LOCKTIME_TYPE_FLAG
         /\ Masked(x) = Length(x) + (IF Timed(x) THEN SEQUENCE_LOCKTIME_TYPE_FLAG ELSE 0)
<1>1. PICK mask \in Nat, flag \in Nat :
        mask = SEQUENCE_LOCKTIME_MASK /\ flag = SEQUENCE_LOCKTIME_TYPE_FLAG /\ mask < flag
  BY LockAssumption
<1>2. x % (mask + 1) \in Nat /\ x % (mask + 1) < flag
  BY <1>1
<1>. QED BY <1>1, <1>2 DEF Length, Masked, Timed, HasFlag

\* The output is no younger than the script asked.
LEMMA SequenceGate ==
  ASSUME NEW tx \in TxView, NEW n \in Nat, NEW b \in Nat, NEW u \in Nat,
         check_sequence(tx, n), Aged(tx, b, u)
  PROVE  (IF Timed(n) THEN u ELSE b) >= Length(n)
<1>1. PICK s \in Nat, v \in Nat : s = tx.sequence /\ v = tx.version
  BY DEF TxView
<1>2. PICK flag \in Nat, ls \in Nat, ln \in Nat :
        /\ flag = SEQUENCE_LOCKTIME_TYPE_FLAG /\ ls = Length(s) /\ ln = Length(n)
        /\ ls < flag /\ ln < flag
        /\ Masked(s) = ls + (IF Timed(s) THEN flag ELSE 0)
        /\ Masked(n) = ln + (IF Timed(n) THEN flag ELSE 0)
  <2>1. SEQUENCE_LOCKTIME_TYPE_FLAG \in Nat
    BY LockAssumption
  <2>. QED BY <2>1, MaskedParts
<1>3. /\ v >= 2 /\ ~Disabled(s)
      /\ Masked(s) < flag <=> Masked(n) < flag
      /\ Masked(n) <= Masked(s)
  BY <1>1, <1>2 DEF check_sequence, Disabled, HasFlag
<1>4. (IF Timed(s) THEN u ELSE b) >= ls
  <2>1. ~(v < 2)
    BY <1>3
  <2>. QED BY <1>1, <1>2, <1>3, <2>1 DEF Aged
<1>5. PICK ts \in BOOLEAN, tn \in BOOLEAN : ts = Timed(s) /\ tn = Timed(n)
  BY DEF Timed
<1>6. /\ ls + (IF ts THEN flag ELSE 0) < flag <=> ln + (IF tn THEN flag ELSE 0) < flag
      /\ ln + (IF tn THEN flag ELSE 0) <= ls + (IF ts THEN flag ELSE 0)
  BY <1>2, <1>3, <1>5
<1>7. (IF ts THEN u ELSE b) >= ls
  BY <1>4, <1>5
<1>8. (IF tn THEN u ELSE b) >= ln
  <2>1. CASE ts /\ tn
    BY <1>2, <1>6, <1>7, <2>1
  <2>2. CASE ~ts /\ ~tn
    BY <1>2, <1>6, <1>7, <2>2
  <2>3. CASE ts /\ ~tn
    BY <1>2, <1>6, <2>3
  <2>4. CASE ~ts /\ tn
    BY <1>2, <1>6, <2>4
  <2>. QED BY <2>1, <2>2, <2>3, <2>4
<1>. QED BY <1>2, <1>5, <1>8

\* A lock that a script passed is kept by the whole network: no transaction that
\* passed it can be in a block before the height or time the script named, or
\* spend an output younger than the script asked; the stacks are left alone.
THEOREM LocksAreGates ==
  ASSUME DigestsAreItems
  PROVE  Spec => []LockIsGate
<1> DEFINE Inv == \A i \in OpSteps : LockTells(i)
<1>1. Init => Inv
  BY DEF Init, Begin, OpSteps
<1>2. Between /\ Inv /\ [Next]_vars => Inv'
  BY StepLocks
<1>3. Between /\ [Next]_vars => Between'
  BY StepBetween
<1>4. ASSUME Between, Inv PROVE LockIsGate
  <2> SUFFICES ASSUME NEW i \in OpSteps, Passed(i), Ops[i].opcode \in LockOps,
                      NEW top, top = FromTop(Before(i), 1), NEW n, n = Value(top),
                      NEW Moments, Moments = 0..(input.tx.locktime + 1),
                      NEW Ages, Ages = 0..(SEQUENCE_LOCKTIME_MASK + 1)
               PROVE  /\ steps[i].stack = Before(i) /\ steps[i].altstack = AltBefore(i)
                      /\ Ops[i].opcode = OP_CHECKLOCKTIMEVERIFY /\ Flag("CHECKLOCKTIMEVERIFY") =>
                           \A h, t \in Moments : Mature(input.tx, h, t) =>
                             n = 0 \/ n \in 1..((IF n < LOCKTIME_THRESHOLD THEN h ELSE t) - 1)
                      /\ Ops[i].opcode = OP_CHECKSEQUENCEVERIFY /\ Flag("CHECKSEQUENCEVERIFY") =>
                           /\ n >= 0
                           /\ \A b, u \in Ages : Aged(input.tx, b, u) /\ ~Disabled(n) =>
                                (IF Timed(n) THEN u ELSE b) >= Length(n)
    BY DEF LockIsGate, LockOps
  <2>1. LockTells(i)
    BY <1>4
  <2>2. PICK tx \in TxView : tx = input.tx
    BY <1>4 DEF Between, MachineInv, TypeInv, TypeOK, EvalInput
  <2>3. LockOperand(top) => n \in Nat /\ n = decode_num(top)
    <3> SUFFICES ASSUME LockOperand(top) PROVE n \in Nat /\ n = decode_num(top)
      OBVIOUS
    <3>1. PICK item \in Item : item = top
      BY DEF LockOperand
    <3>2. Len(item) <= MAX_LOCK_NUM_SIZE /\ MAX_LOCK_NUM_SIZE \in 1..5
      BY <3>1, LimitsAssumption DEF LockOperand
    <3>3. PICK k \in Nat : k = Len(item)
      BY LengthType
    <3>4. Len(item) <= 5
      BY <3>2, <3>3
    <3>5. Value(item) = decode_num(item)
      BY <3>4, ValueIs
    <3>. QED BY <3>1, <3>5 DEF LockOperand
  <2>4. Moments \subseteq Nat /\ Ages \subseteq Nat
    BY <2>2, LockAssumption DEF TxView
  <2>5. ASSUME Ops[i].opcode = OP_CHECKLOCKTIMEVERIFY, Flag("CHECKLOCKTIMEVERIFY"),
               NEW h \in Moments, NEW t \in Moments, Mature(input.tx, h, t)
        PROVE  n = 0 \/ n \in 1..((IF n < LOCKTIME_THRESHOLD THEN h ELSE t) - 1)
    <3>1. LockOperand(top) /\ check_locktime(input.tx, decode_num(top))
      BY <2>1, <2>5 DEF LockTells
    <3>2. PICK m \in Nat : m = n /\ m = decode_num(top)
      BY <2>3, <3>1
    <3>3. h \in Nat /\ t \in Nat
      BY <2>4
    <3>4. check_locktime(tx, m) /\ Mature(tx, h, t)
      BY <2>2, <2>5, <3>1, <3>2
    <3>5. m = 0 \/ m \in 1..((IF m < LOCKTIME_THRESHOLD THEN h ELSE t) - 1)
      BY <3>3, <3>4, LockTimeGate
    <3>. QED BY <3>2, <3>5
  <2>6. ASSUME Ops[i].opcode = OP_CHECKSEQUENCEVERIFY, Flag("CHECKSEQUENCEVERIFY")
        PROVE  /\ n >= 0
               /\ \A b, u \in Ages : Aged(input.tx, b, u) /\ ~Disabled(n) =>
                    (IF Timed(n) THEN u ELSE b) >= Length(n)
    <3>1. /\ LockOperand(top)
          /\ \/ HasFlag(decode_num(top), SEQUENCE_LOCKTIME_DISABLE_FLAG)
             \/ check_sequence(input.tx, decode_num(top))
      BY <2>1, <2>6 DEF LockTells
    <3>2. PICK m \in Nat : m = n /\ m = decode_num(top)
      BY <2>3, <3>1
    <3>3. ASSUME NEW b \in Ages, NEW u \in Ages, Aged(input.tx, b, u), ~Disabled(n)
          PROVE  (IF Timed(n) THEN u ELSE b) >= Length(n)
      <4>1. b \in Nat /\ u \in Nat
        BY <2>4
      <4>2. check_sequence(tx, m) /\ Aged(tx, b, u)
        BY <2>2, <3>1, <3>2, <3>3 DEF Disabled, HasFlag
      <4>3. (IF Timed(m) THEN u ELSE b) >= Length(m)
        BY <4>1, <4>2, SequenceGate
      <4>. QED BY <3>2, <4>3
    <3>4. n >= 0
      BY <3>2
    <3>. QED BY <3>3, <3>4
  <2>7. steps[i].stack = Before(i) /\ steps[i].altstack = AltBefore(i)
    BY <2>1 DEF LockTells
  <2>. QED BY <2>5, <2>6, <2>7
<1>. QED BY <1>1, <1>2, <1>3, <1>4, InitBetween, PTL DEF Spec

------------------------------------------------------------------------------
(* Numbers as they are written.                                            *)

\* The numbers that m bytes hold without a sign.
Bound(m) ==
  IF m = 1 THEN 256 ELSE IF m = 2 THEN 65536 ELSE IF m = 3 THEN 256 * 65536 ELSE 65536 * 65536

\* The five digits of a number, the missing ones zero; what they add up to, and
\* the number under its sign.
HasDigits(e, k, d) == \A i \in 1..5 : IF k >= i THEN Digit(e, i) = d[i] ELSE d[i] = 0
SumOf(d) == d[1] + 256 * (d[2] + 256 * (d[3] + 256 * (d[4] + 256 * d[5])))
SignedBy(e, k, s) == IF k > 0 /\ e[k] >= 128 THEN -s ELSE s

\* What decode_num adds up.
LEMMA DecodeSum ==
  ASSUME NEW e, NEW k \in 0..5, k = Len(e), NEW d \in [1..5 -> Nat], HasDigits(e, k, d)
  PROVE  decode_num(e) = SignedBy(e, k, SumOf(d))
<1> DEFINE T1(m) == IF m >= 1 THEN Digit(e, 1) ELSE 0
           T2(m) == IF m >= 2 THEN 256 * Digit(e, 2) ELSE 0
           T3(m) == IF m >= 3 THEN 65536 * Digit(e, 3) ELSE 0
           T4(m) == IF m >= 4 THEN TWO24 * Digit(e, 4) ELSE 0
           T5(m) == IF m >= 5 THEN 256 * TWO24 * Digit(e, 5) ELSE 0
           abs(m) == T1(m) + T2(m) + T3(m) + T4(m) + T5(m)
<1>1. decode_num(e) = IF Len(e) > 0 /\ e[Len(e)] >= 128 THEN -abs(Len(e)) ELSE abs(Len(e))
  BY DEF decode_num
<1>2. PICK d1 \in Nat, d2 \in Nat, d3 \in Nat, d4 \in Nat, d5 \in Nat :
        d1 = d[1] /\ d2 = d[2] /\ d3 = d[3] /\ d4 = d[4] /\ d5 = d[5]
  OBVIOUS
<1>3. T1(k) = d1
  <2>1. IF k >= 1 THEN Digit(e, 1) = d1 ELSE d1 = 0
    BY <1>2 DEF HasDigits
  <2>2. CASE k >= 1
    BY <2>1, <2>2, SMT DEF TWO24
  <2>3. CASE ~(k >= 1)
    BY <2>1, <2>3, SMT DEF TWO24
  <2>. QED BY <2>2, <2>3
<1>4. T2(k) = 256 * d2
  <2>1. IF k >= 2 THEN Digit(e, 2) = d2 ELSE d2 = 0
    BY <1>2 DEF HasDigits
  <2>2. CASE k >= 2
    BY <2>1, <2>2, SMT DEF TWO24
  <2>3. CASE ~(k >= 2)
    BY <2>1, <2>3, SMT DEF TWO24
  <2>. QED BY <2>2, <2>3
<1>5. T3(k) = 65536 * d3
  <2>1. IF k >= 3 THEN Digit(e, 3) = d3 ELSE d3 = 0
    BY <1>2 DEF HasDigits
  <2>2. CASE k >= 3
    BY <2>1, <2>2, SMT DEF TWO24
  <2>3. CASE ~(k >= 3)
    BY <2>1, <2>3, SMT DEF TWO24
  <2>. QED BY <2>2, <2>3
<1>6. T4(k) = 16777216 * d4
  <2>1. IF k >= 4 THEN Digit(e, 4) = d4 ELSE d4 = 0
    BY <1>2 DEF HasDigits
  <2>2. CASE k >= 4
    BY <2>1, <2>2, SMT DEF TWO24
  <2>3. CASE ~(k >= 4)
    BY <2>1, <2>3, SMT DEF TWO24
  <2>. QED BY <2>2, <2>3
<1>7. T5(k) = 4294967296 * d5
  <2>1. IF k >= 5 THEN Digit(e, 5) = d5 ELSE d5 = 0
    BY <1>2 DEF HasDigits
  <2>2. CASE k >= 5
    BY <2>1, <2>2, SMT DEF TWO24
  <2>3. CASE ~(k >= 5)
    BY <2>1, <2>3, SMT DEF TWO24
  <2>. QED BY <2>2, <2>3
<1> HIDE DEF T1, T2, T3, T4, T5
<1>8. abs(k) = d1 + 256 * d2 + 65536 * d3 + 16777216 * d4 + 4294967296 * d5
  BY <1>3, <1>4, <1>5, <1>6, <1>7, SMT
<1>9. SumOf(d) = d1 + 256 * (d2 + 256 * (d3 + 256 * (d4 + 256 * d5)))
  BY <1>2 DEF SumOf
<1>10. PICK t \in Nat : t = d1 + 256 * (d2 + 256 * (d3 + 256 * (d4 + 256 * d5)))
  OBVIOUS
<1>11. abs(k) = t
  <2> HIDE DEF abs
  <2>. QED BY <1>8, <1>10, SMT
<1>12. decode_num(e) = IF k > 0 /\ e[k] >= 128 THEN -t ELSE t
  <2> HIDE DEF abs
  <2>. QED BY <1>1, <1>11
<1>13. SumOf(d) = t
  BY <1>9, <1>10
<1>. QED BY <1>12, <1>13, Zenon DEF SignedBy

\* The bytes of a magnitude, and that the last of them is not zero.
LEMMA BytesOf ==
  ASSUME NEW a \in Nat, a < 65536 * 65536
  PROVE  /\ a = ByteAt(a, 1) + 256 * (ByteAt(a, 2) + 256 * (ByteAt(a, 3) + 256 * ByteAt(a, 4)))
         /\ NumBytes(a) \in 1..4
         /\ \A i \in 1..4 : ByteAt(a, i) \in 0..255 /\ (i > NumBytes(a) => ByteAt(a, i) = 0)
         /\ a > 0 => ByteAt(a, NumBytes(a)) # 0
         /\ \A m \in 1..4 : a < Bound(m) => NumBytes(a) <= m
<1>1. PICK q1 \in Nat, b1 \in 0..255 : q1 = a \div 256 /\ b1 = a % 256 /\ a = 256 * q1 + b1
  OBVIOUS
<1>15. PICK q2 \in Nat, b2 \in 0..255 :
        q2 = q1 \div 256 /\ b2 = q1 % 256 /\ q1 = 256 * q2 + b2
  OBVIOUS
<1>16. PICK q3 \in Nat, b3 \in 0..255 :
        q3 = q2 \div 256 /\ b3 = q2 % 256 /\ q2 = 256 * q3 + b3
  OBVIOUS
<1>2. q2 = a \div 65536 /\ q3 = a \div TWO24
  BY <1>1, <1>15, <1>16, SMT DEF TWO24
<1>3. q3 < 256
  BY <1>1, <1>15, <1>16
<1>4. q3 % 256 = q3
  BY <1>3
<1>5. ByteAt(a, 1) = b1 /\ ByteAt(a, 2) = b2 /\ ByteAt(a, 3) = b3 /\ ByteAt(a, 4) = q3
  <2>1. /\ ByteAt(a, 1) = a % 256 /\ ByteAt(a, 2) = (a \div 256) % 256
        /\ ByteAt(a, 3) = (a \div 65536) % 256 /\ ByteAt(a, 4) = (a \div TWO24) % 256
    BY DEF ByteAt
  <2>. QED BY <1>1, <1>15, <1>16, <1>2, <1>4, <2>1
<1>6. a = b1 + 256 * (b2 + 256 * (b3 + 256 * q3))
  BY <1>1, <1>15, <1>16
<1>7. NumBytes(a) = IF a < 256 THEN 1 ELSE IF a < 65536 THEN 2 ELSE IF a < TWO24 THEN 3 ELSE 4
  BY <1>2, <1>3 DEF NumBytes
<1>8. PICK n \in 1..4 : n = NumBytes(a)
  BY <1>7
<1>9. /\ n = 1 => a < 256
      /\ n = 2 => a >= 256 /\ a < 65536
      /\ n = 3 => a >= 65536 /\ a < TWO24
      /\ n = 4 => a >= TWO24
  BY <1>7, <1>8, SMT DEF TWO24
<1>10. /\ n < 2 => b2 = 0
       /\ n < 3 => b3 = 0
       /\ n < 4 => q3 = 0
  BY <1>6, <1>9, SMT DEF TWO24
<1>11. a > 0 => /\ n = 1 => b1 # 0
                /\ n = 2 => b2 # 0
                /\ n = 3 => b3 # 0
                /\ n = 4 => q3 # 0
  BY <1>6, <1>9, <1>10, SMT DEF TWO24
<1>12. \A i \in 1..4 : ByteAt(a, i) \in 0..255 /\ (i > n => ByteAt(a, i) = 0)
  <2> TAKE i \in 1..4
  <2>1. i = 1 \/ i = 2 \/ i = 3 \/ i = 4
    OBVIOUS
  <2>. QED BY <1>3, <1>5, <1>10, <2>1
<1>13. a > 0 => ByteAt(a, n) # 0
  BY <1>5, <1>8, <1>11
<1>14. \A m \in 1..4 : a < Bound(m) => n <= m
  BY <1>9, SMT DEF Bound, TWO24
<1>. QED BY <1>5, <1>6, <1>8, <1>12, <1>13, <1>14

\* A number of at most four bytes is written and read back as itself, in the
\* shortest way, with at most one byte more than its magnitude has.
LEMMA EncodeDecode ==
  ASSUME NEW v \in Int, NEW m \in 1..4, -Bound(m) < v, v < Bound(m)
  PROVE  /\ encode_num(v) \in Item
         /\ decode_num(encode_num(v)) = v
         /\ MinimallyEncoded(encode_num(v))
         /\ Len(encode_num(v)) <= m + 1
<1>1. encode_num(v) \in Item
  BY EncodeNumType
<1>2. CASE v = 0
  <2>1. encode_num(v) = << >>
    BY <1>2 DEF encode_num
  <2>2. Len(<< >>) = 0
    OBVIOUS
  <2>3. decode_num(<< >>) = 0 /\ MinimallyEncoded(<< >>)
    BY <2>2 DEF decode_num, MinimallyEncoded
  <2>. QED BY <1>1, <1>2, <2>1, <2>2, <2>3
<1>3. CASE v # 0
  <2>1. PICK a \in Nat : /\ a = Magnitude(v) /\ a > 0 /\ a < Bound(m) /\ a < 65536 * 65536
                         /\ v = IF v < 0 THEN -a ELSE a
    BY <1>3 DEF Magnitude, Bound
  <2>2. /\ a = ByteAt(a, 1) + 256 * (ByteAt(a, 2) + 256 * (ByteAt(a, 3) + 256 * ByteAt(a, 4)))
        /\ \A i \in 1..4 : ByteAt(a, i) \in 0..255 /\ (i > NumBytes(a) => ByteAt(a, i) = 0)
        /\ ByteAt(a, NumBytes(a)) # 0
        /\ NumBytes(a) <= m
    BY <2>1, BytesOf
  <2>3. PICK n \in 1..4 : n = NumBytes(a)
    BY <2>1, BytesOf
  <2> DEFINE d == [i \in 1..5 |-> IF i <= 4 THEN ByteAt(a, i) ELSE 0]
  <2>4. d \in [1..5 -> Nat] /\ \A i \in 1..5 : d[i] \in 0..255 /\ (i > n => d[i] = 0)
    BY <2>2, <2>3
  <2>5. /\ d[1] = ByteAt(a, 1) /\ d[2] = ByteAt(a, 2) /\ d[3] = ByteAt(a, 3)
        /\ d[4] = ByteAt(a, 4) /\ d[5] = 0
        /\ \A i \in 1..n : d[i] = ByteAt(a, i)
    OBVIOUS
  <2> HIDE DEF d
  <2>6. a = SumOf(d)
    <3>1. PICK d1 \in Nat, d2 \in Nat, d3 \in Nat, d4 \in Nat :
            d1 = d[1] /\ d2 = d[2] /\ d3 = d[3] /\ d4 = d[4]
      BY <2>4
    <3>2. a = d1 + 256 * (d2 + 256 * (d3 + 256 * d4))
      BY <2>2, <2>5, <3>1
    <3>3. d4 = d4 + 256 * 0
      OBVIOUS
    <3>. QED BY <2>5, <3>1, <3>2, <3>3 DEF SumOf
  <2>7. PICK top \in 0..255 : top = d[n] /\ top = ByteAt(a, n) /\ top # 0
    <3>1. n \in 1..5 /\ n \in 1..n
      OBVIOUS
    <3>2. ByteAt(a, n) # 0
      BY <2>2, <2>3
    <3>3. d[n] \in 0..255 /\ d[n] = ByteAt(a, n)
      BY <2>4, <2>5, <3>1
    <3>. QED BY <3>2, <3>3
  <2>8. PICK sign \in {0, 128} : sign = (IF v < 0 THEN 128 ELSE 0)
    OBVIOUS
  <2> DEFINE bytes == [i \in 1..n |-> ByteAt(a, i) + IF i = n /\ ByteAt(a, n) < 128 THEN sign ELSE 0]
             e == encode_num(v)
  <2>9. e = IF ByteAt(a, n) < 128 THEN bytes ELSE Append(bytes, sign)
    BY <1>3, <2>1, <2>3, <2>8 DEF encode_num
  <2>10. CASE top < 128
    <3>1. Len(bytes) = n /\ \A i \in 1..n : bytes[i] = d[i] + IF i = n THEN sign ELSE 0
      BY <2>5, <2>7, <2>10
    <3>2. e = bytes
      BY <2>7, <2>9, <2>10
    <3> HIDE DEF bytes, e
    <3>3. Len(e) = n /\ \A i \in 1..n : e[i] = d[i] + IF i = n THEN sign ELSE 0
      BY <3>1, <3>2
    <3>4. e[n] = top + sign
      <4>1. n \in 1..n
        OBVIOUS
      <4>2. e[n] = d[n] + sign
        BY <3>3, <4>1
      <4>. QED BY <2>7, <4>2
    <3>5. (top + sign) % 128 = top /\ (top + sign >= 128 <=> v < 0)
      BY <2>8, <2>10
    <3>6. ASSUME NEW i \in 1..5 PROVE IF n >= i THEN Digit(e, i) = d[i] ELSE d[i] = 0
      <4>1. CASE i = n
        <5>1. Digit(e, n) = (top + sign) % 128
          BY <3>3, <3>4 DEF Digit
        <5>2. Digit(e, n) = d[n]
          BY <2>7, <3>5, <5>1
        <5>. QED BY <4>1, <5>2
      <4>2. CASE i < n
        <5>1. i \in 1..n /\ i # n
          BY <4>2
        <5>2. e[i] = d[i] + 0
          BY <3>3, <5>1
        <5>3. d[i] \in Nat
          BY <2>4
        <5>4. e[i] = d[i]
          BY <5>2, <5>3
        <5>. QED BY <3>3, <4>2, <5>1, <5>4 DEF Digit
      <4>3. CASE i > n
        BY <2>4, <4>3
      <4>. QED BY <4>1, <4>2, <4>3
    <3>7. decode_num(e) = IF n > 0 /\ e[n] >= 128 THEN -a ELSE a
      <4>1. n \in 0..5 /\ n = Len(e) /\ d \in [1..5 -> Nat]
        BY <2>4, <3>3
      <4>2. HasDigits(e, n, d)
        BY <3>6 DEF HasDigits
      <4>3. decode_num(e) = SignedBy(e, n, SumOf(d))
        BY <4>1, <4>2, DecodeSum
      <4>. QED BY <2>6, <4>3, Zenon DEF SignedBy
    <3>8. decode_num(e) = v
      BY <2>1, <3>4, <3>5, <3>7
    <3>9. MinimallyEncoded(e)
      BY <2>7, <3>3, <3>4, <3>5 DEF MinimallyEncoded
    <3>10. Len(e) <= m + 1
      BY <2>2, <2>3, <3>3
    <3>. QED BY <1>1, <3>8, <3>9, <3>10 DEF e
  <2>11. CASE ~(top < 128)
    <3>1. bytes = [i \in 1..n |-> d[i]]
      <4>1. \A i \in 1..n : ByteAt(a, i) + (IF i = n /\ ByteAt(a, n) < 128 THEN sign ELSE 0) = d[i]
        <5> TAKE i \in 1..n
        <5>1. PICK x \in Nat : x = d[i] /\ x = ByteAt(a, i)
          BY <2>4, <2>5
        <5>2. ~(i = n /\ ByteAt(a, n) < 128)
          BY <2>7, <2>11
        <5>. QED BY <5>1, <5>2
      <4>. QED BY <4>1
    <3>2. bytes \in Seq(0..255) /\ Len(bytes) = n
      BY <2>4, <3>1
    <3>3. e = Append(bytes, sign)
      BY <2>7, <2>9, <2>11
    <3>4. sign \in 0..255
      BY <2>8
    <3>5. \A i \in 1..n : bytes[i] = d[i]
      BY <3>1
    <3> HIDE DEF bytes, e
    <3>6. /\ Len(e) = n + 1 /\ e[n + 1] = sign /\ \A i \in 1..n : e[i] = d[i]
      BY <3>2, <3>3, <3>4, <3>5, AppendProperties
    <3>7. sign % 128 = 0 /\ (sign >= 128 <=> v < 0)
      BY <2>8
    <3>8. ASSUME NEW i \in 1..5 PROVE IF n + 1 >= i THEN Digit(e, i) = d[i] ELSE d[i] = 0
      <4>1. CASE i = n + 1
        <5>1. d[i] = 0
          BY <2>4, <4>1
        <5>2. Digit(e, i) = sign % 128
          BY <3>6, <4>1 DEF Digit
        <5>. QED BY <3>7, <4>1, <5>1, <5>2
      <4>2. CASE i < n + 1
        <5>1. i \in 1..n /\ i # n + 1
          BY <4>2
        <5>. QED BY <3>6, <4>2, <5>1 DEF Digit
      <4>3. CASE i > n + 1
        BY <2>4, <4>3
      <4>. QED BY <4>1, <4>2, <4>3
    <3>9. PICK k \in 1..5 : k = n + 1
      OBVIOUS
    <3>10. decode_num(e) = IF k > 0 /\ e[k] >= 128 THEN -a ELSE a
      <4>1. k \in 0..5 /\ k = Len(e) /\ d \in [1..5 -> Nat]
        BY <2>4, <3>6, <3>9
      <4>2. HasDigits(e, k, d)
        BY <3>8, <3>9 DEF HasDigits
      <4>3. decode_num(e) = SignedBy(e, k, SumOf(d))
        BY <4>1, <4>2, DecodeSum
      <4>. QED BY <2>6, <4>3, Zenon DEF SignedBy
    <3>11. decode_num(e) = v
      BY <2>1, <3>6, <3>7, <3>9, <3>10
    <3>12. MinimallyEncoded(e)
      <4>1. Len(e) > 1 /\ e[Len(e) - 1] = top
        <5>1. n \in 1..n /\ n + 1 - 1 = n /\ n + 1 > 1
          OBVIOUS
        <5>2. e[n] = top
          BY <2>7, <3>6, <5>1
        <5>3. Len(e) - 1 = n /\ Len(e) > 1
          BY <3>6, <5>1
        <5>. QED BY <5>2, <5>3
      <4>. QED BY <2>11, <4>1 DEF MinimallyEncoded
    <3>13. Len(e) <= m + 1
      BY <2>2, <2>3, <3>6
    <3>. QED BY <1>1, <3>11, <3>12, <3>13 DEF e
  <2>. QED BY <2>10, <2>11
<1>. QED BY <1>2, <1>3

\* A number that was read from m bytes takes half of what m bytes hold.
LEMMA DecodeBound ==
  ASSUME NEW item \in Item, NEW m \in 1..4, Len(item) <= m
  PROVE  /\ decode_num(item) \in Int
         /\ -Bound(m) < 2 * decode_num(item) /\ 2 * decode_num(item) < Bound(m)
<1>1. PICK n \in Nat : n = Len(item)
  BY LengthType
<1>2. n \in 0..4 /\ n <= m
  BY <1>1
<1> DEFINE d == [i \in 1..5 |-> IF i <= n THEN DigitOf(item, i) ELSE 0]
<1>3. \A i \in 1..5 : d[i] \in 0..255 /\ d[i] \in Nat /\ (i = n => d[i] < 128) /\ (i > n => d[i] = 0)
  <2> TAKE i \in 1..5
  <2>1. CASE i <= n
    <3>1. i \in 1..Len(item)
      BY <1>1, <1>2, <2>1
    <3>2. PICK x \in 0..255 : x = DigitOf(item, i) /\ (i = Len(item) => x < 128)
      BY <3>1, DigitType
    <3>3. d[i] = x
      BY <2>1, <3>2
    <3> HIDE DEF d
    <3>4. x \in Nat /\ ~(i > n)
      BY <2>1
    <3>5. i = n => x < 128
      BY <1>1, <3>2, Zenon
    <3>. QED BY <3>2, <3>3, <3>4, <3>5
  <2>2. CASE ~(i <= n)
    <3>1. d[i] = 0
      BY <2>2
    <3>2. i # n /\ 0 \in 0..255 /\ 0 \in Nat
      BY <2>2
    <3> HIDE DEF d
    <3>. QED BY <3>1, <3>2, Zenon
  <2>. QED BY <2>1, <2>2
<1>4. d \in [1..5 -> Nat]
  <2>1. d = [i \in 1..5 |-> d[i]]
    OBVIOUS
  <2> HIDE DEF d
  <2>2. \A i \in 1..5 : d[i] \in Nat
    BY <1>3
  <2>. QED BY <2>1, <2>2
<1>5. HasDigits(item, n, d)
  BY <1>1 DEF Digit, DigitOf, HasDigits
<1> HIDE DEF d
<1>6. PICK d1 \in 0..255, d2 \in 0..255, d3 \in 0..255, d4 \in 0..255 :
        d1 = d[1] /\ d2 = d[2] /\ d3 = d[3] /\ d4 = d[4]
  <2>1. d[1] \in 0..255 /\ d[2] \in 0..255 /\ d[3] \in 0..255 /\ d[4] \in 0..255
    BY <1>3
  <2>. QED BY <2>1
<1>7. d[5] = 0
  BY <1>2, <1>3
<1>8. PICK s \in Nat : s = d1 + 256 * (d2 + 256 * (d3 + 256 * d4))
  OBVIOUS
<1>9. s = SumOf(d)
  <2>1. d4 = d4 + 256 * 0
    OBVIOUS
  <2>. QED BY <1>6, <1>7, <1>8, <2>1 DEF SumOf
<1>10. decode_num(item) = IF n > 0 /\ item[n] >= 128 THEN -s ELSE s
  <2>1. n \in 0..5 /\ n = Len(item)
    BY <1>1, <1>2
  <2>. QED BY <1>4, <1>5, <1>9, <2>1, DecodeSum DEF SignedBy
<1>11. 2 * s < Bound(m)
  <2>1. /\ n = 0 => s = 0
        /\ n = 1 => s < 128
        /\ n = 2 => s < 128 * 256
        /\ n = 3 => s < 128 * 65536
        /\ n = 4 => s < 128 * 65536 * 256
    <3>1. /\ n = 0 => d1 = 0 /\ d2 = 0 /\ d3 = 0 /\ d4 = 0
          /\ n = 1 => d1 < 128 /\ d2 = 0 /\ d3 = 0 /\ d4 = 0
          /\ n = 2 => d2 < 128 /\ d3 = 0 /\ d4 = 0
          /\ n = 3 => d3 < 128 /\ d4 = 0
          /\ n = 4 => d4 < 128
      BY <1>3, <1>6
    <3>. QED BY <1>8, <3>1
  <2>. QED BY <1>2, <2>1 DEF Bound
<1>12. PICK w \in Nat : w = Bound(m)
  BY DEF Bound
<1>13. decode_num(item) = s \/ decode_num(item) = -s
  BY <1>10
<1>. QED BY <1>11, <1>12, <1>13

------------------------------------------------------------------------------
(* Arithmetic.                                                             *)

\* The operations whose result is told by its operands.
ExactOps == {OP_ADD, OP_SUB, OP_MIN, OP_MAX, OP_LESSTHAN, OP_GREATERTHANOREQUAL}

\* They are told apart, and take two operands.
LEMMA ExactAreBinary ==
  /\ \A op \in ExactOps :
       op \in BINARY_NUMERIC /\ op # OP_NUMEQUALVERIFY /\ Arity(op) = 2 /\ NumOperands(op) = 2
  /\ OP_ADD # OP_SUB /\ OP_ADD # OP_MIN /\ OP_ADD # OP_MAX /\ OP_ADD # OP_LESSTHAN
  /\ OP_ADD # OP_GREATERTHANOREQUAL /\ OP_SUB # OP_MIN /\ OP_SUB # OP_MAX
  /\ OP_SUB # OP_LESSTHAN /\ OP_SUB # OP_GREATERTHANOREQUAL /\ OP_MIN # OP_MAX
  /\ OP_MIN # OP_LESSTHAN /\ OP_MIN # OP_GREATERTHANOREQUAL /\ OP_MAX # OP_LESSTHAN
  /\ OP_MAX # OP_GREATERTHANOREQUAL /\ OP_LESSTHAN # OP_GREATERTHANOREQUAL
<1>1. \A op \in ExactOps : op \in BINARY_NUMERIC /\ op # OP_NUMEQUALVERIFY
  BY DEF ExactOps, BINARY_NUMERIC, OP_ADD, OP_SUB, OP_MIN, OP_MAX, OP_LESSTHAN,
         OP_GREATERTHANOREQUAL, OP_NUMEQUALVERIFY
<1>2. /\ OP_ADD # OP_SUB /\ OP_ADD # OP_MIN /\ OP_ADD # OP_MAX /\ OP_ADD # OP_LESSTHAN
      /\ OP_ADD # OP_GREATERTHANOREQUAL /\ OP_SUB # OP_MIN /\ OP_SUB # OP_MAX
      /\ OP_SUB # OP_LESSTHAN /\ OP_SUB # OP_GREATERTHANOREQUAL /\ OP_MIN # OP_MAX
      /\ OP_MIN # OP_LESSTHAN /\ OP_MIN # OP_GREATERTHANOREQUAL /\ OP_MAX # OP_LESSTHAN
      /\ OP_MAX # OP_GREATERTHANOREQUAL /\ OP_LESSTHAN # OP_GREATERTHANOREQUAL
  BY DEF OP_ADD, OP_SUB, OP_MIN, OP_MAX, OP_LESSTHAN, OP_GREATERTHANOREQUAL
<1>3. \A op \in ExactOps : Arity(op) = 2 /\ NumOperands(op) = 2
  BY <1>1, ArityType
<1>. QED BY <1>1, <1>2, <1>3

\* What a step that did arithmetic tells.
BinaryTells(i) ==
  Passed(i) /\ Ops[i].opcode \in ExactOps =>
    LET b == FromTop(Before(i), 1)
        a == FromTop(Before(i), 2)
    IN  /\ a \in Item /\ Len(a) <= MAX_NUM_SIZE /\ b \in Item /\ Len(b) <= MAX_NUM_SIZE
        /\ FromTop(steps[i].stack, 1) =
             encode_num(Binary(Ops[i].opcode, decode_num(a), decode_num(b)))

\* Every step keeps what the trace tells of the arithmetic done so far.
LEMMA StepBinary ==
  ASSUME Between, \A i \in OpSteps : BinaryTells(i), [Next]_vars
  PROVE  \A i \in OpSteps' : BinaryTells(i)'
<1>0. TraceInv /\ HistoryInv /\ LoopInTurn /\ TypeInv /\ pc \in Nat
  BY DEF Between, MachineInv, TraceInv
<1> SUFFICES ASSUME NEW i \in OpSteps' PROVE BinaryTells(i)'
  OBVIOUS
<1>1. CASE i \in OpSteps
  <2>1. /\ Passed(i)' = Passed(i) /\ Before(i)' = Before(i) /\ steps'[i] = steps[i]
        /\ Ops'[i] = Ops[i]
    BY <1>0, <1>1, OldStep
  <2>. QED BY <1>1, <2>1 DEF BinaryTells
<1>2. CASE Recorded /\ i = pc + 1
  <2>1. /\ Passed(i)' <=> Succeeded /\ Executing
        /\ Before(i)' = stack /\ Ops'[i].opcode = Op /\ steps'[i].stack = stack'
    BY <1>0, <1>2, NewStep
  <2> SUFFICES ASSUME Succeeded, Executing, Op \in ExactOps PROVE BinaryTells(i)'
    BY <2>1 DEF BinaryTells
  <2>2. /\ Op \in BINARY_NUMERIC /\ Op # OP_NUMEQUALVERIFY
        /\ Arity(Op) = 2 /\ NumOperands(Op) = 2
    BY ExactAreBinary
  <2>3. OpBinary
    BY <1>0, <2>2, TellingActions
  <2>4. Has(2) /\ IsNum(Top(1)) /\ IsNum(Top(2))
    BY <2>2, <2>3 DEF OpBinary, Runs, NumbersOK
  <2>5. PICK a, b : a = Top(2) /\ b = Top(1)
    OBVIOUS
  <2>6. /\ a \in Item /\ Len(a) <= MAX_NUM_SIZE /\ b \in Item /\ Len(b) <= MAX_NUM_SIZE
        /\ Drop(2) \in Seq(Item)
    BY <1>0, <2>4, <2>5, TakenType DEF IsNum, Decodable
  <2>7. PICK e : e = encode_num(Binary(Op, decode_num(a), decode_num(b)))
    OBVIOUS
  <2>8. Leave(Append(Drop(2), e))
    BY <2>2, <2>3, <2>5, <2>7 DEF OpBinary
  <2>9. e \in Item
    BY <2>2, <2>6, <2>7, DecodeNumType, BinaryType, EncodeNumType
  <2>10. stack' = Append(Drop(2), e)
    BY <2>8 DEF Leave, Plain, Finish
  <2>11. FromTop(stack', 1) = e
    <3>1. PICK s \in Seq(Item) : s = Drop(2)
      BY <2>6
    <3>2. Len(Append(s, e)) = Len(s) + 1 /\ Append(s, e)[Len(s) + 1] = e
      BY <2>9, AppendProperties
    <3>3. PICK n \in Nat : n = Len(s)
      BY <3>1, LenProperties
    <3>4. Len(Append(s, e)) + 1 - 1 = Len(s) + 1
      BY <3>2, <3>3
    <3>. QED BY <2>10, <3>1, <3>2, <3>4 DEF FromTop
  <2>12. FromTop(Before(i), 1)' = b /\ FromTop(Before(i), 2)' = a
    BY <2>1, <2>5 DEF Top, FromTop
  <2>13. FromTop(steps[i].stack, 1)' = e
    BY <2>1, <2>11 DEF FromTop
  <2>14. (Ops[i].opcode)' = Op
    BY <2>1
  <2>. QED BY <2>6, <2>7, <2>12, <2>13, <2>14 DEF BinaryTells
<1>. QED BY <1>0, <1>1, <1>2, OldOrNew

\* What each of the operations makes of two numbers, and what that says of them.
LEMMA BinaryForms ==
  ASSUME NEW a \in Int, NEW b \in Int
  PROVE  /\ Binary(OP_ADD, a, b) = a + b /\ Binary(OP_SUB, a, b) = a - b
         /\ Binary(OP_MIN, a, b) = (IF a < b THEN a ELSE b)
         /\ Binary(OP_MAX, a, b) = (IF a > b THEN a ELSE b)
         /\ Binary(OP_LESSTHAN, a, b) = (IF a < b THEN 1 ELSE 0)
         /\ Binary(OP_GREATERTHANOREQUAL, a, b) = (IF a >= b THEN 1 ELSE 0)
BY DEF Binary, Int01, OP_ADD, OP_SUB, OP_BOOLAND, OP_BOOLOR, OP_NUMEQUAL, OP_NUMNOTEQUAL, OP_LESSTHAN,
       OP_GREATERTHAN, OP_LESSTHANOREQUAL, OP_GREATERTHANOREQUAL, OP_MIN, OP_MAX

\* What the result r says of the operands.
Exact(op, r, a, b) ==
  /\ op = OP_ADD => r - b = a
  /\ op = OP_SUB => r + b = a
  /\ op = OP_MIN => r \in {a, b} /\ r <= a /\ r <= b
  /\ op = OP_MAX => r \in {a, b} /\ r >= a /\ r >= b
  /\ op = OP_LESSTHAN => (r = 1 <=> a < b) /\ r \in {0, 1}
  /\ op = OP_GREATERTHANOREQUAL => (r = 0 <=> a < b) /\ r \in {0, 1}

\* Operands that take half of what w allows make a result within w, which says
\* exactly what was done.
LEMMA ExactResults ==
  ASSUME NEW op \in ExactOps, NEW a \in Int, NEW b \in Int, NEW w \in Nat, w >= 256,
         -w < 2 * a, 2 * a < w, -w < 2 * b, 2 * b < w
  PROVE  \E r \in Int : r = Binary(op, a, b) /\ -w < r /\ r < w /\ Exact(op, r, a, b)
<1>1. CASE op = OP_ADD
  <2>1. PICK r \in Int : r = a + b /\ -w < r /\ r < w
    OBVIOUS
  <2>2. r = Binary(op, a, b)
    BY <1>1, <2>1, BinaryForms
  <2>3. Exact(op, r, a, b)
    BY <1>1, <2>1, ExactAreBinary DEF Exact
  <2>. QED BY <2>1, <2>2, <2>3
<1>2. CASE op = OP_SUB
  <2>1. PICK r \in Int : r = a - b /\ -w < r /\ r < w
    OBVIOUS
  <2>2. r = Binary(op, a, b)
    BY <1>2, <2>1, BinaryForms
  <2>3. Exact(op, r, a, b)
    BY <1>2, <2>1, ExactAreBinary DEF Exact
  <2>. QED BY <2>1, <2>2, <2>3
<1>3. CASE op = OP_MIN
  <2>1. PICK r \in Int : r = (IF a < b THEN a ELSE b) /\ -w < r /\ r < w
    OBVIOUS
  <2>2. r = Binary(op, a, b)
    BY <1>3, <2>1, BinaryForms
  <2>3. Exact(op, r, a, b)
    BY <1>3, <2>1, ExactAreBinary DEF Exact
  <2>. QED BY <2>1, <2>2, <2>3
<1>4. CASE op = OP_MAX
  <2>1. PICK r \in Int : r = (IF a > b THEN a ELSE b) /\ -w < r /\ r < w
    OBVIOUS
  <2>2. r = Binary(op, a, b)
    BY <1>4, <2>1, BinaryForms
  <2>3. Exact(op, r, a, b)
    BY <1>4, <2>1, ExactAreBinary DEF Exact
  <2>. QED BY <2>1, <2>2, <2>3
<1>5. CASE op = OP_LESSTHAN
  <2>1. PICK r \in Int : r = (IF a < b THEN 1 ELSE 0) /\ -w < r /\ r < w
    OBVIOUS
  <2>2. r = Binary(op, a, b)
    BY <1>5, <2>1, BinaryForms
  <2>3. Exact(op, r, a, b)
    BY <1>5, <2>1, ExactAreBinary DEF Exact
  <2>. QED BY <2>1, <2>2, <2>3
<1>6. CASE op = OP_GREATERTHANOREQUAL
  <2>1. PICK r \in Int : r = (IF a >= b THEN 1 ELSE 0) /\ -w < r /\ r < w
    OBVIOUS
  <2>2. r = Binary(op, a, b)
    BY <1>6, <2>1, BinaryForms
  <2>3. Exact(op, r, a, b)
    BY <1>6, <2>1, ExactAreBinary DEF Exact
  <2>. QED BY <2>1, <2>2, <2>3
<1>. QED BY <1>1, <1>2, <1>3, <1>4, <1>5, <1>6 DEF ExactOps

\* Arithmetic is exact for every pair of operands that the size limit admits,
\* whether or not the result still fits it, and results are minimally encoded.
THEOREM ArithmeticIsExact ==
  ASSUME DigestsAreItems
  PROVE  Spec => []ArithmeticExact
<1> DEFINE Inv == \A i \in OpSteps : BinaryTells(i)
<1>1. Init => Inv
  BY DEF Init, Begin, OpSteps
<1>2. Between /\ Inv /\ [Next]_vars => Inv'
  BY StepBinary
<1>3. Between /\ [Next]_vars => Between'
  BY StepBetween
<1>4. ASSUME Inv PROVE ArithmeticExact
  <2> SUFFICES ASSUME NEW i \in OpSteps, Passed(i), NEW op \in ExactOps, op = Ops[i].opcode,
                      NEW x, x = FromTop(Before(i), 2), NEW y, y = FromTop(Before(i), 1),
                      NEW item, item = FromTop(steps[i].stack, 1),
                      NEW a, a = Value(x), NEW b, b = Value(y), NEW r, r = Value(item)
               PROVE  /\ \A k \in 1..2 : Len(FromTop(Before(i), k)) <= MAX_NUM_SIZE
                      /\ MinimallyEncoded(item) /\ Len(item) <= MAX_NUM_SIZE + 1
                      /\ Exact(op, r, a, b)
    BY DEF ArithmeticExact, ExactOps, Exact
  <2>1. /\ x \in Item /\ Len(x) <= MAX_NUM_SIZE /\ y \in Item /\ Len(y) <= MAX_NUM_SIZE
        /\ item = encode_num(Binary(op, decode_num(x), decode_num(y)))
    BY <1>4 DEF BinaryTells
  <2>2. PICK m \in 1..4 : m = MAX_NUM_SIZE
    BY LimitsAssumption
  <2>3. Value(x) = decode_num(x) /\ Value(y) = decode_num(y)
    <3>1. PICK j \in Nat, k \in Nat : j = Len(x) /\ k = Len(y)
      BY <2>1, LengthType
    <3>2. Len(x) <= 5 /\ Len(y) <= 5
      BY <2>1, <2>2, <3>1
    <3>. QED BY <2>1, <3>2, ValueIs
  <2>4. PICK w \in Nat : w = Bound(m) /\ w >= 256
    BY DEF Bound
  <2>5. /\ a \in Int /\ -w < 2 * a /\ 2 * a < w
        /\ b \in Int /\ -w < 2 * b /\ 2 * b < w
    BY <2>1, <2>2, <2>3, <2>4, DecodeBound
  <2>6. PICK s \in Int : s = Binary(op, a, b) /\ -w < s /\ s < w /\ Exact(op, s, a, b)
    BY <2>4, <2>5, ExactResults
  <2>8. item = encode_num(s)
    BY <2>1, <2>3, <2>6
  <2>9. /\ item \in Item /\ decode_num(item) = s /\ MinimallyEncoded(item)
        /\ Len(item) <= m + 1
    BY <2>4, <2>6, <2>8, EncodeDecode
  <2>10. r = s
    <3>1. PICK k \in Nat : k = Len(item)
      BY <2>9, LengthType
    <3>2. Len(item) <= 5
      BY <2>9, <3>1
    <3>. QED BY <2>9, <3>2, ValueIs
  <2>11. \A k \in 1..2 : Len(FromTop(Before(i), k)) <= MAX_NUM_SIZE
    <3>1. \A k \in 1..2 : k = 1 \/ k = 2
      OBVIOUS
    <3>. QED BY <2>1, <3>1, Zenon
  <2>. QED BY <2>2, <2>6, <2>9, <2>10, <2>11
<1>. QED BY <1>1, <1>2, <1>3, <1>4, InitBetween, PTL DEF Spec
==============================================================================
