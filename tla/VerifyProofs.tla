---------------------------- MODULE VerifyProofs ----------------------------
(***************************************************************************)
(* Proofs about the verification of a spend, for every spend, set of flags *)
(* and number of calls: the verdict is that of the scripts that were run,  *)
(* an accepted spend shows what its output commits to, nothing in an       *)
(* accepted scriptSig or witness is free to change, and each script runs on*)
(* the stack that the one before it handed over.                           *)
(***************************************************************************)
EXTENDS ScriptProofs

\* No signature verifies under the key of zeros, which is no point of the curve.
ZeroKeyUnusable == \A sig, key : VerifyKeyPath(sig, key) => cast_to_bool(key)

IsRun(r) ==
  r = [role |-> r.role, script |-> r.script, initial |-> r.initial, final |-> r.final,
       steps |-> r.steps, error |-> r.error]

\* The runs are those of the scriptSig, of the scriptPubKey and of at most one
\* script after them.
RunList ==
  /\ \E S : runs \in Seq(S)
  /\ \A i \in 1..Len(runs) : IsRun(runs[i])

RunsByPhase ==
  /\ phase = "begin" => Len(runs) = 0
  /\ phase = "scriptSig" => Len(runs) = 1
  /\ phase \in {"scriptPubKey", "program"} => Len(runs) = 2
  /\ phase \in {"redeemScript", "witnessScript", "tapscript"} => Len(runs) = 3
  /\ phase = "program" => runs[2].role = "scriptPubKey"

\* The run being evaluated agrees with the machine.
CurrentRun ==
  phase \in Role =>
    /\ runs[Len(runs)].role = phase
    /\ runs[Len(runs)].error = error
    /\ runs[Len(runs)].final = finalStack

\* A run that is over has no error, and left true unless it is the scriptSig's.
Fine(i) == runs[i].error = "OK" /\ (i >= 2 => LeavesTrue(runs[i].final))

PastRuns ==
  /\ phase = "program" => \A i \in 1..Len(runs) : Fine(i)
  /\ phase \in Role => \A i \in 1..(Len(runs) - 1) : Fine(i)

\* Nothing is being evaluated before and after the evaluations.
Idle == status = "running" => phase \in Role \cup {"escaped"}

RunsInv ==
  Outcome /\ Idle /\ RunList /\ RunsByPhase /\ CurrentRun /\ PastRuns

VerifyInv == RunsInv /\ VerdictFollowsRuns
------------------------------------------------------------------------------
(* The list of runs.                                                       *)

LEMMA RunsAppend ==
  ASSUME RunList, NEW r, IsRun(r), runs' = Append(runs, r)
  PROVE  /\ RunList'
         /\ Len(runs) \in Nat /\ Len(runs') = Len(runs) + 1
         /\ \A i \in 1..Len(runs) : runs'[i] = runs[i]
         /\ runs'[Len(runs) + 1] = r
<1>1. PICK S : runs \in Seq(S)
  BY DEF RunList
<1>2. /\ \E T : runs' \in Seq(T)
      /\ Len(runs) \in Nat /\ Len(runs') = Len(runs) + 1
      /\ \A i \in 1..Len(runs) : runs'[i] = runs[i]
      /\ runs'[Len(runs) + 1] = r
  <2>1. /\ \E T : Append(runs, r) \in Seq(T)
        /\ Len(runs) \in Nat /\ Len(Append(runs, r)) = Len(runs) + 1
        /\ \A i \in 1..Len(runs) : Append(runs, r)[i] = runs[i]
        /\ Append(runs, r)[Len(runs) + 1] = r
    BY <1>1, AppendOne
  <2>. QED BY <2>1, Zenon
<1>3. \A i \in 1..Len(runs') : i \in 1..Len(runs) \/ i = Len(runs) + 1
  BY <1>2
<1>. QED BY <1>2, <1>3, Zenon DEF RunList, IsRun

Run(a, b, c, d, e, f) ==
  [role |-> a, script |-> b, initial |-> c, final |-> d, steps |-> e, error |-> f]

LEMMA RunsFilled ==
  ASSUME RunList, Len(runs) # 0,
         NEW st, NEW fin, NEW err,
         runs' = [runs EXCEPT ![Len(runs)].steps = st, ![Len(runs)].final = fin,
                              ![Len(runs)].error = err]
  PROVE  /\ RunList'
         /\ Len(runs) \in Nat \ {0} /\ Len(runs') = Len(runs)
         /\ \A i \in 1..(Len(runs) - 1) : runs'[i] = runs[i]
         /\ runs'[Len(runs)].role = runs[Len(runs)].role
         /\ runs'[Len(runs)].script = runs[Len(runs)].script
         /\ runs'[Len(runs)].initial = runs[Len(runs)].initial
         /\ runs'[Len(runs)].final = fin
         /\ runs'[Len(runs)].error = err
<1>1. PICK S : runs \in Seq(S)
  BY DEF RunList
<1> DEFINE n == Len(runs)
<1>2. n \in Nat \ {0} /\ n \in 1..n /\ DOMAIN runs = 1..n
  BY <1>1, LenProperties
<1>3. IsRun(runs[n])
  BY <1>2 DEF RunList
<1>4a. PICK q : q = runs[n]
  OBVIOUS
<1>4b. PICK r : r = [q EXCEPT !.steps = st, !.final = fin, !.error = err]
  OBVIOUS
\* One field at a time.
<1>4. /\ IsRun(r) /\ r.role = runs[n].role /\ r.script = runs[n].script
      /\ r.initial = runs[n].initial /\ r.final = fin /\ r.error = err
  <2>1. PICK a, b, c, d, e, f : q = Run(a, b, c, d, e, f)
    BY <1>3, <1>4a DEF IsRun, Run
  <2>2. PICK q1 : q1 = [q EXCEPT !.steps = st]
    OBVIOUS
  <2>3. PICK q2 : q2 = [q1 EXCEPT !.final = fin]
    OBVIOUS
  <2>4. r = [q2 EXCEPT !.error = err]
    BY <1>4b, <2>2, <2>3
  <2>5. q1 = Run(a, b, c, d, st, f)
    BY <2>1, <2>2 DEF Run
  <2>6. q2 = Run(a, b, c, fin, st, f)
    BY <2>3, <2>5 DEF Run
  <2>7. r = Run(a, b, c, fin, st, err)
    BY <2>4, <2>6 DEF Run
  <2>. QED BY <1>4a, <2>1, <2>7 DEF IsRun, Run
<1>5. runs' = [runs EXCEPT ![n] = r]
  BY <1>1, <1>2, <1>4a, <1>4b, LenProperties
<1>6. runs \in Seq(S \cup {r}) /\ r \in S \cup {r}
  BY <1>1, SeqMonotonic
<1>7. /\ runs' \in Seq(S \cup {r}) /\ Len(runs') = n
      /\ \A j \in 1..n : runs'[j] = IF j = n THEN r ELSE runs[j]
  <2>1. /\ [runs EXCEPT ![n] = r] \in Seq(S \cup {r})
        /\ Len([runs EXCEPT ![n] = r]) = Len(runs)
        /\ \A j \in 1..Len(runs) : [runs EXCEPT ![n] = r][j] = IF j = n THEN r ELSE runs[j]
    BY <1>2, <1>6, ExceptSeq
  <2>. QED BY <1>5, <2>1, Zenon
<1>8. \A j \in 1..(n - 1) : j \in 1..n /\ j # n
  BY <1>2
<1>9. \A j \in 1..n : IsRun(runs'[j])
  BY <1>4, <1>7 DEF RunList
<1>10. RunList'
  BY <1>7, <1>9, Zenon DEF RunList, IsRun
<1>. QED BY <1>2, <1>4, <1>7, <1>8, <1>10

LEMMA RunsLength ==
  ASSUME RunList
  PROVE  Len(runs) \in Nat /\ DOMAIN runs = 1..Len(runs)
<1>1. PICK S : runs \in Seq(S)
  BY DEF RunList
<1>. QED BY <1>1, LenProperties
------------------------------------------------------------------------------
(* Beginning, running and ending an evaluation.                            *)

\* The next script is entered once those before it are fine.
LEMMA EnterStep ==
  ASSUME RunsInv, NEW role \in Role, NEW script, NEW s, NEW version, NEW budget,
         Enter(role, script, s, version, budget),
         Len(runs) = (CASE role = "scriptSig" -> 0 [] role = "scriptPubKey" -> 1 [] OTHER -> 2),
         \A i \in 1..Len(runs) : Fine(i)
  PROVE  VerifyInv'
<1> DEFINE r == [role |-> role, script |-> script, initial |-> s,
                 final |-> << >>, steps |-> 0, error |-> "OK"]
<1>1. runs' = Append(runs, r) /\ phase' = role
  BY DEF Enter
<1>2. IsRun(r) /\ r.role = role /\ r.final = << >> /\ r.error = "OK"
  BY DEF IsRun
<1> HIDE DEF r
<1>3. /\ RunList'
      /\ Len(runs) \in Nat /\ Len(runs') = Len(runs) + 1
      /\ \A i \in 1..Len(runs) : runs'[i] = runs[i]
      /\ runs'[Len(runs) + 1] = r
  BY <1>1, <1>2, RunsAppend DEF RunsInv
<1>4. status' = "start" /\ error' = "OK" /\ finalStack' = << >> /\ loopPhase' = "idle"
  BY DEF Enter
<1>5. Outcome' /\ Idle'
  BY <1>4 DEF Outcome, LoopInTurn, Idle
<1>6. RunsByPhase'
  BY <1>1, <1>3 DEF RunsByPhase, Role
<1>7. CurrentRun'
  BY <1>1, <1>2, <1>3, <1>4 DEF CurrentRun
<1>8. PastRuns'
  <2>1. phase' # "program" /\ Len(runs') - 1 = Len(runs)
    BY <1>1, <1>3 DEF Role
  <2>. QED BY <1>3, <2>1 DEF PastRuns, Fine
<1>9. VerdictFollowsRuns'
  BY <1>1 DEF VerdictFollowsRuns, Role
<1>. QED BY <1>3, <1>5, <1>6, <1>7, <1>8, <1>9 DEF VerifyInv, RunsInv

LEMMA EvaluateStep ==
  ASSUME RunsInv, Evaluate
  PROVE  VerifyInv'
<1>1. phase \in Role /\ phase' = phase
  BY DEF Evaluate
<1>2. Len(runs) # 0
  BY <1>1 DEF RunsInv, RunsByPhase, Role
<1>3. /\ RunList'
      /\ Len(runs) \in Nat \ {0} /\ Len(runs') = Len(runs)
      /\ \A i \in 1..(Len(runs) - 1) : runs'[i] = runs[i]
      /\ runs'[Len(runs)].role = runs[Len(runs)].role
      /\ runs'[Len(runs)].final = finalStack'
      /\ runs'[Len(runs)].error = error'
  BY <1>2, RunsFilled DEF Evaluate, RunsInv
<1>4. Outcome' /\ Idle'
  BY <1>1, StepOutcome DEF Evaluate, RunsInv, Idle
<1>5. RunsByPhase'
  BY <1>1, <1>3 DEF RunsInv, RunsByPhase, Role
<1>6. CurrentRun'
  BY <1>1, <1>3 DEF RunsInv, CurrentRun
<1>7. PastRuns'
  BY <1>1, <1>3 DEF RunsInv, PastRuns, Fine, Role
<1>8. VerdictFollowsRuns'
  BY <1>1 DEF VerdictFollowsRuns, Role
<1>. QED BY <1>3, <1>4, <1>5, <1>6, <1>7, <1>8 DEF VerifyInv, RunsInv

\* What an acceptance promises of the runs it lists.
Justified ==
  /\ \A i \in 2..Len(runs) : LeavesTrue(runs[i].final)
  /\ runs[Len(runs)].role \in {"witnessScript", "tapscript"} => Len(runs[Len(runs)].final) = 1
  /\ /\ Flag("CLEANSTACK") /\ runs[Len(runs)].role \in {"scriptPubKey", "redeemScript"}
     /\ program = NoProgram
     => Len(runs[Len(runs)].final) = 1

LEMMA EndRuns ==
  ASSUME RunsInv, NEW err, End(err), status # "running", RunList'
  PROVE  RunsInv'
<1>1. /\ phase' = "done"
      /\ UNCHANGED <<input, status, error, stack, finalStack, loopPhase, pc>>
  BY DEF End, vars, evalVars, runVars, multisigVars
<1>2. Outcome' /\ Idle'
  BY <1>1 DEF RunsInv, Outcome, LoopInTurn, InTurn, Executing, Op, Ops, Idle
<1>3. RunsByPhase' /\ CurrentRun' /\ PastRuns'
  BY <1>1 DEF RunsByPhase, CurrentRun, PastRuns, Role
<1>. QED BY <1>2, <1>3 DEF RunsInv

LEMMA EndStep ==
  ASSUME RunsInv, NEW err, End(err), status # "running", RunList',
         \A i \in 1..Len(runs') :
           runs'[i].error # "OK" => i = Len(runs') /\ err = runs'[i].error,
         err = "OK" => Justified'
  PROVE  VerifyInv'
<1>1. phase' = "done" /\ verdict' = err
  BY DEF End
<1>2. PICK S : runs' \in Seq(S)
  BY DEF RunList
<1>3. DOMAIN (runs') = 1..Len(runs')
  BY <1>2, LenProperties
<1>4. VerdictFollowsRuns'
  BY <1>1, <1>3 DEF VerdictFollowsRuns, Justified, LastRun, Last
<1>. QED BY <1>4, EndRuns DEF VerifyInv

\* The trace lists the runs there were.
LEMMA EndSame ==
  ASSUME RunsInv, NEW err, End(err), runs' = runs, status # "running",
         \A i \in 1..Len(runs) : runs[i].error # "OK" => i = Len(runs) /\ err = runs[i].error,
         err = "OK" => Justified
  PROVE  VerifyInv'
<1>1. RunList'
  BY Zenon DEF RunsInv, RunList
<1>2. program' = program /\ input' = input
  BY DEF End, vars, evalVars, runVars
<1>3. err = "OK" => Justified'
  BY <1>2 DEF Justified, Flag
<1>. QED BY <1>1, <1>3, EndStep

\* A refusal before or between evaluations, which all were fine.
LEMMA RefuseStep ==
  ASSUME RunsInv, NEW err, End(err), runs' = runs, err # "OK", status # "running",
         \A i \in 1..Len(runs) : Fine(i)
  PROVE  VerifyInv'
BY EndSame DEF Fine

LEMMA EscapeStep ==
  ASSUME RunsInv, NEW kind, EscapeAs(kind)
  PROVE  VerifyInv'
<1>1. /\ phase' = "escaped" /\ runs' = runs /\ input' = input
      /\ UNCHANGED <<status, error, stack, finalStack, loopPhase, loopError, pc, execStack>>
  BY DEF EscapeAs, vars, evalVars, runVars, multisigVars
<1>2. Outcome' /\ Idle'
  BY <1>1 DEF RunsInv, Outcome, LoopInTurn, InTurn, Executing, Op, Ops, Idle
<1>3. RunList'
  BY <1>1, Zenon DEF RunsInv, RunList
<1>4. RunsByPhase' /\ CurrentRun' /\ PastRuns' /\ VerdictFollowsRuns'
  BY <1>1 DEF RunsByPhase, CurrentRun, PastRuns, VerdictFollowsRuns, Role
<1>. QED BY <1>2, <1>3, <1>4 DEF VerifyInv, RunsInv

\* A script that returned true is as fine as those before it.
LEMMA ReturnedFine ==
  ASSUME RunsInv, NEW role \in Role, Returned(role)
  PROVE  /\ phase = role /\ Len(runs) \in 1..3
         /\ runs[Len(runs)].role = role
         /\ runs[Len(runs)].error = "OK" /\ runs[Len(runs)].final = stack
         /\ role = "scriptSig" \/ LeavesTrue(stack) => \A i \in 1..Len(runs) : Fine(i)
         /\ \A i \in 1..Len(runs) : runs[i].error = "OK"
<1>1. phase = role /\ status = "returned"
  BY DEF Returned
<1>2. Len(runs) \in 1..3 /\ (role = "scriptSig" => Len(runs) = 1)
  BY <1>1 DEF RunsInv, RunsByPhase, Role
<1>3. /\ runs[Len(runs)].role = role
      /\ runs[Len(runs)].error = "OK" /\ runs[Len(runs)].final = stack
  BY <1>1 DEF RunsInv, Outcome, CurrentRun
<1>4. \A i \in 1..Len(runs) : i \in 1..(Len(runs) - 1) \/ i = Len(runs)
  BY <1>2
<1>5. \A i \in 1..(Len(runs) - 1) : Fine(i)
  BY <1>1 DEF RunsInv, PastRuns
<1>6. role = "scriptSig" \/ LeavesTrue(stack) => \A i \in 1..Len(runs) : Fine(i)
  BY <1>2, <1>3, <1>4, <1>5 DEF Fine
<1>7. \A i \in 1..Len(runs) : runs[i].error = "OK"
  BY <1>3, <1>4, <1>5 DEF Fine
<1>. QED BY <1>1, <1>2, <1>3, <1>6, <1>7
------------------------------------------------------------------------------
(* The actions of verify.                                                  *)

LEMMA BeginVerifyStep ==
  ASSUME RunsInv, BeginVerify
  PROVE  VerifyInv'
<1>1. phase = "begin" /\ Len(runs) = 0 /\ status # "running"
  BY DEF BeginVerify, RunsInv, RunsByPhase, Idle, Role
<1>2. \A i \in 1..Len(runs) : Fine(i)
  BY <1>1
<1>3. CASE EndPlain("SIG_PUSHONLY")
  BY <1>1, <1>2, <1>3, RefuseStep DEF EndPlain, traceVars
<1>4. CASE Enter("scriptSig", spend.scriptSig, << >>, "BASE", 0)
  <2>1. "scriptSig" \in Role
    BY DEF Role
  <2>. QED BY <1>1, <1>2, <1>4, <2>1, EnterStep
<1>. QED BY <1>3, <1>4 DEF BeginVerify

LEMMA EvalScriptPubKeyStep ==
  ASSUME RunsInv, EvalScriptPubKey
  PROVE  VerifyInv'
<1>1. "scriptSig" \in Role /\ "scriptPubKey" \in Role
  BY DEF Role
<1>2. Returned("scriptSig")
      /\ Enter("scriptPubKey", spend.scriptPubKey, stack, "BASE", 0)
  BY DEF EvalScriptPubKey
<1>3. Len(runs) = 1
  BY <1>2 DEF Returned, RunsInv, RunsByPhase
<1>4. \A i \in 1..Len(runs) : Fine(i)
  BY <1>1, <1>2, ReturnedFine
<1>. QED BY <1>1, <1>2, <1>3, <1>4, EnterStep

LEMMA EvalRaisedStep ==
  ASSUME RunsInv, EvalRaised
  PROVE  VerifyInv'
<1>1. phase \in Role /\ status = "raised" /\ error # "OK"
      /\ End(error) /\ runs' = runs
  BY DEF EvalRaised, EndPlain, traceVars, RunsInv, Outcome
<1>2. Len(runs) \in 1..3 /\ runs[Len(runs)].error = error
  BY <1>1 DEF RunsInv, RunsByPhase, CurrentRun, Role
<1>3. \A i \in 1..(Len(runs) - 1) : Fine(i)
  BY <1>1 DEF RunsInv, PastRuns
<1>4. \A i \in 1..Len(runs) : runs[i].error # "OK" => i = Len(runs) /\ error = runs[i].error
  <2>1. \A i \in 1..Len(runs) : i \in 1..(Len(runs) - 1) \/ i = Len(runs)
    BY <1>2
  <2>. QED BY <1>2, <1>3, <2>1 DEF Fine
<1>. QED BY <1>1, <1>4, EndSame

LEMMA EvalFalseStep ==
  ASSUME RunsInv, EvalFalse
  PROVE  VerifyInv'
<1>1. PICK role \in {"scriptPubKey", "redeemScript"} : Returned(role)
  BY DEF EvalFalse
<1>2. role \in Role
  BY DEF Role
<1>3. \A i \in 1..Len(runs) : runs[i].error = "OK"
  BY <1>1, <1>2, ReturnedFine
<1>4. status # "running" /\ End("EVAL_FALSE") /\ runs' = runs
  BY <1>1 DEF Returned, EvalFalse, EndPlain, traceVars
<1>. QED BY <1>3, <1>4, EndSame

\* What is known once the scriptPubKey passed.
LEMMA PubKeyFine ==
  ASSUME RunsInv, PubKeyPassed
  PROVE  /\ Len(runs) = 2 /\ runs[2].role = "scriptPubKey" /\ runs[2].final = stack
         /\ status # "running"
         /\ \A i \in 1..Len(runs) : Fine(i)
<1>1. "scriptPubKey" \in Role /\ Returned("scriptPubKey") /\ LeavesTrue(stack)
  BY DEF Role, PubKeyPassed
<1>2. Len(runs) = 2 /\ status # "running"
  BY <1>1 DEF Returned, RunsInv, RunsByPhase
<1>3. \A i \in 1..Len(runs) : Fine(i)
  BY <1>1, ReturnedFine
<1>4. runs[Len(runs)].role = "scriptPubKey" /\ runs[Len(runs)].final = stack
  BY <1>1, ReturnedFine
<1>. QED BY <1>2, <1>3, <1>4

LEMMA ProgramStep ==
  ASSUME RunsInv, NEW spk, VerifyProgram(spk), PubKeyPassed
  PROVE  VerifyInv'
<1>1. /\ phase' = "program" /\ runs' = runs
      /\ UNCHANGED <<input, status, error, stack, finalStack, loopPhase, pc>>
  BY DEF VerifyProgram, traceVars, vars, evalVars, runVars, multisigVars
<1>2. /\ Len(runs) = 2 /\ runs[2].role = "scriptPubKey" /\ status # "running"
      /\ \A i \in 1..Len(runs) : Fine(i)
  BY PubKeyFine
<1>3. Outcome' /\ Idle'
  BY <1>1, <1>2 DEF RunsInv, Outcome, LoopInTurn, InTurn, Executing, Op, Ops, Idle
<1>4. RunList'
  BY <1>1, Zenon DEF RunsInv, RunList
<1>5. RunsByPhase' /\ CurrentRun' /\ PastRuns' /\ VerdictFollowsRuns'
  BY <1>1, <1>2 DEF RunsByPhase, CurrentRun, PastRuns, VerdictFollowsRuns, Role, Fine
<1>. QED BY <1>3, <1>4, <1>5 DEF VerifyInv, RunsInv

LEMMA UseNativeProgramStep ==
  ASSUME RunsInv, UseNativeProgram
  PROVE  VerifyInv'
<1>1. PubKeyPassed
  BY DEF UseNativeProgram
<1>2. CASE EndPlain("WITNESS_MALLEATED")
  BY <1>1, <1>2, PubKeyFine, RefuseStep DEF EndPlain, traceVars
<1>3. CASE VerifyProgram(spend.scriptPubKey)
  BY <1>1, <1>3, ProgramStep
<1>. QED BY <1>2, <1>3 DEF UseNativeProgram

LEMMA RejectP2SHSigStep ==
  ASSUME RunsInv, RejectP2SHSig
  PROVE  VerifyInv'
<1>1. PubKeyPassed /\ EndPlain("SIG_PUSHONLY")
  BY DEF RejectP2SHSig
<1>. QED BY <1>1, PubKeyFine, RefuseStep DEF EndPlain, traceVars

LEMMA UseNestedProgramStep ==
  ASSUME RunsInv, UseNestedProgram
  PROVE  VerifyInv'
<1>1. PubKeyPassed
  BY DEF UseNestedProgram, P2SHPassed
<1>2. CASE EndPlain("WITNESS_MALLEATED_P2SH")
  BY <1>1, <1>2, PubKeyFine, RefuseStep DEF EndPlain, traceVars
<1>3. CASE VerifyProgram(Redeem)
  BY <1>1, <1>3, ProgramStep
<1>. QED BY <1>2, <1>3 DEF UseNestedProgram

LEMMA EvalRedeemScriptStep ==
  ASSUME RunsInv, EvalRedeemScript
  PROVE  VerifyInv'
<1>1. PubKeyPassed /\ Enter("redeemScript", Redeem, BelowRedeem, "BASE", 0)
  BY DEF EvalRedeemScript, P2SHPassed
<1>2. "redeemScript" \in Role
  BY DEF Role
<1>. QED BY <1>1, <1>2, PubKeyFine, EnterStep

LEMMA EndLegacyStep ==
  ASSUME RunsInv, EndLegacy
  PROVE  VerifyInv'
<1>1. PICK role \in {"scriptPubKey", "redeemScript"} : Returned(role) /\ LeavesTrue(stack)
  BY DEF EndLegacy, PubKeyPassed
<1>2. role \in Role
  BY DEF Role
<1>3. /\ Len(runs) \in 1..3
      /\ runs[Len(runs)].role = role /\ runs[Len(runs)].final = stack
      /\ \A i \in 1..Len(runs) : Fine(i)
  BY <1>1, <1>2, ReturnedFine
<1> DEFINE err == Conclusion(stack, FALSE)
<1>4. status # "running" /\ End(err) /\ runs' = runs
  BY <1>1 DEF Returned, EndLegacy, EndPlain, traceVars
<1>5. err = "OK" => Justified
  BY <1>3 DEF Conclusion, Justified, Fine
<1> HIDE DEF err
<1>. QED BY <1>3, <1>4, <1>5, EndSame DEF Fine
------------------------------------------------------------------------------
(* Witness programs.                                                       *)

LEMMA ProgramFine ==
  ASSUME RunsInv, phase = "program"
  PROVE  /\ Len(runs) = 2 /\ runs[2].role = "scriptPubKey" /\ status # "running"
         /\ \A i \in 1..Len(runs) : Fine(i)
BY DEF RunsInv, RunsByPhase, PastRuns, Idle, Role

\* A program that is not of version 0 may be accepted as it is.
LEMMA ProgramEnds ==
  ASSUME RunsInv, phase = "program", NEW err, End(err), runs' = runs,
         err = "OK" => program.version # 0
  PROVE  VerifyInv'
<1>1. /\ Len(runs) = 2 /\ runs[2].role = "scriptPubKey" /\ status # "running"
      /\ \A i \in 1..Len(runs) : Fine(i)
  BY ProgramFine
<1>2. err = "OK" => Justified
  BY <1>1 DEF Justified, NoProgram, Fine
<1>. QED BY <1>1, <1>2, EndSame DEF Fine

LEMMA EnterProgram ==
  ASSUME RunsInv, phase = "program", NEW role \in {"witnessScript", "tapscript"},
         NEW script, NEW s, NEW version, NEW budget,
         Enter(role, script, s, version, budget)
  PROVE  VerifyInv'
<1>1. role \in Role /\ role \notin {"scriptSig", "scriptPubKey"}
  BY DEF Role
<1>. QED BY <1>1, ProgramFine, EnterStep

LEMMA EvalP2WSHStep ==
  ASSUME RunsInv, EvalP2WSH
  PROVE  VerifyInv'
<1>1. phase = "program"
  BY DEF EvalP2WSH, V0
<1>2. CASE P2WSHRefusal # "OK" /\ EndPlain(P2WSHRefusal)
  BY <1>1, <1>2, ProgramEnds DEF EndPlain, traceVars
<1>3. CASE Enter("witnessScript", Last(spend.witness), Front(spend.witness),
                 "WITNESS_V0", 0)
  BY <1>1, <1>3, EnterProgram
<1>. QED BY <1>2, <1>3 DEF EvalP2WSH

LEMMA EvalP2WPKHStep ==
  ASSUME RunsInv, EvalP2WPKH
  PROVE  VerifyInv'
<1>1. phase = "program"
  BY DEF EvalP2WPKH, V0
<1>2. CASE EndPlain("WITNESS_PROGRAM_MISMATCH")
  BY <1>1, <1>2, ProgramEnds DEF EndPlain, traceVars
<1>3. CASE EndPlain("PUSH_SIZE")
  BY <1>1, <1>3, ProgramEnds DEF EndPlain, traceVars
<1>4. CASE Enter("witnessScript", P2WPKHScript(program.bytes), spend.witness,
                 "WITNESS_V0", 0)
  BY <1>1, <1>4, EnterProgram
<1>. QED BY <1>2, <1>3, <1>4 DEF EvalP2WPKH

LEMMA WrongLengthStep ==
  ASSUME RunsInv, WrongLength
  PROVE  VerifyInv'
<1>1. phase = "program" /\ EndPlain("WITNESS_PROGRAM_WRONG_LENGTH")
  BY DEF WrongLength, V0
<1>. QED BY <1>1, ProgramEnds DEF EndPlain, traceVars

LEMMA UpgradableProgramStep ==
  ASSUME RunsInv, UpgradableProgram
  PROVE  VerifyInv'
<1>1. phase = "program" /\ program.version # 0
  BY DEF UpgradableProgram
<1>2. PICK err : EndPlain(err)
  BY DEF UpgradableProgram
<1>. QED BY <1>1, <1>2, ProgramEnds DEF EndPlain, traceVars

LEMMA TaprootEmptyStep ==
  ASSUME RunsInv, TaprootEmpty
  PROVE  VerifyInv'
<1>1. phase = "program" /\ EndPlain("WITNESS_PROGRAM_WITNESS_EMPTY")
  BY DEF TaprootEmpty, Taproot
<1>. QED BY <1>1, ProgramEnds DEF EndPlain, traceVars

LEMMA RejectControlStep ==
  ASSUME RunsInv, RejectControl
  PROVE  VerifyInv'
<1>1. phase = "program" /\ End("TAPROOT_WRONG_CONTROL_SIZE") /\ runs' = runs
  BY DEF RejectControl, ScriptPath, Taproot
<1>. QED BY <1>1, ProgramEnds

LEMMA EvalTapscriptStep ==
  ASSUME RunsInv, EvalTapscript
  PROVE  VerifyInv'
<1>1. phase = "program" /\ program.version = 1
  BY DEF EvalTapscript, ScriptPath, Taproot
<1>2. CASE End(TapscriptOutcome) /\ UNCHANGED runs
  BY <1>1, <1>2, ProgramEnds
<1>3. CASE Enter("tapscript", TapScript, TapStack, "TAPSCRIPT",
                 50 + witness_serialized_size(spend.witness))
  BY <1>1, <1>3, EnterProgram
<1>. QED BY <1>2, <1>3 DEF EvalTapscript

\* The key is the item that the run of a key path leaves.
LEMMA KeyPathStep ==
  ASSUME RunsInv, KeyPath
  PROVE  RunsInv' /\ (ZeroKeyUnusable => VerifyInv')
<1> DEFINE sig == TaprootWitness[1]
           err == IF VerifyKeyPath(sig, program.bytes) THEN "OK" ELSE "SCHNORR_SIG"
           r == KeyPathRun(sig, err)
<1>1. phase = "program" /\ program.version = 1
  BY DEF KeyPath, Taproot
<1>2. CASE End(KeyPathRefusal(sig)) /\ UNCHANGED runs
  BY <1>1, <1>2, ProgramEnds DEF VerifyInv
<1>3. CASE runs' = Append(runs, r) /\ End(IF err = "OK" THEN AnyoneCanSpend ELSE err)
  <2>1. /\ IsRun(r) /\ r.role = "keypath" /\ r.error = err
        /\ r.final = <<program.bytes>>
    BY DEF KeyPathRun, IsRun
  <2>2. ZeroKeyUnusable => (err = "OK" => LeavesTrue(r.final))
    <3> SUFFICES ASSUME ZeroKeyUnusable PROVE err = "OK" => LeavesTrue(r.final)
      OBVIOUS
    <3>1. err = "OK" => VerifyKeyPath(sig, program.bytes)
      OBVIOUS
    <3>2. err = "OK" => cast_to_bool(program.bytes)
      BY <3>1, Zenon DEF ZeroKeyUnusable
    <3>3. r.final # << >> /\ Last(r.final) = program.bytes
      <4>1. /\ <<program.bytes>> # << >>
            /\ Last(<<program.bytes>>) = program.bytes
        BY DEF Last
      <4> HIDE DEF r
      <4>. QED BY <2>1, <4>1
    <3>. QED BY <3>2, <3>3, Zenon DEF LeavesTrue
  <2> HIDE DEF r, err
  <2>3. /\ Len(runs) = 2 /\ runs[2].role = "scriptPubKey" /\ status # "running"
        /\ \A i \in 1..Len(runs) : Fine(i)
    BY <1>1, ProgramFine
  <2>4. /\ RunList' /\ Len(runs') = 3 /\ runs'[3] = r
        /\ \A i \in 1..2 : runs'[i] = runs[i]
    BY <1>3, <2>1, <2>3, RunsAppend DEF RunsInv
  <2>5. \A i \in 1..Len(runs') : i \in 1..2 \/ i = 3
    BY <2>4
  <2>6. \A i \in 1..2 : runs'[i].error = "OK" /\ (i >= 2 => LeavesTrue(runs'[i].final))
    BY <2>3, <2>4 DEF Fine
  <2>r. RunsInv'
    <3>1. \E e : End(e)
      BY <1>3
    <3>. QED BY <2>3, <2>4, <3>1, EndRuns
  <2>7. CASE err = "OK"
    <3> SUFFICES ASSUME ZeroKeyUnusable PROVE VerifyInv'
      BY <2>r
    <3>1. \A i \in 1..Len(runs') : runs'[i].error = "OK"
      BY <2>1, <2>4, <2>5, <2>6, <2>7
    <3>2. \A i \in 2..Len(runs') : i \in 1..Len(runs') /\ i >= 2
      BY <2>4
    <3>3. \A i \in 2..Len(runs') : LeavesTrue(runs'[i].final)
      BY <2>2, <2>4, <2>5, <2>6, <2>7, <3>2
    <3>4. Justified'
      BY <2>1, <2>4, <3>3 DEF Justified
    <3>5. End(AnyoneCanSpend)
      BY <1>3, <2>7
    <3>. QED BY <2>3, <2>4, <3>1, <3>4, <3>5, EndStep
  <2>8. CASE err # "OK"
    <3>1. \A i \in 1..Len(runs') :
            runs'[i].error # "OK" => i = Len(runs') /\ err = runs'[i].error
      BY <2>1, <2>4, <2>5, <2>6
    <3>2. End(err)
      BY <1>3, <2>8
    <3>. QED BY <2>3, <2>4, <2>8, <2>r, <3>1, <3>2, EndStep
  <2>. QED BY <2>7, <2>8
<1>. QED BY <1>2, <1>3 DEF KeyPath

LEMMA EndWitnessStep ==
  ASSUME RunsInv, EndWitness
  PROVE  VerifyInv'
<1>1. PICK role \in {"witnessScript", "tapscript"} : Returned(role)
  BY DEF EndWitness
<1>2. role \in Role
  BY DEF Role
<1>3. /\ Len(runs) \in 1..3
      /\ runs[Len(runs)].role = role /\ runs[Len(runs)].final = stack
      /\ LeavesTrue(stack) => \A i \in 1..Len(runs) : Fine(i)
      /\ \A i \in 1..Len(runs) : runs[i].error = "OK"
  BY <1>1, <1>2, ReturnedFine
<1> DEFINE err == IF Len(stack) # 1 THEN "CLEANSTACK"
                  ELSE IF ~LeavesTrue(stack) THEN "EVAL_FALSE"
                  ELSE Conclusion(stack, TRUE)
<1>4. status # "running" /\ End(err) /\ runs' = runs
  BY <1>1 DEF Returned, EndWitness, EndPlain, traceVars
<1>5. err = "OK" => Len(stack) = 1 /\ LeavesTrue(stack)
  OBVIOUS
<1> HIDE DEF err
<1>6. err = "OK" => Justified
  BY <1>3, <1>5 DEF Justified, Fine
<1>. QED BY <1>3, <1>4, <1>6, EndSame
------------------------------------------------------------------------------
(* The verdict.                                                            *)

LEMMA VerifyAgainStep ==
  ASSUME RunsInv, NEW f, VerifyAgain(f)
  PROVE  VerifyInv'
<1>1. /\ phase = "done" /\ phase' = "begin" /\ runs' = << >>
      /\ UNCHANGED <<status, error, stack, finalStack, loopPhase, loopError, pc, execStack>>
  BY DEF VerifyAgain, multisigVars
<1>2. status # "running" /\ loopPhase = "idle"
  BY <1>1 DEF RunsInv, Idle, Role, Outcome, LoopInTurn, InTurn
<1>3. Outcome' /\ Idle'
  BY <1>1, <1>2 DEF RunsInv, Outcome, LoopInTurn, Idle
<1>4. RunList' /\ Len(runs') = 0
  BY <1>1, EmptySeq DEF RunList
<1>5. RunsByPhase' /\ CurrentRun' /\ PastRuns' /\ VerdictFollowsRuns'
  BY <1>1, <1>4 DEF RunsByPhase, CurrentRun, PastRuns, VerdictFollowsRuns, Role
<1>. QED BY <1>3, <1>4, <1>5 DEF VerifyInv, RunsInv

LEMMA VerifyInitInv ==
  ASSUME VerifyInit
  PROVE  VerifyInv
<1>1. phase = "begin" /\ runs = << >>
  BY DEF VerifyInit
<1>2. Outcome /\ Idle
  BY DEF VerifyInit, Begin, Outcome, LoopInTurn, Idle
<1>3. RunList /\ Len(runs) = 0
  BY <1>1, EmptySeq DEF RunList
<1>4. RunsByPhase /\ CurrentRun /\ PastRuns /\ VerdictFollowsRuns
  BY <1>1, <1>3 DEF RunsByPhase, CurrentRun, PastRuns, VerdictFollowsRuns, Role
<1>. QED BY <1>2, <1>3, <1>4 DEF VerifyInv, RunsInv

LEMMA VerifyStutter ==
  ASSUME RunsInv, UNCHANGED allVars
  PROVE  RunsInv' /\ (VerdictFollowsRuns => VerdictFollowsRuns')
<1>1. /\ UNCHANGED <<phase, runs, verdict, program, input>>
      /\ UNCHANGED <<status, error, stack, finalStack, loopPhase, loopError, pc, execStack>>
  BY DEF allVars, verifyVars, traceVars, vars, evalVars, runVars, multisigVars
<1>2. Outcome' /\ Idle' /\ RunsByPhase' /\ CurrentRun' /\ PastRuns'
  BY <1>1 DEF RunsInv, Outcome, LoopInTurn, InTurn, Executing, Op, Ops, Idle, RunsByPhase,
              CurrentRun, PastRuns, Fine
<1>3. RunList' /\ (VerdictFollowsRuns => VerdictFollowsRuns')
  BY <1>1, Zenon DEF RunsInv, RunList, VerdictFollowsRuns, LastRun, Flag
<1>. QED BY <1>2, <1>3 DEF RunsInv

\* Every step keeps the list of runs in order.
LEMMA RunsStep ==
  ASSUME RunsInv, [VerifyNext]_allVars
  PROVE  /\ RunsInv'
         /\ ZeroKeyUnusable /\ VerdictFollowsRuns => VerdictFollowsRuns'
<1>1. CASE BeginVerify \/ Evaluate \/ EvalRaised
  BY <1>1, BeginVerifyStep, EvaluateStep, EvalRaisedStep DEF VerifyInv
<1>2. CASE EvalEscaped \/ EscapeKeyPath \/ Escape
  BY <1>2, EscapeStep DEF EvalEscaped, EscapeKeyPath, Escape, VerifyInv
<1>3. CASE EvalScriptPubKey \/ EvalFalse \/ EndLegacy
  BY <1>3, EvalScriptPubKeyStep, EvalFalseStep, EndLegacyStep DEF VerifyInv
<1>4. CASE UseNativeProgram \/ RejectP2SHSig \/ UseNestedProgram \/ EvalRedeemScript
  BY <1>4, UseNativeProgramStep, RejectP2SHSigStep, UseNestedProgramStep,
     EvalRedeemScriptStep DEF VerifyInv
<1>5. CASE EvalP2WSH \/ EvalP2WPKH \/ WrongLength \/ UpgradableProgram
  BY <1>5, EvalP2WSHStep, EvalP2WPKHStep, WrongLengthStep, UpgradableProgramStep DEF VerifyInv
<1>6. CASE TaprootEmpty \/ KeyPath \/ RejectControl \/ EvalTapscript \/ EndWitness
  BY <1>6, TaprootEmptyStep, KeyPathStep, RejectControlStep, EvalTapscriptStep,
     EndWitnessStep DEF VerifyInv
<1>7. CASE \E f \in FlagSets : VerifyAgain(f)
  BY <1>7, VerifyAgainStep DEF VerifyInv
<1>8. CASE UNCHANGED allVars
  BY <1>8, VerifyStutter
<1>. QED BY <1>1, <1>2, <1>3, <1>4, <1>5, <1>6, <1>7, <1>8 DEF VerifyNext, Verify

\* The verdict of a verification is that of its evaluations, whatever the spend
\* and the flags and however often it is verified (Interpreter.verify,
\* VerificationTrace): nothing that failed is followed by another script or by
\* success, and an accepted spend left what each of its scripts had to leave.
\* That a key path leaves a true value rests on what its key is.
THEOREM VerdictIsOfTheRuns ==
  ASSUME ZeroKeyUnusable
  PROVE  VerifySpec => []VerdictFollowsRuns
<1>1. VerifyInit => VerifyInv
  BY VerifyInitInv
<1>2. VerifyInv /\ [VerifyNext]_allVars => VerifyInv'
  BY RunsStep DEF VerifyInv
<1>3. VerifyInv => VerdictFollowsRuns
  BY DEF VerifyInv
<1>. QED BY <1>1, <1>2, <1>3, PTL DEF VerifySpec

------------------------------------------------------------------------------
(* The forms of a step of verify.                                          *)

Kept == UNCHANGED <<spend, flags, input, stackCopy, program>>

\* The verification ends without success.
Stops ==
  /\ Kept /\ UNCHANGED runs
  /\ phase' = "escaped" \/ (phase' = "done" /\ verdict' # "OK")

\* The control block commits the output to the script.
ShowsScript ==
  /\ ScriptPath /\ ~WrongControlSize
  /\ verify_taproot_commitment(Control, program.bytes, TapScript)

\* The verification ends with success.
Concludes ==
  /\ Kept /\ UNCHANGED runs
  /\ phase' = "done" /\ verdict' = "OK"
  /\ \/ EndLegacy /\ Conclusion(stack, FALSE) = "OK"
     \/ UpgradableProgram
     \/ ShowsScript
     \/ Returned("witnessScript") /\ LeavesTrue(stack)
     \/ Returned("tapscript") /\ LeavesTrue(stack)

EndsKeyPath ==
  /\ Kept /\ phase' = "done"
  /\ Taproot /\ Len(TaprootWitness) = 1
  /\ \/ UNCHANGED runs /\ verdict' # "OK"
     \/ \E err : /\ runs' = Append(runs, KeyPathRun(TaprootWitness[1], err))
                 /\ verdict' = "OK" => VerifyKeyPath(TaprootWitness[1], program.bytes)

\* A script begins.
BeginsScriptSig ==
  /\ phase = "begin" /\ Enter("scriptSig", spend.scriptSig, << >>, "BASE", 0)
  /\ UNCHANGED <<stackCopy, program>>

BeginsP2WSH ==
  /\ V0 /\ Size = 32 /\ P2WSHRefusal = "OK"
  /\ Enter("witnessScript", Last(spend.witness), Front(spend.witness), "WITNESS_V0", 0)
  /\ UNCHANGED <<stackCopy, program>>

BeginsP2WPKH ==
  /\ V0 /\ Size = 20 /\ Len(spend.witness) = 2
  /\ Enter("witnessScript", P2WPKHScript(program.bytes), spend.witness, "WITNESS_V0", 0)
  /\ UNCHANGED <<stackCopy, program>>

BeginsTapscript ==
  /\ ShowsScript
  /\ Enter("tapscript", TapScript, TapStack, "TAPSCRIPT",
           50 + witness_serialized_size(spend.witness))
  /\ UNCHANGED <<stackCopy, program>>

\* A witness program is looked into.
TakesNative ==
  /\ PubKeyPassed /\ Native /\ spend.scriptSig = << >>
  /\ VerifyProgram(spend.scriptPubKey)

TakesNested ==
  /\ P2SHPassed /\ Nested /\ spend.scriptSig = PushBytes(Redeem)
  /\ VerifyProgram(Redeem)

\* Whatever a tapscript's outcome, it is not "OK" before the commitment is checked.
LEMMA EndOf ==
  ASSUME NEW err, End(err)
  PROVE  Kept /\ phase' = "done" /\ verdict' = err
BY DEF End, Kept, vars, evalVars, runVars

LEMMA EndStops ==
  ASSUME NEW err, End(err), UNCHANGED runs, err # "OK"
  PROVE  Stops
BY EndOf DEF Stops

LEMMA EscapeStops ==
  ASSUME NEW kind, EscapeAs(kind)
  PROVE  Stops
BY DEF EscapeAs, Stops, Kept, vars, evalVars, runVars

LEMMA PlainEnd ==
  ASSUME NEW err, EndPlain(err)
  PROVE  End(err) /\ UNCHANGED runs
BY DEF EndPlain, traceVars

LEMMA VerifyForms ==
  ASSUME RunsInv, Verify
  PROVE  \/ Stops \/ Concludes \/ EndsKeyPath \/ Evaluate
         \/ BeginsScriptSig \/ EvalScriptPubKey \/ EvalRedeemScript
         \/ BeginsP2WSH \/ BeginsP2WPKH \/ BeginsTapscript
         \/ TakesNative \/ TakesNested
<1>1. CASE BeginVerify
  BY <1>1, PlainEnd, EndStops DEF BeginVerify, BeginsScriptSig
<1>2. CASE EvalRaised
  <2>1. error # "OK"
    BY <1>2 DEF EvalRaised, RunsInv, Outcome
  <2>. QED BY <1>2, <2>1, PlainEnd, EndStops DEF EvalRaised
<1>3. CASE EvalEscaped \/ EscapeKeyPath \/ Escape
  BY <1>3, EscapeStops DEF EvalEscaped, EscapeKeyPath, Escape
<1>4. CASE EvalFalse \/ RejectP2SHSig
  BY <1>4, PlainEnd, EndStops DEF EvalFalse, RejectP2SHSig
<1>5. CASE EndLegacy
  <2>1. End(Conclusion(stack, FALSE)) /\ UNCHANGED runs
    BY <1>5, PlainEnd DEF EndLegacy
  <2>2. CASE Conclusion(stack, FALSE) = "OK"
    BY <1>5, <2>1, <2>2, EndOf DEF Concludes
  <2>. QED BY <2>1, <2>2, EndStops
<1>6. CASE UseNativeProgram
  BY <1>6, PlainEnd, EndStops DEF UseNativeProgram, TakesNative
<1>7. CASE UseNestedProgram
  BY <1>7, PlainEnd, EndStops DEF UseNestedProgram, TakesNested
<1>8. CASE EvalP2WSH
  BY <1>8, PlainEnd, EndStops DEF EvalP2WSH, BeginsP2WSH
<1>9. CASE EvalP2WPKH
  BY <1>9, PlainEnd, EndStops DEF EvalP2WPKH, BeginsP2WPKH
<1>10. CASE WrongLength \/ TaprootEmpty
  BY <1>10, PlainEnd, EndStops DEF WrongLength, TaprootEmpty
<1>11. CASE RejectControl
  BY <1>11, EndStops DEF RejectControl
<1>12. CASE UpgradableProgram
  <2>1. PICK err : End(err) /\ UNCHANGED runs
    BY <1>12, PlainEnd DEF UpgradableProgram
  <2>2. CASE err = "OK"
    BY <1>12, <2>1, <2>2, EndOf DEF Concludes
  <2>. QED BY <2>1, <2>2, EndStops
<1>13. CASE KeyPath
  <2> DEFINE sig == TaprootWitness[1]
             err == IF VerifyKeyPath(sig, program.bytes) THEN "OK" ELSE "SCHNORR_SIG"
  <2>1. Taproot /\ Len(TaprootWitness) = 1
    BY <1>13 DEF KeyPath
  <2>2. CASE KeyPathRefusal(sig) # "OK" /\ End(KeyPathRefusal(sig)) /\ UNCHANGED runs
    BY <2>2, EndStops
  <2>3. CASE /\ runs' = Append(runs, KeyPathRun(sig, err))
             /\ End(IF err = "OK" THEN AnyoneCanSpend ELSE err)
    <3>1. Kept /\ phase' = "done" /\ verdict' = IF err = "OK" THEN AnyoneCanSpend ELSE err
      BY <2>3, EndOf
    <3>2. verdict' = "OK" => VerifyKeyPath(sig, program.bytes)
      BY <3>1
    <3>. HIDE DEF err
    <3>. QED BY <2>1, <2>3, <3>1, <3>2 DEF EndsKeyPath
  <2>. QED BY <1>13, <2>2, <2>3 DEF KeyPath
<1>14. CASE EvalTapscript
  <2>1. ScriptPath /\ ~WrongControlSize
    BY <1>14 DEF EvalTapscript
  <2>2. CASE ~verify_taproot_commitment(Control, program.bytes, TapScript)
    <3>1. TapscriptOutcome = "WITNESS_PROGRAM_MISMATCH"
      BY <2>2 DEF TapscriptOutcome
    <3>2. End("WITNESS_PROGRAM_MISMATCH") /\ UNCHANGED runs
      BY <1>14, <3>1 DEF EvalTapscript
    <3>. QED BY <3>2, EndStops
  <2>3. CASE verify_taproot_commitment(Control, program.bytes, TapScript)
    <3>1. CASE End(TapscriptOutcome) /\ UNCHANGED runs
      <4>1. CASE TapscriptOutcome = "OK"
        BY <2>1, <2>3, <3>1, <4>1, EndOf DEF Concludes, ShowsScript
      <4>. QED BY <3>1, <4>1, EndStops
    <3>2. CASE /\ Enter("tapscript", TapScript, TapStack, "TAPSCRIPT",
                        50 + witness_serialized_size(spend.witness))
               /\ UNCHANGED <<stackCopy, program>>
      BY <2>1, <2>3, <3>2 DEF BeginsTapscript, ShowsScript
    <3>. QED BY <1>14, <3>1, <3>2 DEF EvalTapscript
  <2>. QED BY <2>2, <2>3
<1>15. CASE EndWitness
  <2>1. PICK role \in {"witnessScript", "tapscript"} : Returned(role)
    BY <1>15 DEF EndWitness
  <2> DEFINE err == IF Len(stack) # 1 THEN "CLEANSTACK"
                    ELSE IF ~LeavesTrue(stack) THEN "EVAL_FALSE"
                    ELSE Conclusion(stack, TRUE)
  <2>2. End(err) /\ UNCHANGED runs
    BY <1>15, PlainEnd DEF EndWitness
  <2>3. err = "OK" => LeavesTrue(stack)
    OBVIOUS
  <2>. HIDE DEF err
  <2>4. CASE err = "OK"
    BY <2>1, <2>2, <2>3, <2>4, EndOf DEF Concludes
  <2>. QED BY <2>2, <2>4, EndStops
<1>16. CASE Evaluate \/ EvalScriptPubKey \/ EvalRedeemScript
  BY <1>16
<1>. QED BY <1>1, <1>2, <1>3, <1>4, <1>5, <1>6, <1>7, <1>8, <1>9, <1>10, <1>11, <1>12,
            <1>13, <1>14, <1>15, <1>16 DEF Verify

------------------------------------------------------------------------------
(* The types of a verification.                                            *)

\* What verify keeps between the evaluations is well typed, and so is every
\* evaluation but a tapscript's, whose budget is the sum of the sizes in a
\* witness: that it is a number is induction over the witness.
TypedInv ==
  /\ spend \in Spend /\ flags \subseteq VerificationFlag
  /\ "flags" \in DOMAIN input /\ input.flags = flags
  /\ stackCopy \in Seq(Item) /\ program.bytes \in Item
  /\ phase \in Role \ {"tapscript"} => TypeInv

LEMMA FrontItem ==
  ASSUME NEW S, NEW s \in Seq(S), s # << >>
  PROVE  /\ Len(s) \in Nat \ {0} /\ Last(s) \in S /\ Front(s) \in Seq(S)
<1>1. Len(s) \in Nat \ {0} /\ Front(s) \in Seq(S)
  BY FrontType
<1>2. Len(s) \in 1..Len(s)
  BY <1>1
<1>. QED BY <1>1, <1>2, ElementOfSeq DEF Last

LEMMA RedeemType ==
  ASSUME stackCopy \in Seq(Item)
  PROVE  Redeem \in Item /\ BelowRedeem \in Seq(Item)
<1>1. << >> \in Item /\ << >> \in Seq(Item)
  BY EmptySeq DEF Item
<1>. QED BY <1>1, FrontItem DEF Redeem, BelowRedeem

LEMMA EnterTyped ==
  ASSUME TypedInv, NEW role, NEW script \in Item, NEW s \in Seq(Item),
         NEW version \in SigVersion, NEW budget \in Nat,
         Enter(role, script, s, version, budget)
  PROVE  TypeInv'
<1>1. Parse(script) \in Script
  BY ParseType DEF Parsed
<1>2. input' = EvalOf(script, s, version, budget)
  BY DEF Enter
<1>3. input' \in EvalInput
  BY <1>1, <1>2 DEF EvalOf, EvalInput, TypedInv, Spend
<1>4. "OK" \in ScriptError
  BY DEF ScriptError
<1>5. /\ input'.stack = s
      /\ stack' = s /\ altstack' = << >> /\ execStack' = << >>
      /\ status' = "start" /\ pc' = 0 /\ opCount' = 0 /\ codesep' = 0
      /\ codesepPos' = -1 /\ weight' = budget /\ error' = "OK" /\ finalStack' = << >>
      /\ loopPhase' = "idle" /\ loopError' = "OK"
  BY <1>2 DEF Enter, EvalOf, NO_POS
<1>6. << >> \in Seq(Item) /\ << >> \in Seq(BOOLEAN)
  BY EmptySeq
<1>7. Len(Ops') \in Nat
  <2>1. input'.script \in Script
    BY <1>3 DEF EvalInput
  <2>2. input'.script.ops \in Seq(ScriptOp)
    BY <2>1 DEF Script
  <2>. QED BY <2>2, LenProperties DEF Ops
<1>8. TypeOK'
  BY <1>3, <1>4, <1>5, <1>6, <1>7 DEF TypeOK
<1>9. MultisigArguments'
  BY <1>4, <1>5 DEF MultisigArguments
<1>. QED BY <1>8, <1>9 DEF TypeInv

LEMMA EnterKeeps ==
  ASSUME NEW role, NEW script, NEW s, NEW version, NEW budget,
         Enter(role, script, s, version, budget)
  PROVE  /\ phase' = role /\ UNCHANGED <<spend, flags>>
         /\ "flags" \in DOMAIN (input') /\ input'.flags = flags
<1>1. UNCHANGED <<spend, flags>> /\ phase' = role
      /\ input' = EvalOf(script, s, version, budget)
  BY DEF Enter
<1>2. PICK e : e = EvalOf(script, s, version, budget)
  OBVIOUS
<1>3. "flags" \in DOMAIN e /\ e.flags = flags
  BY <1>2 DEF EvalOf
<1>. QED BY <1>1, <1>2, <1>3

\* A turn of the machine leaves what it is given alone.
LEMMA NextKeepsInput ==
  ASSUME LoopInTurn, Next
  PROVE  input' = input
<1>1. [Next]_vars
  OBVIOUS
<1>2. CASE Recorded
  <2>1. PICK s, a, x, n, sig, err : Finish(s, a, x, n, sig, err)
    BY <1>2 DEF Recorded
  <2>. QED BY <2>1 DEF Finish
<1>3. CASE Ended
  BY <1>3 DEF Ended, Terminal
<1>4. CASE Silent
  BY <1>4 DEF Silent
<1>. QED BY <1>1, <1>2, <1>3, <1>4, StepRecords

\* What the control block and the key of a witness are.
LEMMA WitnessTypes ==
  ASSUME spend \in Spend
  PROVE  /\ spend.witness \in Seq(Item) /\ spend.scriptSig \in Item
         /\ spend.scriptPubKey \in Item
BY DEF Spend

LEMMA ProgramType ==
  ASSUME NEW spk \in Item
  PROVE  witness_program(spk).bytes \in Item
<1>1. spk \in Seq(Byte) /\ Len(spk) \in Nat
  BY LenProperties DEF Item
<1>2. \A i \in 3..Len(spk) : spk[i] \in Byte
  <2> TAKE i \in 3..Len(spk)
  <2>1. i \in 1..Len(spk)
    BY <1>1
  <2>. QED BY <1>1, <2>1, ElementOfSeq
<1>3. PICK d : d = SubSeq(spk, 3, Len(spk))
  OBVIOUS
<1>4. d \in Seq(Byte)
  BY <1>1, <1>2, <1>3, SubSeqProperties
<1>. QED BY <1>3, <1>4 DEF witness_program, Item

LEMMA TypedOnEnter ==
  ASSUME TypedInv, NEW role, NEW script \in Item, NEW s \in Seq(Item),
         NEW version \in SigVersion, NEW budget \in Nat,
         Enter(role, script, s, version, budget),
         stackCopy' \in Seq(Item), program' = program
  PROVE  TypedInv'
<1>1. TypeInv'
  BY EnterTyped
<1>2. UNCHANGED <<spend, flags>> /\ "flags" \in DOMAIN (input') /\ input'.flags = flags
  BY EnterKeeps
<1>. QED BY <1>1, <1>2 DEF TypedInv

LEMMA VerifyTyped ==
  ASSUME DigestsAreItems, RunsInv, TypedInv, Verify
  PROVE  TypedInv'
<1>0. /\ spend.witness \in Seq(Item) /\ spend.scriptSig \in Item
      /\ spend.scriptPubKey \in Item /\ << >> \in Seq(Item) /\ 0 \in Nat
      /\ Redeem \in Item /\ BelowRedeem \in Seq(Item)
      /\ "BASE" \in SigVersion /\ "WITNESS_V0" \in SigVersion
  BY WitnessTypes, RedeemType, EmptySeq DEF TypedInv, SigVersion
<1>1. CASE Stops \/ Concludes \/ EndsKeyPath
  <2>1. Kept /\ phase' \notin Role
    BY <1>1 DEF Stops, Concludes, EndsKeyPath, Role
  <2>. QED BY <2>1 DEF TypedInv, Kept
<1>2. CASE Evaluate
  <2>1. Next /\ UNCHANGED <<spend, flags, phase, stackCopy, program>>
    BY <1>2 DEF Evaluate
  <2>2. input' = input
    BY <2>1, NextKeepsInput DEF RunsInv, Outcome
  <2>3. ASSUME phase \in Role \ {"tapscript"} PROVE TypeInv'
    <3>1. TypeInv
      BY <2>3 DEF TypedInv
    <3>. QED BY <2>1, <3>1, StepType
  <2>. QED BY <2>1, <2>2, <2>3 DEF TypedInv
<1>3. CASE BeginsScriptSig
  <2>1. Enter("scriptSig", spend.scriptSig, << >>, "BASE", 0) /\ UNCHANGED <<stackCopy, program>>
    BY <1>3 DEF BeginsScriptSig
  <2>2. stackCopy' \in Seq(Item)
    BY <2>1 DEF TypedInv
  <2>. QED BY <1>0, <2>1, <2>2, TypedOnEnter
<1>4. CASE EvalScriptPubKey
  <2>1. /\ phase = "scriptSig" /\ stackCopy' = stack /\ program' = program
        /\ Enter("scriptPubKey", spend.scriptPubKey, stack, "BASE", 0)
    BY <1>4 DEF EvalScriptPubKey, Returned
  <2>2. stack \in Seq(Item)
    BY <2>1 DEF TypedInv, Role, TypeInv, TypeOK
  <2>. QED BY <1>0, <2>1, <2>2, TypedOnEnter
<1>5. CASE EvalRedeemScript
  <2>1. Enter("redeemScript", Redeem, BelowRedeem, "BASE", 0) /\ UNCHANGED <<stackCopy, program>>
    BY <1>5 DEF EvalRedeemScript
  <2>2. stackCopy' \in Seq(Item)
    BY <2>1 DEF TypedInv
  <2>. QED BY <1>0, <2>1, <2>2, TypedOnEnter
<1>6. CASE BeginsP2WSH
  <2>1. /\ Enter("witnessScript", Last(spend.witness), Front(spend.witness), "WITNESS_V0", 0)
        /\ UNCHANGED <<stackCopy, program>> /\ spend.witness # << >>
    BY <1>6 DEF BeginsP2WSH, P2WSHRefusal
  <2>2. stackCopy' \in Seq(Item)
    BY <2>1 DEF TypedInv
  <2>3. Last(spend.witness) \in Item /\ Front(spend.witness) \in Seq(Item)
    BY <1>0, <2>1, FrontItem
  <2>. QED BY <1>0, <2>1, <2>2, <2>3, TypedOnEnter
<1>7. CASE BeginsP2WPKH
  <2>1. /\ Enter("witnessScript", P2WPKHScript(program.bytes), spend.witness, "WITNESS_V0", 0)
        /\ UNCHANGED <<stackCopy, program>> /\ Len(program.bytes) = 20
    BY <1>7 DEF BeginsP2WPKH, Size
  <2>2. stackCopy' \in Seq(Item) /\ program.bytes \in Item
    BY <2>1 DEF TypedInv
  <2>3. P2WPKHScript(program.bytes) \in Item
    BY <2>1, <2>2, KeyHashBytes
  <2>. QED BY <1>0, <2>1, <2>2, <2>3, TypedOnEnter
<1>8. CASE BeginsTapscript
  <2>1. /\ Enter("tapscript", TapScript, TapStack, "TAPSCRIPT",
                 50 + witness_serialized_size(spend.witness))
        /\ UNCHANGED <<stackCopy, program>>
    BY <1>8 DEF BeginsTapscript
  <2>2. /\ phase' = "tapscript" /\ UNCHANGED <<spend, flags>>
        /\ "flags" \in DOMAIN (input') /\ input'.flags = flags
    BY <2>1, EnterKeeps
  <2>. QED BY <2>1, <2>2 DEF TypedInv
<1>9. CASE TakesNative \/ TakesNested
  <2>1. PICK spk \in Item : VerifyProgram(spk)
    BY <1>0, <1>9 DEF TakesNative, TakesNested
  <2>2. /\ phase' = "program" /\ program' = witness_program(spk)
        /\ UNCHANGED <<input, spend, flags, stackCopy>>
    BY <2>1 DEF VerifyProgram, vars, evalVars, runVars
  <2>3. program'.bytes \in Item
    BY <2>2, ProgramType
  <2>. QED BY <2>2, <2>3 DEF TypedInv, Role
<1>. QED BY <1>1, <1>2, <1>3, <1>4, <1>5, <1>6, <1>7, <1>8, <1>9, VerifyForms

LEMMA TypedInit == VerifyInit => TypedInv
<1> SUFFICES ASSUME VerifyInit PROVE TypedInv
  OBVIOUS
<1>1. spend \in Spend /\ flags \subseteq VerificationFlag
  BY SpendsAssumption DEF VerifyInit
<1>2. PICK e : e = EvalOf(spend.scriptSig, << >>, "BASE", 0)
  OBVIOUS
<1>3. "flags" \in DOMAIN e /\ e.flags = flags /\ input = e
  BY <1>2 DEF EvalOf, VerifyInit
<1>4. stackCopy = << >> /\ program.bytes = << >> /\ phase = "begin"
  BY DEF VerifyInit, NoProgram
<1>5. << >> \in Seq(Item) /\ << >> \in Item
  BY EmptySeq DEF Item
<1>. QED BY <1>1, <1>3, <1>4, <1>5 DEF TypedInv, Role

LEMMA AgainTyped ==
  ASSUME TypedInv, NEW f \in FlagSets, VerifyAgain(f)
  PROVE  TypedInv'
<1>1. /\ phase' = "begin" /\ flags' = f /\ spend' = spend
      /\ stackCopy' = << >> /\ program' = NoProgram
      /\ input' = [input EXCEPT !.flags = f]
  BY DEF VerifyAgain
<1>2. PICK i : i = input
  OBVIOUS
<1>3. PICK j : j = [i EXCEPT !.flags = f]
  OBVIOUS
<1>4. "flags" \in DOMAIN i
  BY <1>2 DEF TypedInv
<1>5. "flags" \in DOMAIN j /\ j.flags = f
  BY <1>3, <1>4
<1>6. input' = j
  BY <1>1, <1>2, <1>3
<1>7. << >> \in Seq(Item) /\ << >> \in Item /\ NoProgram.bytes = << >>
  BY EmptySeq DEF Item, NoProgram
<1>8. f \subseteq VerificationFlag
  BY SpendsAssumption
<1>. QED BY <1>1, <1>5, <1>6, <1>7, <1>8 DEF TypedInv, Role

LEMMA TypedStep ==
  ASSUME DigestsAreItems, RunsInv, TypedInv, [VerifyNext]_allVars
  PROVE  TypedInv'
<1>1. CASE UNCHANGED allVars
  <2>1. UNCHANGED <<vars, spend, flags, stackCopy, program, phase>>
    BY <1>1 DEF allVars, verifyVars
  <2>2. input' = input
    BY <2>1 DEF vars, evalVars, runVars
  <2>3. TypeInv => TypeInv'
    BY <2>1, StepType
  <2>. QED BY <2>1, <2>2, <2>3 DEF TypedInv
<1>. QED BY <1>1, VerifyTyped, AgainTyped DEF VerifyNext

------------------------------------------------------------------------------
(* The way of a verification.                                              *)

\* The item on top of what the scriptSig left is what a P2SH output commits to.
OutputRevealed ==
  is_p2sh(spend.scriptPubKey) =>
    stackCopy # << >> /\ Digest(OP_HASH160, Last(stackCopy)) = OutputHash

\* No witness program is answered, or program is the one.
OffProgram ==
  Flag("WITNESS") =>
    /\ ~IsWitnessProgram(spend.scriptPubKey)
    /\ Flag("P2SH") /\ is_p2sh(spend.scriptPubKey) => ~IsWitnessProgram(Redeem)

OnProgram ==
  /\ Flag("WITNESS")
  /\ \/ /\ IsWitnessProgram(spend.scriptPubKey)
        /\ spend.scriptSig = << >>
        /\ program = witness_program(spend.scriptPubKey)
     \/ /\ Flag("P2SH") /\ is_p2sh(spend.scriptPubKey) /\ IsWitnessProgram(Redeem)
        /\ spend.scriptSig = PushBytes(Redeem)
        /\ program = witness_program(Redeem)

\* What is known of a program whose witness script is being run, and of one
\* that is satisfied.
RunsScript ==
  \/ /\ Size = 20 /\ Len(spend.witness) = 2
     /\ \E hash, sig, key \in Item :
          /\ hash = program.bytes /\ sig = spend.witness[1] /\ key = spend.witness[2]
          /\ KeyHashTurns(hash, sig, key)
  \/ Size = 32 /\ RanWitnessScript(program)

Settled(p) ==
  /\ p.version = 0 =>
       \/ Len(p.bytes) = 20 /\ SignedKeyHash(p)
       \/ Len(p.bytes) = 32 /\ RanWitnessScript(p)
  /\ p.version = 1 /\ Len(p.bytes) = 32 /\ Flag("TAPROOT") => ShownByTaproot(p)

\* The phases after the scriptPubKey has passed.
PastOutput == phase \in {"program", "redeemScript", "witnessScript", "tapscript"} \/ Accepted

\* The output is evaluated on what the scriptSig left.
RunsOutput ==
  is_p2sh(spend.scriptPubKey) =>
    \E b \in Item, s \in Seq(Item) :
      b = spend.scriptPubKey /\ s = stackCopy /\ ScriptHashTurns(b, s)

WayInv ==
  /\ phase = "scriptPubKey" => RunsOutput
  /\ PastOutput => Len(runs) >= 2 /\ OutputRevealed
  /\ phase = "redeemScript" => OffProgram
  /\ phase \in {"program", "witnessScript", "tapscript"} => OnProgram
  /\ phase = "witnessScript" => program.version = 0 /\ RunsScript
  /\ phase = "tapscript" => program.version # 0 /\ ShownByTaproot(program)
  /\ Accepted =>
       \/ OffProgram /\ (Flag("WITNESS") => spend.witness = << >>)
       \/ OnProgram /\ Settled(program)

\* The stacks that the scripts were run on.
HandedInv ==
  /\ Len(runs) <= 3
  /\ Len(runs) >= 1 =>
       /\ runs[1].role = "scriptSig" /\ runs[1].initial = << >>
       /\ runs[1].script = spend.scriptSig
  /\ Len(runs) >= 2 =>
       /\ runs[2].role = "scriptPubKey" /\ runs[2].initial = runs[1].final
       /\ runs[1].final = stackCopy
  /\ Len(runs) = 3 =>
       /\ runs[3].role \in {"redeemScript", "witnessScript", "tapscript", "keypath"}
       /\ runs[3].role = "redeemScript" =>
            Append(runs[3].initial, runs[3].script) = runs[1].final
       /\ runs[3].role # "redeemScript" => IsPrefix(runs[3].initial, spend.witness)

SpendInv == RunsInv /\ TypedInv /\ WayInv /\ HandedInv

------------------------------------------------------------------------------
LEMMA PubKeyReveals ==
  ASSUME DigestsAreItems, RunsInv, WayInv, PubKeyPassed
  PROVE  Len(runs) = 2 /\ OutputRevealed
<1>1. phase = "scriptPubKey" /\ status = "returned" /\ LeavesTrue(stack)
  BY DEF PubKeyPassed, Returned
<1>2. Len(runs) = 2
  BY PubKeyFine
<1>3. ASSUME is_p2sh(spend.scriptPubKey)
      PROVE  stackCopy # << >> /\ Digest(OP_HASH160, Last(stackCopy)) = OutputHash
  <2>1. PICK b \in Item, s \in Seq(Item) :
          b = spend.scriptPubKey /\ s = stackCopy /\ ScriptHashTurns(b, s)
    BY <1>1, <1>3 DEF WayInv, RunsOutput
  <2>2. PICK rest \in Seq(Item), x \in Item :
          s = Put1(rest, x) /\ Digest(OP_HASH160, x) = SubSeq(b, 3, 22)
    BY <1>1, <2>1, ScriptHashMeans
  <2>3. s # << >> /\ Last(s) = x
    <3>1. s = Append(rest, x)
      BY <2>2 DEF Put1
    <3>2. Len(s) = Len(rest) + 1 /\ Len(rest) \in Nat /\ s[Len(rest) + 1] = x
      BY <3>1, AppendProperties
    <3>3. Len(s) # 0 /\ Last(s) = x
      BY <3>2 DEF Last
    <3>. QED BY <3>3, EmptySeq
  <2>. QED BY <2>1, <2>2, <2>3 DEF OutputHash
<1>. QED BY <1>2, <1>3 DEF OutputRevealed

\* Nothing that these speak of changes.
LEMMA RevealedKept ==
  ASSUME UNCHANGED <<spend, stackCopy>>, OutputRevealed
  PROVE  OutputRevealed'
BY DEF OutputRevealed, OutputHash

LEMMA OffKept ==
  ASSUME UNCHANGED <<spend, stackCopy>>, input'.flags = input.flags, OffProgram
  PROVE  OffProgram'
BY DEF OffProgram, Flag, Redeem

LEMMA OnKept ==
  ASSUME UNCHANGED <<spend, stackCopy, program>>, input'.flags = input.flags, OnProgram
  PROVE  OnProgram'
BY DEF OnProgram, Flag, Redeem

LEMMA ShownKept ==
  ASSUME UNCHANGED <<spend, program>>, ShownByTaproot(program)
  PROVE  ShownByTaproot(program)'
BY DEF ShownByTaproot

LEMMA SettledKept ==
  ASSUME UNCHANGED <<spend, program, runs, input>>, Settled(program)
  PROVE  Settled(program)'
BY DEF Settled, SignedKeyHash, RanWitnessScript, LastRun, ShownByTaproot, Flag

\* A verification that goes wrong, or begins, promises nothing.
LEMMA NothingPromised ==
  ASSUME phase' \in {"begin", "escaped", "scriptSig"} \/ (phase' = "done" /\ verdict' # "OK")
  PROVE  WayInv'
BY DEF WayInv, PastOutput, Accepted

\* One that succeeds promises this.
LEMMA SuccessPromised ==
  ASSUME phase' = "done", Len(runs') >= 2, OutputRevealed',
         \/ OffProgram' /\ (Flag("WITNESS")' => spend'.witness = << >>)
         \/ OnProgram' /\ Settled(program)'
  PROVE  WayInv'
BY DEF WayInv, PastOutput

\* What a witness shows of a taproot output.
LEMMA ScriptShown ==
  ASSUME ShowsScript
  PROVE  phase = "program" /\ program.version = 1 /\ ShownByTaproot(program)
<1>1. phase = "program" /\ program.version = 1
  BY DEF ShowsScript, ScriptPath, Taproot
<1> DEFINE w == TaprootWitness
<1>2. w \in {spend.witness} \cup (IF Len(spend.witness) >= 2 THEN {Front(spend.witness)} ELSE {})
  BY DEF TaprootWitness, HasAnnex
<1>3. Len(w) >= 2 /\ WellSized(Last(w))
  BY DEF ShowsScript, ScriptPath, WrongControlSize, Control, WellSized
<1>4. verify_taproot_commitment(Last(w), program.bytes, w[Len(w) - 1])
  BY DEF ShowsScript, Control, TapScript
<1>. HIDE DEF w
<1>5. ShownByTaproot(program)
  BY <1>2, <1>3, <1>4, Zenon DEF ShownByTaproot
<1>. QED BY <1>1, <1>5

LEMMA KeyShown ==
  ASSUME Taproot, Len(TaprootWitness) = 1, VerifyKeyPath(TaprootWitness[1], program.bytes)
  PROVE  phase = "program" /\ program.version = 1 /\ ShownByTaproot(program)
<1>1. phase = "program" /\ program.version = 1
  BY DEF Taproot
<1> DEFINE w == TaprootWitness
<1>2. w \in {spend.witness} \cup (IF Len(spend.witness) >= 2 THEN {Front(spend.witness)} ELSE {})
  BY DEF TaprootWitness, HasAnnex
<1>3. Len(w) = 1 /\ VerifyKeyPath(w[1], program.bytes)
  OBVIOUS
<1>. HIDE DEF w
<1>4. ShownByTaproot(program)
  BY <1>2, <1>3, Zenon DEF ShownByTaproot
<1>. QED BY <1>1, <1>4

LEMMA ConcludesWay ==
  ASSUME DigestsAreItems, RunsInv, WayInv, Concludes
  PROVE  WayInv'
<1>1. Kept /\ UNCHANGED runs /\ phase' = "done"
  BY DEF Concludes
<1>2. UNCHANGED <<spend, stackCopy, program, input, runs>> /\ input'.flags = input.flags
  BY <1>1 DEF Kept
<1>a. ASSUME Len(runs) >= 2, OutputRevealed, OffProgram, Conclusion(stack, FALSE) = "OK"
      PROVE  WayInv'
  <2>1. OutputRevealed' /\ OffProgram' /\ Len(runs') >= 2
    BY <1>2, <1>a, RevealedKept, OffKept
  <2>2. Flag("WITNESS")' => spend'.witness = << >>
    BY <1>2, <1>a DEF Conclusion, Flag
  <2>. QED BY <1>1, <2>1, <2>2, SuccessPromised
<1>b. ASSUME Len(runs) >= 2, OutputRevealed, OnProgram, Settled(program)
      PROVE  WayInv'
  <2>1. OutputRevealed' /\ OnProgram' /\ Len(runs') >= 2 /\ Settled(program)'
    BY <1>2, <1>b, RevealedKept, OnKept, SettledKept
  <2>. QED BY <1>1, <2>1, SuccessPromised
<1>3. CASE EndLegacy /\ Conclusion(stack, FALSE) = "OK"
  <2>1. CASE PubKeyPassed /\ ~Native /\ ~P2SH
    <3>1. OffProgram
      BY <2>1 DEF OffProgram, Native, P2SH
    <3>. QED BY <1>a, <1>3, <2>1, <3>1, PubKeyReveals
  <2>2. CASE phase = "redeemScript"
    BY <1>a, <1>3, <2>2 DEF WayInv, PastOutput
  <2>. QED BY <1>3, <2>1, <2>2 DEF EndLegacy, Returned
<1>4. CASE UpgradableProgram
  <2>1. phase = "program" /\ Settled(program)
    BY <1>4 DEF UpgradableProgram, Taproot, Size, Settled
  <2>. QED BY <1>b, <2>1 DEF WayInv, PastOutput
<1>5. CASE ShowsScript
  <2>1. phase = "program" /\ program.version = 1 /\ ShownByTaproot(program)
    BY <1>5, ScriptShown
  <2>. QED BY <1>b, <2>1 DEF WayInv, PastOutput, Settled
<1>6. CASE Returned("witnessScript") /\ LeavesTrue(stack)
  <2>1. phase = "witnessScript" /\ status = "returned"
    BY <1>6 DEF Returned
  <2>2. program.version = 0 /\ RunsScript
    BY <2>1 DEF WayInv
  <2>3. CASE Size = 32 /\ RanWitnessScript(program)
    BY <1>b, <2>1, <2>2, <2>3 DEF WayInv, PastOutput, Settled, Size
  <2>4. CASE /\ Size = 20 /\ Len(spend.witness) = 2
             /\ \E hash, sig, key \in Item :
                  /\ hash = program.bytes /\ sig = spend.witness[1] /\ key = spend.witness[2]
                  /\ KeyHashTurns(hash, sig, key)
    <3>1. PICK hash, sig, key \in Item :
            /\ hash = program.bytes /\ sig = spend.witness[1] /\ key = spend.witness[2]
            /\ KeyHashTurns(hash, sig, key)
      BY <2>4
    <3>2. /\ Digest(OP_HASH160, key) = hash
          /\ EcdsaValid(sig, key, Parse(P2WPKHScript(hash)).ops, "WITNESS_V0")
      BY <1>6, <2>1, <3>1, KeyHashMeans
    <3>3. SignedKeyHash(program)
      BY <2>4, <3>1, <3>2 DEF SignedKeyHash
    <3>. QED BY <1>b, <2>1, <2>2, <2>4, <3>3 DEF WayInv, PastOutput, Settled, Size
  <2>. QED BY <2>2, <2>3, <2>4 DEF RunsScript
<1>7. CASE Returned("tapscript") /\ LeavesTrue(stack)
  BY <1>b, <1>7 DEF Returned, WayInv, PastOutput, Settled
<1>. QED BY <1>3, <1>4, <1>5, <1>6, <1>7 DEF Concludes

LEMMA KeyPathWay ==
  ASSUME RunsInv, WayInv, EndsKeyPath
  PROVE  WayInv'
<1>1. Kept /\ phase' = "done" /\ Taproot /\ Len(TaprootWitness) = 1
  BY DEF EndsKeyPath
<1>2. UNCHANGED <<spend, stackCopy, program, input>> /\ input'.flags = input.flags
  BY <1>1 DEF Kept
<1>3. phase = "program" /\ Len(runs) = 2
  BY <1>1 DEF Taproot, RunsInv, RunsByPhase
<1>4. OutputRevealed' /\ OnProgram'
  BY <1>2, <1>3, RevealedKept, OnKept DEF WayInv, PastOutput
<1>5. CASE verdict' # "OK"
  BY <1>1, <1>5, NothingPromised
<1>6. CASE verdict' = "OK"
  <2>1. PICK err : /\ runs' = Append(runs, KeyPathRun(TaprootWitness[1], err))
                   /\ VerifyKeyPath(TaprootWitness[1], program.bytes)
    BY <1>6 DEF EndsKeyPath
  <2>2. PICK r : r = KeyPathRun(TaprootWitness[1], err)
    OBVIOUS
  <2>3. IsRun(r)
    BY <2>2 DEF IsRun, KeyPathRun
  <2>4. Len(runs') = Len(runs) + 1
    BY <2>1, <2>2, <2>3, RunsAppend DEF RunsInv
  <2>5. program.version = 1 /\ ShownByTaproot(program)
    BY <1>1, <2>1, KeyShown
  <2>6. ShownByTaproot(program)' /\ program'.version = 1
    BY <1>2, <2>5, ShownKept
  <2>7. Settled(program)'
    BY <2>6 DEF Settled
  <2>. QED BY <1>1, <1>3, <1>4, <2>4, <2>7, SuccessPromised
<1>. QED BY <1>5, <1>6

LEMMA EvaluateWay ==
  ASSUME DigestsAreItems, RunsInv, TypedInv, WayInv, Evaluate
  PROVE  WayInv'
<1>1. /\ phase \in Role /\ Next /\ phase' = phase
      /\ UNCHANGED <<spend, stackCopy, program>>
  BY DEF Evaluate
<1>2. input' = input /\ input'.flags = input.flags /\ LoopInTurn
  BY <1>1, NextKeepsInput DEF RunsInv, Outcome
<1>3. Len(runs) # 0
  BY <1>1 DEF RunsInv, RunsByPhase, Role
<1>4. /\ Len(runs) \in Nat \ {0} /\ Len(runs') = Len(runs)
      /\ runs'[Len(runs)].role = runs[Len(runs)].role
      /\ runs'[Len(runs)].script = runs[Len(runs)].script
      /\ runs'[Len(runs)].initial = runs[Len(runs)].initial
  BY <1>3, RunsFilled DEF Evaluate, RunsInv
<1>5. phase = "scriptPubKey" => RunsOutput'
  <2>. SUFFICES ASSUME phase = "scriptPubKey", is_p2sh(spend'.scriptPubKey)
                PROVE  \E b \in Item, s \in Seq(Item) :
                         b = spend'.scriptPubKey /\ s = stackCopy' /\ ScriptHashTurns(b, s)'
    BY Zenon DEF RunsOutput
  <2>1. PICK b \in Item, s \in Seq(Item) :
          b = spend.scriptPubKey /\ s = stackCopy /\ ScriptHashTurns(b, s)
    BY <1>1 DEF WayInv, RunsOutput
  <2>2. is_p2sh(b) /\ b = spend'.scriptPubKey /\ s = stackCopy'
    BY <1>1, <2>1
  <2>3. ScriptHashTurns(b, s)'
    BY <1>1, <1>2, <2>1, <2>2, ScriptHashStep
  <2>. QED BY <2>2, <2>3
<1>6. /\ PastOutput => Len(runs) >= 2 /\ OutputRevealed'
      /\ phase = "redeemScript" => OffProgram'
      /\ phase \in {"program", "witnessScript", "tapscript"} => OnProgram'
  BY <1>1, <1>2, RevealedKept, OffKept, OnKept DEF WayInv
<1>7. phase = "witnessScript" => program'.version = 0 /\ RunsScript'
  <2>. SUFFICES ASSUME phase = "witnessScript" PROVE program'.version = 0 /\ RunsScript'
    OBVIOUS
  <2>1. program.version = 0 /\ RunsScript
    BY DEF WayInv
  <2>2. CASE Size = 32 /\ RanWitnessScript(program)
    <3>1. Size' = 32 /\ RanWitnessScript(program)'
      BY <1>1, <1>4, <2>2 DEF Size, RanWitnessScript, LastRun, Last
    <3>. QED BY <1>1, <2>1, <3>1 DEF RunsScript
  <2>3. CASE /\ Size = 20 /\ Len(spend.witness) = 2
             /\ \E hash, sig, key \in Item :
                  /\ hash = program.bytes /\ sig = spend.witness[1] /\ key = spend.witness[2]
                  /\ KeyHashTurns(hash, sig, key)
    <3>1. PICK hash, sig, key \in Item :
            /\ hash = program.bytes /\ sig = spend.witness[1] /\ key = spend.witness[2]
            /\ KeyHashTurns(hash, sig, key)
      BY <2>3
    <3>2. Len(hash) = 20
      BY <2>3, <3>1 DEF Size
    <3>3. KeyHashTurns(hash, sig, key)'
      BY <1>1, <1>2, <3>1, <3>2, KeyHashStep
    <3>4. Size' = 20 /\ Len(spend'.witness) = 2
      BY <1>1, <2>3 DEF Size
    <3>5. hash = program'.bytes /\ sig = spend'.witness[1] /\ key = spend'.witness[2]
      BY <1>1, <3>1
    <3>6. RunsScript'
      BY <3>3, <3>4, <3>5, Zenon DEF RunsScript
    <3>. QED BY <1>1, <2>1, <3>6
  <2>. QED BY <2>1, <2>2, <2>3 DEF RunsScript
<1>8. phase = "tapscript" => program'.version # 0 /\ ShownByTaproot(program)'
  BY <1>1, ShownKept DEF WayInv
<1>9. ~Accepted' /\ (PastOutput' => PastOutput)
  BY <1>1 DEF Accepted, PastOutput, Role
<1>. QED BY <1>1, <1>4, <1>5, <1>6, <1>7, <1>8, <1>9 DEF WayInv

------------------------------------------------------------------------------
\* The run that a script begins.
EnteredRun(role, script, s) ==
  [role |-> role, script |-> script, initial |-> s, final |-> << >>, steps |-> 0,
   error |-> "OK"]

LEMMA EnterAppends ==
  ASSUME RunsInv, TypedInv, NEW role, NEW script, NEW s, NEW version, NEW budget,
         Enter(role, script, s, version, budget)
  PROVE  /\ phase' = role /\ UNCHANGED <<spend, flags>> /\ input'.flags = input.flags
         /\ Len(runs) \in Nat /\ Len(runs') = Len(runs) + 1
         /\ \A i \in 1..Len(runs) : runs'[i] = runs[i]
         /\ runs'[Len(runs) + 1] = EnteredRun(role, script, s)
<1>1. PICK r : r = EnteredRun(role, script, s)
  OBVIOUS
<1>2. IsRun(r)
  BY <1>1 DEF IsRun, EnteredRun
<1>3. runs' = Append(runs, r)
  BY <1>1 DEF Enter, EnteredRun
<1>4. /\ Len(runs) \in Nat /\ Len(runs') = Len(runs) + 1
      /\ \A i \in 1..Len(runs) : runs'[i] = runs[i]
      /\ runs'[Len(runs) + 1] = r
  BY <1>2, <1>3, RunsAppend DEF RunsInv
<1>5. input'.flags = input.flags
  BY EnterKeeps DEF TypedInv
<1>. QED BY <1>1, <1>4, <1>5, EnterKeeps

\* The machine at the start of an evaluation.
LEMMA EnterEvaluates ==
  ASSUME NEW role, NEW script, NEW s, NEW version, NEW budget, NEW n \in Nat,
         Enter(role, script, s, version, budget)
  PROVE  /\ Evaluates(Parse(script), n)'
         /\ stack' = s /\ pc' = 0 /\ input'.sigVersion = version
<1>1. /\ input' = EvalOf(script, s, version, budget)
      /\ status' = "start" /\ pc' = 0 /\ stack' = s /\ execStack' = << >>
      /\ codesep' = 0 /\ loopPhase' = "idle"
  BY DEF Enter
<1>2. input'.script = Parse(script) /\ input'.sigVersion = version
  BY <1>1 DEF EvalOf
<1>3. 0 \in 0..n
  OBVIOUS
<1>. QED BY <1>1, <1>2, <1>3 DEF Evaluates

LEMMA ScriptPubKeyWay ==
  ASSUME RunsInv, TypedInv, EvalScriptPubKey
  PROVE  WayInv'
<1>1. /\ phase = "scriptSig" /\ stackCopy' = stack
      /\ Enter("scriptPubKey", spend.scriptPubKey, stack, "BASE", 0)
  BY DEF EvalScriptPubKey, Returned
<1>2. phase' = "scriptPubKey" /\ spend' = spend
  BY <1>1, EnterKeeps
<1>3. PICK b \in Item, s \in Seq(Item) : b = spend.scriptPubKey /\ s = stack
  BY <1>1, WitnessTypes DEF TypedInv, Role, TypeInv, TypeOK
<1>4. Enter("scriptPubKey", b, s, "BASE", 0)
  BY <1>1, <1>3
<1>5. 3 \in Nat
  OBVIOUS
<1>6. Evaluates(Parse(b), 3)' /\ stack' = s /\ pc' = 0 /\ input'.sigVersion = "BASE"
  BY <1>4, <1>5, EnterEvaluates
<1>7. ScriptHashTurns(b, s)'
  BY <1>6 DEF ScriptHashTurns, ScriptHashStack, Tapscript
<1>8. b = spend'.scriptPubKey /\ s = stackCopy'
  BY <1>1, <1>2, <1>3
<1>9. RunsOutput'
  BY <1>7, <1>8, Zenon DEF RunsOutput
<1>. QED BY <1>2, <1>9 DEF WayInv, PastOutput, Accepted

LEMMA RedeemScriptWay ==
  ASSUME DigestsAreItems, RunsInv, TypedInv, WayInv, EvalRedeemScript
  PROVE  WayInv'
<1>1. /\ PubKeyPassed /\ P2SH /\ ~Nested /\ UNCHANGED <<stackCopy, program>>
      /\ Enter("redeemScript", Redeem, BelowRedeem, "BASE", 0)
  BY DEF EvalRedeemScript, P2SHPassed
<1>2. /\ phase' = "redeemScript" /\ UNCHANGED spend /\ input'.flags = input.flags
      /\ Len(runs') = Len(runs) + 1
  BY <1>1, EnterAppends
<1>3. Len(runs) = 2 /\ OutputRevealed
  BY <1>1, PubKeyReveals
<1>4. OffProgram
  BY <1>1 DEF OffProgram, P2SH, Native, Nested
<1>5. OutputRevealed' /\ OffProgram'
  BY <1>1, <1>2, <1>3, <1>4, RevealedKept, OffKept
<1>. QED BY <1>2, <1>3, <1>5 DEF WayInv, PastOutput, Accepted

\* What does not depend on the script that a program begins.
LEMMA ProgramGoesOn ==
  ASSUME RunsInv, TypedInv, WayInv, phase = "program",
         NEW role, NEW script, NEW s, NEW version, NEW budget,
         Enter(role, script, s, version, budget), UNCHANGED <<stackCopy, program>>
  PROVE  /\ phase' = role /\ UNCHANGED spend
         /\ Len(runs) = 2 /\ Len(runs') = 3 /\ OutputRevealed' /\ OnProgram'
         /\ runs'[3] = EnteredRun(role, script, s)
<1>1. /\ phase' = role /\ UNCHANGED spend /\ input'.flags = input.flags
      /\ Len(runs') = Len(runs) + 1
      /\ runs'[Len(runs) + 1] = EnteredRun(role, script, s)
  BY EnterAppends
<1>2. Len(runs) = 2
  BY DEF RunsInv, RunsByPhase
<1>3. OutputRevealed' /\ OnProgram'
  BY <1>1, RevealedKept, OnKept DEF WayInv, PastOutput
<1>. QED BY <1>1, <1>2, <1>3

LEMMA P2WSHWay ==
  ASSUME RunsInv, TypedInv, WayInv, BeginsP2WSH
  PROVE  WayInv'
<1>1. /\ phase = "program" /\ program.version = 0 /\ Size = 32
      /\ spend.witness # << >> /\ Digest(OP_SHA256, Last(spend.witness)) = program.bytes
      /\ Enter("witnessScript", Last(spend.witness), Front(spend.witness), "WITNESS_V0", 0)
      /\ UNCHANGED <<stackCopy, program>>
  BY DEF BeginsP2WSH, V0, P2WSHRefusal
<1>2. /\ phase' = "witnessScript" /\ UNCHANGED spend
      /\ Len(runs') = 3 /\ OutputRevealed' /\ OnProgram'
      /\ runs'[3] = EnteredRun("witnessScript", Last(spend.witness), Front(spend.witness))
  BY <1>1, ProgramGoesOn
<1>3. PICK r : r = runs'[3]
  OBVIOUS
<1>4. r.role = "witnessScript" /\ r.script = Last(spend.witness)
      /\ r.initial = Front(spend.witness)
  BY <1>2, <1>3 DEF EnteredRun
<1>5. LastRun' = r
  BY <1>2, <1>3 DEF LastRun, Last
<1>6. RanWitnessScript(program)'
  BY <1>1, <1>2, <1>4, <1>5 DEF RanWitnessScript
<1>7. RunsScript'
  BY <1>1, <1>6 DEF RunsScript, Size
<1>. QED BY <1>1, <1>2, <1>7 DEF WayInv, PastOutput, Accepted

\* A pair is a stack with two items.
LEMMA PairIsPut ==
  ASSUME NEW w \in Seq(Item), Len(w) = 2
  PROVE  w = Put2(<< >>, w[1], w[2])
<1>0. Len(w) >= 2
  OBVIOUS
<1>1. PICK b \in Seq(Item), x, y \in Item : w = Put2(b, x, y) /\ Len(w) = Len(b) + 2
  BY <1>0, TakeTwo
<1>2. Len(b) = 0
  <2>1. Len(b) \in Nat
    BY LenProperties
  <2>. QED BY <1>1, <2>1
<1>3. b = << >>
  BY <1>2, EmptySeq
<1>4. w[1] = x /\ w[2] = y
  BY <1>1, <1>3 DEF Put2
<1>. QED BY <1>1, <1>3, <1>4

LEMMA P2WPKHWay ==
  ASSUME RunsInv, TypedInv, WayInv, BeginsP2WPKH
  PROVE  WayInv'
<1>1. /\ phase = "program" /\ program.version = 0 /\ Size = 20 /\ Len(spend.witness) = 2
      /\ Enter("witnessScript", P2WPKHScript(program.bytes), spend.witness, "WITNESS_V0", 0)
      /\ UNCHANGED <<stackCopy, program>>
  BY DEF BeginsP2WPKH, V0
<1>2. /\ phase' = "witnessScript" /\ UNCHANGED spend
      /\ Len(runs') = 3 /\ OutputRevealed' /\ OnProgram'
  BY <1>1, ProgramGoesOn
<1>3. spend.witness \in Seq(Item) /\ program.bytes \in Item
  BY WitnessTypes DEF TypedInv
<1>4. 1 \in 1..Len(spend.witness) /\ 2 \in 1..Len(spend.witness)
  BY <1>1
<1>5. PICK hash, sig, key \in Item :
        hash = program.bytes /\ sig = spend.witness[1] /\ key = spend.witness[2]
  BY <1>3, <1>4, ElementOfSeq
<1>6. PICK w \in Seq(Item) : w = spend.witness
  BY <1>3
<1>7. w = Put2(<< >>, sig, key)
  BY <1>1, <1>5, <1>6, PairIsPut
<1>8. 5 \in Nat /\ Enter("witnessScript", P2WPKHScript(hash), w, "WITNESS_V0", 0)
  BY <1>1, <1>5, <1>6
<1>9. /\ Evaluates(Parse(P2WPKHScript(hash)), 5)' /\ stack' = w /\ pc' = 0
      /\ input'.sigVersion = "WITNESS_V0"
  BY <1>8, EnterEvaluates
<1>10. KeyHashTurns(hash, sig, key)'
  BY <1>7, <1>9 DEF KeyHashTurns, KeyHashStack
<1>11. /\ hash = program'.bytes /\ sig = spend'.witness[1] /\ key = spend'.witness[2]
       /\ Size' = 20 /\ Len(spend'.witness) = 2
  BY <1>1, <1>2, <1>5 DEF Size
<1>12. RunsScript'
  BY <1>10, <1>11, Zenon DEF RunsScript
<1>. QED BY <1>1, <1>2, <1>12 DEF WayInv, PastOutput, Accepted

LEMMA TapscriptWay ==
  ASSUME RunsInv, TypedInv, WayInv, BeginsTapscript
  PROVE  WayInv'
<1>1. /\ ShowsScript /\ UNCHANGED <<stackCopy, program>>
      /\ Enter("tapscript", TapScript, TapStack, "TAPSCRIPT",
               50 + witness_serialized_size(spend.witness))
  BY DEF BeginsTapscript
<1>2. phase = "program" /\ program.version = 1 /\ ShownByTaproot(program)
  BY <1>1, ScriptShown
<1>3. /\ phase' = "tapscript" /\ UNCHANGED spend
      /\ Len(runs') = 3 /\ OutputRevealed' /\ OnProgram'
  BY <1>1, <1>2, ProgramGoesOn
<1>4. ShownByTaproot(program)'
  BY <1>1, <1>2, <1>3, ShownKept
<1>. QED BY <1>1, <1>2, <1>3, <1>4 DEF WayInv, PastOutput, Accepted

LEMMA ProgramWay ==
  ASSUME DigestsAreItems, RunsInv, WayInv, TakesNative \/ TakesNested
  PROVE  WayInv'
<1>1. PubKeyPassed
  BY DEF TakesNative, TakesNested, P2SHPassed
<1>2. Len(runs) = 2 /\ OutputRevealed
  BY <1>1, PubKeyReveals
<1>3. /\ phase' = "program" /\ UNCHANGED <<input, spend, stackCopy, runs>>
  BY DEF TakesNative, TakesNested, VerifyProgram, vars, evalVars, runVars, traceVars
<1>4. Len(runs') >= 2 /\ OutputRevealed'
  BY <1>2, <1>3, RevealedKept
<1>5. CASE TakesNative
  <2>1. /\ Flag("WITNESS") /\ IsWitnessProgram(spend.scriptPubKey)
        /\ spend.scriptSig = << >> /\ program' = witness_program(spend.scriptPubKey)
    BY <1>5 DEF TakesNative, Native, VerifyProgram
  <2>2. OnProgram'
    BY <1>3, <2>1 DEF OnProgram, Flag
  <2>. QED BY <1>3, <1>4, <2>2 DEF WayInv, PastOutput, Accepted
<1>6. CASE TakesNested
  <2>1. /\ Flag("WITNESS") /\ Flag("P2SH") /\ is_p2sh(spend.scriptPubKey)
        /\ IsWitnessProgram(Redeem)
        /\ spend.scriptSig = PushBytes(Redeem) /\ program' = witness_program(Redeem)
    BY <1>6 DEF TakesNested, Nested, P2SHPassed, P2SH, VerifyProgram
  <2>2. Redeem' = Redeem
    BY <1>3 DEF Redeem
  <2>3. OnProgram'
    BY <1>3, <2>1, <2>2 DEF OnProgram, Flag
  <2>. QED BY <1>3, <1>4, <2>3 DEF WayInv, PastOutput, Accepted
<1>. QED BY <1>5, <1>6

LEMMA WayStep ==
  ASSUME DigestsAreItems, RunsInv, TypedInv, WayInv, [VerifyNext]_allVars
  PROVE  WayInv'
<1>1. CASE Stops
  BY <1>1, NothingPromised DEF Stops
<1>2. CASE BeginsScriptSig
  <2>1. phase' = "scriptSig"
    BY <1>2, EnterKeeps DEF BeginsScriptSig
  <2>. QED BY <2>1, NothingPromised
<1>3. CASE \E f \in FlagSets : VerifyAgain(f)
  BY <1>3, NothingPromised DEF VerifyAgain
<1>4. CASE UNCHANGED allVars
  <2>1. UNCHANGED <<spend, phase, stackCopy, program, runs, verdict, vars>>
    BY <1>4 DEF allVars, verifyVars, traceVars
  <2>2. UNCHANGED <<input, status, pc, stack, execStack, codesep, loopPhase>>
    BY <2>1 DEF vars, evalVars, runVars, codeVars, multisigVars
  <2>3. UNCHANGED <<OutputRevealed, OffProgram, OnProgram, Accepted, PastOutput>>
    BY <2>1, <2>2 DEF OutputRevealed, OutputHash, OffProgram, OnProgram, Accepted, PastOutput,
                      Flag, Redeem
  <2>4. RunsOutput => RunsOutput'
    BY <2>1, <2>2 DEF RunsOutput, ScriptHashTurns, ScriptHashStack, Evaluates, Tapscript
  <2>5. RunsScript => RunsScript'
    BY <2>1, <2>2 DEF RunsScript, KeyHashTurns, KeyHashStack, Evaluates, Size,
                      RanWitnessScript, LastRun
  <2>6. /\ ShownByTaproot(program) => ShownByTaproot(program)'
        /\ Settled(program) => Settled(program)'
    BY <2>1, <2>2, ShownKept, SettledKept
  <2>7. Flag("WITNESS")' = Flag("WITNESS")
    BY <2>2 DEF Flag
  <2>. QED BY <2>1, <2>3, <2>4, <2>5, <2>6, <2>7 DEF WayInv
<1>. QED BY <1>1, <1>2, <1>3, <1>4, ConcludesWay, KeyPathWay, EvaluateWay, ScriptPubKeyWay,
            RedeemScriptWay, P2WSHWay, P2WPKHWay, TapscriptWay, ProgramWay, VerifyForms
         DEF VerifyNext

LEMMA WayInit == VerifyInit => WayInv
BY DEF VerifyInit, WayInv, PastOutput, Accepted

------------------------------------------------------------------------------
(* The stacks that are handed over.                                        *)

LEMMA PrefixOf ==
  ASSUME NEW S, NEW s \in Seq(S), NEW n \in 0..Len(s)
  PROVE  IsPrefix(SubSeq(s, 1, n), s)
<1>1. PICK t : t = SubSeq(s, 1, n)
  OBVIOUS
<1>2. t \in Seq(S) /\ Len(t) = n
  BY <1>1, DropType
<1>3. SubSeq(t, 1, Len(t)) = t
  BY <1>2, SubSeqFull
<1>4. Len(t) <= Len(s)
  BY <1>2
<1>. QED BY <1>1, <1>2, <1>3, <1>4 DEF IsPrefix

LEMMA WholePrefix ==
  ASSUME NEW S, NEW s \in Seq(S)
  PROVE  IsPrefix(s, s)
<1>1. Len(s) \in Nat
  BY LenProperties
<1>. QED BY <1>1 DEF IsPrefix

\* A prefix of a prefix.
LEMMA PrefixOfFront ==
  ASSUME NEW S, NEW s \in Seq(S), NEW n \in 0..Len(s), NEW m \in 0..n
  PROVE  SubSeq(SubSeq(s, 1, n), 1, m) = SubSeq(s, 1, m)
<1>1. PICK t : t = SubSeq(s, 1, n)
  OBVIOUS
<1>2. t \in Seq(S) /\ Len(t) = n /\ \A i \in 1..n : t[i] = s[i]
  BY <1>1, DropType
<1>3. PICK u, v : u = SubSeq(t, 1, m) /\ v = SubSeq(s, 1, m)
  OBVIOUS
<1>4. m \in 0..Len(t) /\ m \in 0..Len(s)
  BY <1>2
<1>5. u \in Seq(S) /\ Len(u) = m /\ \A i \in 1..m : u[i] = t[i]
  BY <1>2, <1>3, <1>4, DropType
<1>6. v \in Seq(S) /\ Len(v) = m /\ \A i \in 1..m : v[i] = s[i]
  BY <1>3, <1>4, DropType
<1>7. \A i \in 1..m : u[i] = v[i]
  BY <1>2, <1>5, <1>6
<1>8. u = v
  BY <1>5, <1>6, <1>7, SeqEqual
<1>. QED BY <1>1, <1>3, <1>8

\* The witness without its annex, and what is left of it for the script.
LEMMA TaprootWitnessIs ==
  ASSUME spend \in Spend
  PROVE  \E n \in 0..Len(spend.witness) :
           TaprootWitness = SubSeq(spend.witness, 1, n) /\ Len(TaprootWitness) = n
<1>1. PICK w \in Seq(Item) : w = spend.witness
  BY WitnessTypes
<1>2. Len(w) \in Nat
  BY <1>1, LenProperties
<1>3. CASE HasAnnex
  <2>1. Len(w) - 1 \in 0..Len(w)
    BY <1>1, <1>2, <1>3 DEF HasAnnex
  <2>2. TaprootWitness = SubSeq(w, 1, Len(w) - 1)
    BY <1>1, <1>3 DEF TaprootWitness, Front
  <2>3. Len(SubSeq(w, 1, Len(w) - 1)) = Len(w) - 1
    BY <1>1, <2>1, DropType
  <2>. QED BY <1>1, <2>1, <2>2, <2>3
<1>4. CASE ~HasAnnex
  <2>1. TaprootWitness = w /\ SubSeq(w, 1, Len(w)) = w /\ Len(w) \in 0..Len(w)
    BY <1>1, <1>2, <1>4, SubSeqFull DEF TaprootWitness
  <2>. QED BY <1>1, <2>1
<1>. QED BY <1>3, <1>4

LEMMA TapStackPrefix ==
  ASSUME spend \in Spend, Len(TaprootWitness) >= 2
  PROVE  IsPrefix(TapStack, spend.witness)
<1>1. PICK w \in Seq(Item) : w = spend.witness
  BY WitnessTypes
<1>2. PICK n \in 0..Len(w) : TaprootWitness = SubSeq(w, 1, n) /\ Len(TaprootWitness) = n
  BY <1>1, TaprootWitnessIs
<1>3. Len(w) \in Nat
  BY <1>1, LenProperties
<1>4. PICK m : m = n - 2
  OBVIOUS
<1>5. m \in 0..n /\ m \in 0..Len(w)
  BY <1>2, <1>3, <1>4
<1>6. TapStack = SubSeq(SubSeq(w, 1, n), 1, m)
  BY <1>2, <1>4 DEF TapStack
<1>7. SubSeq(SubSeq(w, 1, n), 1, m) = SubSeq(w, 1, m)
  BY <1>5, PrefixOfFront
<1>8. IsPrefix(SubSeq(w, 1, m), w)
  BY <1>5, PrefixOf
<1>. QED BY <1>1, <1>6, <1>7, <1>8

LEMMA KeySigPrefix ==
  ASSUME spend \in Spend, Len(TaprootWitness) = 1
  PROVE  IsPrefix(<<TaprootWitness[1]>>, spend.witness)
<1>1. PICK w \in Seq(Item) : w = spend.witness
  BY WitnessTypes
<1>2. PICK n \in 0..Len(w) : TaprootWitness = SubSeq(w, 1, n) /\ Len(TaprootWitness) = n
  BY <1>1, TaprootWitnessIs
<1>3. PICK t : t = SubSeq(w, 1, 1)
  OBVIOUS
<1>4. TaprootWitness = t /\ 1 \in 0..Len(w)
  BY <1>2, <1>3
<1>5. t \in Seq(Item) /\ Len(t) = 1
  BY <1>3, <1>4, DropType
<1>6. <<t[1]>> = t
  BY <1>5
<1>7. IsPrefix(SubSeq(w, 1, 1), w)
  BY <1>4, PrefixOf
<1>. QED BY <1>1, <1>3, <1>4, <1>6, <1>7

LEMMA FrontPrefix ==
  ASSUME NEW S, NEW s \in Seq(S), s # << >>
  PROVE  IsPrefix(Front(s), s) /\ Append(Front(s), Last(s)) = s
<1>1. PICK b \in Seq(S), x \in S : s = Append(b, x)
  BY SequenceEmptyOrAppend
<1>2. Len(s) \in Nat \ {0}
  BY EmptySeq
<1>3. Len(s) - 1 \in 0..Len(s)
  BY <1>2
<1>4. IsPrefix(Front(s), s)
  BY <1>3, PrefixOf DEF Front
<1>5. Front(s) = b /\ Last(s) = x
  BY <1>1 DEF Front, Last
<1>. QED BY <1>1, <1>4, <1>5

------------------------------------------------------------------------------
LEMMA HandedKept ==
  ASSUME UNCHANGED <<runs, spend, stackCopy>>, HandedInv
  PROVE  HandedInv'
BY DEF HandedInv

\* The run of the third script.
LEMMA HandedThird ==
  ASSUME HandedInv, Len(runs) = 2, Len(runs') = 3,
         runs'[1] = runs[1], runs'[2] = runs[2], UNCHANGED <<spend, stackCopy>>,
         NEW role \in {"redeemScript", "witnessScript", "tapscript", "keypath"},
         NEW script, NEW s, runs'[3].role = role, runs'[3].script = script,
         runs'[3].initial = s,
         role = "redeemScript" => Append(s, script) = stackCopy,
         role # "redeemScript" => IsPrefix(s, spend.witness)
  PROVE  HandedInv'
BY DEF HandedInv

LEMMA EnterThird ==
  ASSUME RunsInv, TypedInv, HandedInv, Len(runs) = 2,
         NEW role \in {"redeemScript", "witnessScript", "tapscript"},
         NEW script, NEW s, NEW version, NEW budget,
         Enter(role, script, s, version, budget), UNCHANGED stackCopy,
         role = "redeemScript" => Append(s, script) = stackCopy,
         role # "redeemScript" => IsPrefix(s, spend.witness)
  PROVE  HandedInv'
<1>1. /\ UNCHANGED spend
      /\ Len(runs') = Len(runs) + 1
      /\ \A i \in 1..Len(runs) : runs'[i] = runs[i]
      /\ runs'[Len(runs) + 1] = EnteredRun(role, script, s)
  BY EnterAppends
<1>2. PICK r : r = runs'[3]
  OBVIOUS
<1>3. r.role = role /\ r.script = script /\ r.initial = s
  BY <1>1, <1>2 DEF EnteredRun
<1>4. Len(runs') = 3 /\ runs'[1] = runs[1] /\ runs'[2] = runs[2]
  BY <1>1
<1>. QED BY <1>1, <1>2, <1>3, <1>4, HandedThird

LEMMA HandedEvaluate ==
  ASSUME RunsInv, HandedInv, Evaluate
  PROVE  HandedInv'
<1>1. UNCHANGED <<spend, stackCopy>> /\ Len(runs) \in 1..3
  BY DEF Evaluate, RunsInv, RunsByPhase, Role
<1>2. Len(runs) # 0
  BY <1>1
<1>3. PICK n \in 1..3 : n = Len(runs)
  BY <1>1
<1>4. /\ Len(runs') = n
      /\ \A i \in 1..(n - 1) : runs'[i] = runs[i]
      /\ runs'[n].role = runs[n].role
      /\ runs'[n].script = runs[n].script
      /\ runs'[n].initial = runs[n].initial
  BY <1>2, <1>3, RunsFilled DEF Evaluate, RunsInv
<1>5. CASE n = 1
  BY <1>1, <1>3, <1>4, <1>5 DEF HandedInv
<1>6. CASE n = 2
  <2>1. runs'[1] = runs[1]
    BY <1>4, <1>6
  <2>. QED BY <1>1, <1>3, <1>4, <1>6, <2>1 DEF HandedInv
<1>7. CASE n = 3
  <2>1. runs'[1] = runs[1] /\ runs'[2] = runs[2]
    BY <1>4, <1>7
  <2>. QED BY <1>1, <1>3, <1>4, <1>7, <2>1 DEF HandedInv
<1>. QED BY <1>5, <1>6, <1>7

LEMMA HandedVerify ==
  ASSUME DigestsAreItems, RunsInv, TypedInv, WayInv, HandedInv, Verify
  PROVE  HandedInv'
<1>0. spend \in Spend /\ spend.witness \in Seq(Item) /\ stackCopy \in Seq(Item)
  BY WitnessTypes DEF TypedInv
<1>1. CASE Stops \/ Concludes
  BY <1>1, HandedKept DEF Stops, Concludes, Kept
<1>2. CASE EndsKeyPath
  <2>1. Kept /\ Taproot /\ Len(TaprootWitness) = 1 /\ UNCHANGED <<spend, stackCopy>>
    BY <1>2 DEF EndsKeyPath, Kept
  <2>2. Len(runs) = 2
    BY <2>1 DEF Taproot, RunsInv, RunsByPhase
  <2>3. CASE UNCHANGED runs
    BY <2>1, <2>3, HandedKept
  <2>4. CASE \E err : runs' = Append(runs, KeyPathRun(TaprootWitness[1], err))
    <3>1. PICK err : runs' = Append(runs, KeyPathRun(TaprootWitness[1], err))
      BY <2>4
    <3>2. PICK r : r = KeyPathRun(TaprootWitness[1], err)
      OBVIOUS
    <3>3. /\ IsRun(r) /\ r.role = "keypath" /\ r.script = program.bytes
          /\ r.initial = <<TaprootWitness[1]>>
      BY <3>2 DEF IsRun, KeyPathRun
    <3>4. /\ Len(runs') = Len(runs) + 1
          /\ \A i \in 1..Len(runs) : runs'[i] = runs[i]
          /\ runs'[Len(runs) + 1] = r
      BY <3>1, <3>2, <3>3, RunsAppend DEF RunsInv
    <3>5. /\ Len(runs') = 3 /\ runs'[1] = runs[1] /\ runs'[2] = runs[2] /\ runs'[3] = r
      BY <2>2, <3>4
    <3>6. IsPrefix(<<TaprootWitness[1]>>, spend.witness)
      BY <1>0, <2>1, KeySigPrefix
    <3>. QED BY <2>1, <2>2, <3>3, <3>5, <3>6, HandedThird
  <2>. QED BY <1>2, <2>3, <2>4 DEF EndsKeyPath
<1>3. CASE BeginsScriptSig
  <2>1. /\ phase = "begin" /\ Enter("scriptSig", spend.scriptSig, << >>, "BASE", 0)
        /\ UNCHANGED stackCopy
    BY <1>3 DEF BeginsScriptSig
  <2>2. Len(runs) = 0
    BY <2>1 DEF RunsInv, RunsByPhase
  <2>3. /\ UNCHANGED spend /\ Len(runs') = Len(runs) + 1
        /\ runs'[Len(runs) + 1] = EnteredRun("scriptSig", spend.scriptSig, << >>)
    BY <2>1, EnterAppends
  <2>4. /\ Len(runs') = 1
        /\ runs'[1] = EnteredRun("scriptSig", spend.scriptSig, << >>)
    BY <2>2, <2>3
  <2>5. /\ runs'[1].role = "scriptSig" /\ runs'[1].script = spend.scriptSig
        /\ runs'[1].initial = << >>
    BY <2>4 DEF EnteredRun
  <2>6. spend' = spend /\ ~(Len(runs') >= 2) /\ Len(runs') <= 3 /\ Len(runs') # 3
    <3>1. spend' = spend
      BY <2>3
    <3>2. \A n : n = 1 => ~(n >= 2) /\ n <= 3 /\ n # 3
      OBVIOUS
    <3>. QED BY <2>4, <3>1, <3>2, Zenon
  <2>. QED BY <2>5, <2>6 DEF HandedInv
<1>4. CASE EvalScriptPubKey
  <2>1. /\ Returned("scriptSig") /\ stackCopy' = stack
        /\ Enter("scriptPubKey", spend.scriptPubKey, stack, "BASE", 0)
    BY <1>4 DEF EvalScriptPubKey
  <2>2. "scriptSig" \in Role
    BY DEF Role
  <2>3. Len(runs) = 1
    BY <2>1 DEF Returned, RunsInv, RunsByPhase
  <2>4. runs[Len(runs)].final = stack
    BY <2>1, <2>2, ReturnedFine
  <2>5. /\ UNCHANGED spend /\ Len(runs') = Len(runs) + 1
        /\ \A i \in 1..Len(runs) : runs'[i] = runs[i]
        /\ runs'[Len(runs) + 1] = EnteredRun("scriptPubKey", spend.scriptPubKey, stack)
    BY <2>1, EnterAppends
  <2>6. /\ Len(runs') = 2 /\ runs'[1] = runs[1] /\ runs[1].final = stack
        /\ runs'[2] = EnteredRun("scriptPubKey", spend.scriptPubKey, stack)
    BY <2>3, <2>4, <2>5
  <2>7. runs'[2].role = "scriptPubKey" /\ runs'[2].initial = stack
    BY <2>6 DEF EnteredRun
  <2>. QED BY <2>1, <2>3, <2>5, <2>6, <2>7 DEF HandedInv
<1>5. CASE EvalRedeemScript
  <2>1. /\ PubKeyPassed /\ P2SH /\ UNCHANGED stackCopy
        /\ Enter("redeemScript", Redeem, BelowRedeem, "BASE", 0)
    BY <1>5 DEF EvalRedeemScript, P2SHPassed
  <2>2. Len(runs) = 2 /\ stackCopy # << >>
    BY <2>1, PubKeyReveals DEF OutputRevealed, P2SH
  <2>3. Append(BelowRedeem, Redeem) = stackCopy
    BY <1>0, <2>2, FrontPrefix DEF Redeem, BelowRedeem
  <2>. QED BY <2>1, <2>2, <2>3, EnterThird
<1>6. CASE BeginsP2WSH
  <2>1. /\ phase = "program" /\ spend.witness # << >> /\ UNCHANGED stackCopy
        /\ Enter("witnessScript", Last(spend.witness), Front(spend.witness), "WITNESS_V0", 0)
    BY <1>6 DEF BeginsP2WSH, V0, P2WSHRefusal
  <2>2. Len(runs) = 2
    BY <2>1 DEF RunsInv, RunsByPhase
  <2>3. IsPrefix(Front(spend.witness), spend.witness)
    BY <1>0, <2>1, FrontPrefix
  <2>. QED BY <2>1, <2>2, <2>3, EnterThird
<1>7. CASE BeginsP2WPKH
  <2>1. /\ phase = "program" /\ UNCHANGED stackCopy
        /\ Enter("witnessScript", P2WPKHScript(program.bytes), spend.witness, "WITNESS_V0", 0)
    BY <1>7 DEF BeginsP2WPKH, V0
  <2>2. Len(runs) = 2
    BY <2>1 DEF RunsInv, RunsByPhase
  <2>3. IsPrefix(spend.witness, spend.witness)
    BY <1>0, WholePrefix
  <2>. QED BY <2>1, <2>2, <2>3, EnterThird
<1>8. CASE BeginsTapscript
  <2>1. /\ phase = "program" /\ UNCHANGED stackCopy /\ Len(TaprootWitness) >= 2
        /\ Enter("tapscript", TapScript, TapStack, "TAPSCRIPT",
                 50 + witness_serialized_size(spend.witness))
    BY <1>8 DEF BeginsTapscript, ShowsScript, ScriptPath, Taproot
  <2>2. Len(runs) = 2
    BY <2>1 DEF RunsInv, RunsByPhase
  <2>3. IsPrefix(TapStack, spend.witness)
    BY <1>0, <2>1, TapStackPrefix
  <2>. QED BY <2>1, <2>2, <2>3, EnterThird
<1>9. CASE TakesNative \/ TakesNested
  BY <1>9, HandedKept DEF TakesNative, TakesNested, VerifyProgram, traceVars
<1>. QED BY <1>1, <1>2, <1>3, <1>4, <1>5, <1>6, <1>7, <1>8, <1>9, HandedEvaluate, VerifyForms

LEMMA HandedStep ==
  ASSUME DigestsAreItems, RunsInv, TypedInv, WayInv, HandedInv, [VerifyNext]_allVars
  PROVE  HandedInv'
<1>1. CASE \E f \in FlagSets : VerifyAgain(f)
  <2>1. runs' = << >>
    BY <1>1 DEF VerifyAgain
  <2>. QED BY <2>1 DEF HandedInv
<1>2. CASE UNCHANGED allVars
  BY <1>2, HandedKept DEF allVars, verifyVars, traceVars
<1>. QED BY <1>1, <1>2, HandedVerify DEF VerifyNext

\* Everything that holds of a verification, made inductive.
LEMMA SpendInit == VerifyInit => SpendInv
<1>1. VerifyInit => RunsInv
  BY VerifyInitInv DEF VerifyInv
<1>2. VerifyInit => HandedInv
  <2>1. VerifyInit => Len(runs) = 0
    BY EmptySeq DEF VerifyInit
  <2>2. \A n : n = 0 => n <= 3 /\ ~(n >= 1) /\ ~(n >= 2) /\ n # 3
    OBVIOUS
  <2>. QED BY <2>1, <2>2, Zenon DEF HandedInv
<1>. QED BY <1>1, <1>2, TypedInit, WayInit DEF SpendInv

LEMMA SpendStep ==
  ASSUME DigestsAreItems, SpendInv, [VerifyNext]_allVars
  PROVE  SpendInv'
BY RunsStep, TypedStep, WayStep, HandedStep DEF SpendInv
------------------------------------------------------------------------------
(* What follows.                                                           *)

LEMMA HandedMeans ==
  ASSUME SpendInv
  PROVE  StackHandOver
<1>1. Len(runs) \in Nat /\ DOMAIN runs = 1..Len(runs) /\ Len(runs) <= 3
  BY RunsLength DEF SpendInv, RunsInv, HandedInv
<1>2. PICK rs : rs = Roles
  OBVIOUS
<1>3. rs = [i \in 1..Len(runs) |-> runs[i].role]
  BY <1>1, <1>2 DEF Roles
<1>4. PICK two : two = <<"scriptSig", "scriptPubKey">>
  OBVIOUS
<1>5. \E tail \in {<< >>, <<"redeemScript">>, <<"witnessScript">>, <<"tapscript">>,
                   <<"keypath">>} : IsPrefix(rs, two \o tail)
  <2>1. CASE Len(runs) = 0
    <3>1. rs = << >>
      BY <1>3, <2>1
    <3>2. IsPrefix(rs, two \o << >>)
      BY <1>4, <3>1 DEF IsPrefix
    <3>. QED BY <3>2
  <2>2. CASE Len(runs) = 1
    <3>1. rs = <<"scriptSig">>
      BY <1>3, <2>2 DEF SpendInv, HandedInv
    <3>2. IsPrefix(rs, two \o << >>)
      BY <1>4, <3>1 DEF IsPrefix
    <3>. QED BY <3>2
  <2>3. CASE Len(runs) = 2
    <3>1. rs = two
      BY <1>3, <1>4, <2>3 DEF SpendInv, HandedInv
    <3>2. IsPrefix(rs, two \o << >>)
      BY <1>4, <3>1 DEF IsPrefix
    <3>. QED BY <3>2
  <2>4. CASE Len(runs) = 3
    <3>1. PICK role \in {"redeemScript", "witnessScript", "tapscript", "keypath"} :
            role = runs[3].role
      BY <2>4 DEF SpendInv, HandedInv
    <3>2. rs = <<"scriptSig", "scriptPubKey", role>>
      BY <1>3, <2>4, <3>1 DEF SpendInv, HandedInv
    <3>3. IsPrefix(rs, two \o <<role>>)
      BY <1>4, <3>2 DEF IsPrefix
    <3>. QED BY <3>1, <3>3
  <2>. QED BY <1>1, <2>1, <2>2, <2>3, <2>4
<1>6. runs # << >> => Len(runs) >= 1
  <2>1. PICK S : runs \in Seq(S)
    BY DEF SpendInv, RunsInv, RunList
  <2>. QED BY <2>1, EmptySeq
<1>. QED BY <1>1, <1>2, <1>4, <1>5, <1>6 DEF SpendInv, HandedInv, StackHandOver

LEMMA FormsApart ==
  ASSUME NEW spk, IsWitnessProgram(spk)
  PROVE  ~is_p2sh(spk)
BY DEF IsWitnessProgram, is_p2sh, SMALL_INTS, OP_0, OP_1, OP_16, OP_HASH160

\* What an accepted spend answers.
LEMMA AcceptedAnswers ==
  ASSUME SpendInv, Accepted
  PROVE  /\ is_p2sh(spend.scriptPubKey) =>
              Revealed = Redeem /\ Digest(OP_HASH160, Revealed) = OutputHash
         /\ Flag("WITNESS") /\ Flag("P2SH") =>
              \/ AnsweredPrograms = {} /\ spend.witness = << >>
              \/ /\ AnsweredPrograms = {program} /\ Settled(program)
                 /\ spend.scriptSig = IF is_p2sh(spend.scriptPubKey) THEN PushBytes(Revealed)
                                      ELSE << >>
<1>1. /\ PastOutput /\ Len(runs) >= 2 /\ OutputRevealed
      /\ \/ OffProgram /\ (Flag("WITNESS") => spend.witness = << >>)
         \/ OnProgram /\ Settled(program)
  BY DEF SpendInv, WayInv, PastOutput
<1>2. Revealed = Last(stackCopy)
  BY <1>1 DEF SpendInv, HandedInv, Revealed
<1>3. is_p2sh(spend.scriptPubKey) =>
        Revealed = Redeem /\ Digest(OP_HASH160, Revealed) = OutputHash
  BY <1>1, <1>2 DEF OutputRevealed, Redeem
<1>4. ASSUME Flag("WITNESS"), Flag("P2SH"), OffProgram
      PROVE  AnsweredPrograms = {}
  BY <1>3, <1>4 DEF OffProgram, AnsweredPrograms
<1>5. ASSUME Flag("WITNESS"), Flag("P2SH"), OnProgram
      PROVE  /\ AnsweredPrograms = {program}
             /\ spend.scriptSig = IF is_p2sh(spend.scriptPubKey) THEN PushBytes(Revealed)
                                  ELSE << >>
  <2>1. CASE /\ IsWitnessProgram(spend.scriptPubKey)
             /\ spend.scriptSig = << >>
             /\ program = witness_program(spend.scriptPubKey)
    <3>1. ~is_p2sh(spend.scriptPubKey)
      BY <2>1, FormsApart
    <3>. QED BY <2>1, <3>1 DEF AnsweredPrograms
  <2>2. CASE /\ is_p2sh(spend.scriptPubKey) /\ IsWitnessProgram(Redeem)
             /\ spend.scriptSig = PushBytes(Redeem)
             /\ program = witness_program(Redeem)
    <3>1. ~IsWitnessProgram(spend.scriptPubKey)
      BY <2>2, FormsApart
    <3>. QED BY <1>3, <2>2, <3>1 DEF AnsweredPrograms
  <2>. QED BY <1>5, <2>1, <2>2 DEF OnProgram
<1>. QED BY <1>1, <1>3, <1>4, <1>5

\* An accepted spend shows what its output commits to, whatever its bytes and the
\* flags (Interpreter.verify with _verify_witness_program and the taproot
\* commitment): under P2SH the item that the scriptSig left on top hashes to the
\* output, and under WITNESS each program it answers got its key and signature, the
\* script it hashes, or a script that a control block commits the program to.
THEOREM AcceptedShowsWhatItSpends ==
  ASSUME DigestsAreItems
  PROVE  VerifySpec => []AcceptedIsAuthorised
<1>1. SpendInv /\ [VerifyNext]_allVars => SpendInv'
  BY SpendStep
<1>2. SpendInv => AcceptedIsAuthorised
  BY AcceptedAnswers DEF AcceptedIsAuthorised, Settled
<1>. QED BY <1>1, <1>2, SpendInit, PTL DEF VerifySpec

\* Under P2SH and WITNESS nobody on the way can add to a spend (the checks on the
\* scriptSig and for an unexpected witness in Interpreter.verify): a program was
\* answered with the one scriptSig it allows; without a program, no witness.
THEOREM SpendsAreNotMalleable ==
  ASSUME DigestsAreItems
  PROVE  VerifySpec => []NotMalleable
<1>1. SpendInv /\ [VerifyNext]_allVars => SpendInv'
  BY SpendStep
<1>2. SpendInv => NotMalleable
  BY AcceptedAnswers DEF NotMalleable
<1>. QED BY <1>1, <1>2, SpendInit, PTL DEF VerifySpec

\* Each script of a spend runs on what verify hands it, for every spend and set of
\* flags (the stack and stack_copy of Interpreter.verify): the output on what the
\* scriptSig left, the redeem script on what lay below it, the others on items of
\* the witness; and the runs come in the one order that verify knows.
THEOREM StacksAreHandedOver ==
  ASSUME DigestsAreItems
  PROVE  VerifySpec => []StackHandOver
<1>1. SpendInv /\ [VerifyNext]_allVars => SpendInv'
  BY SpendStep
<1>. QED BY <1>1, HandedMeans, SpendInit, PTL DEF VerifySpec
==============================================================================
