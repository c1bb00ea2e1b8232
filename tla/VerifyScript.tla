----------------------------- MODULE VerifyScript -----------------------------
(***************************************************************************)
(* Interpreter.verify: the scripts of one spend, evaluated in turn by the  *)
(* machine of ScriptEval, and the verdict.  The scriptSig and the          *)
(* scriptPubKey share a stack; what runs after them depends on the form of *)
(* the scriptPubKey: a redeem script taken from the scriptSig's stack      *)
(* (P2SH), or a script taken from the witness (SegWit v0 and Taproot).     *)
(*                                                                         *)
(* Every call is verify_scripts: a fresh Interpreter.  A caller may verify *)
(* the same spend again under other flags.                                 *)
(***************************************************************************)
EXTENDS ScriptEval, ScriptBytes, Taproot, FiniteSets

CONSTANTS
  Spends,                 \* scripts and witness that callers verify
  FlagSets,               \* the flags they verify under
  MaxVerifications,       \* bound: calls of verify for one spend
  VerifyKeyPath(_, _),    \* signature, output key
  MAX_MERKLE_DEPTH

VARIABLES
  spend,         \* the arguments of verify, and the Interpreter's checker
  flags,         \* the Interpreter's flags
  phase,
  stackCopy,     \* the stack the scriptSig left
  program,       \* the witness program being verified
  runs,          \* Interpreter.runs
  spendKind,     \* Interpreter._spend_kind
  controlBlock,  \* Interpreter._control_block, {} for None
  verdict,       \* the error of the trace returned, once there is one
  verdicts       \* the results so far: flags and error

Spend ==
  [scriptSig : Item, scriptPubKey : Item, witness : Seq(Item), checker : BOOLEAN,
   tx : TxView]

ASSUME SpendsAssumption ==
  /\ Spends \subseteq Spend
  /\ FlagSets \subseteq SUBSET VerificationFlag
  /\ MaxVerifications \in Nat
  /\ MAX_MERKLE_DEPTH \in Nat

\* The roles of the runs that evaluate a script; each is a phase of verify.
Role == {"scriptSig", "scriptPubKey", "redeemScript", "witnessScript", "tapscript"}

traceVars == <<runs, spendKind, controlBlock>>
verifyVars == <<spend, flags, phase, stackCopy, program, traceVars, verdict, verdicts>>
allVars == <<vars, verifyVars>>
------------------------------------------------------------------------------
(* Forms of a scriptPubKey.                                                *)

is_p2sh(spk) ==
  /\ Len(spk) = 23
  /\ spk[1] = OP_HASH160 /\ spk[2] = 20 /\ spk[23] = OP_EQUAL

\* A version opcode and one direct push of 2 to 40 bytes, and nothing else.
IsWitnessProgram(spk) ==
  /\ Len(spk) \in 4..42
  /\ spk[1] \in {OP_0} \cup SMALL_INTS
  /\ spk[2] \in 2..40 /\ Len(spk) = spk[2] + 2

witness_program(spk) ==
  [version |-> IF spk[1] = OP_0 THEN 0 ELSE spk[1] - (OP_1 - 1),
   bytes |-> SubSeq(spk, 3, Len(spk))]

NoProgram == [version |-> 0, bytes |-> << >>]

\* The script that a 20-byte program stands for.
P2WPKHScript(hash) ==
  <<OP_DUP, OP_HASH160, 20>> \o hash \o <<OP_EQUALVERIFY, OP_CHECKSIG>>

CompactSizeLen(n) ==
  IF n < 253 THEN 1 ELSE IF n <= 65535 THEN 3 ELSE 5

witness_serialized_size(witness) ==
  FoldLeft(LAMBDA size, item : size + CompactSizeLen(Len(item)) + Len(item),
           CompactSizeLen(Len(witness)), witness)

LeavesTrue(s) == s # << >> /\ cast_to_bool(Last(s))

Oversized(s) == \E i \in DOMAIN s : Len(s[i]) > MAX_SCRIPT_ELEMENT_SIZE
------------------------------------------------------------------------------
(* Evaluations and results.                                                *)

EvalOf(script, s, version, budget) ==
  [script |-> Parse(script), stack |-> s, sigVersion |-> version,
   flags |-> flags, checker |-> spend.checker, tx |-> spend.tx, weight |-> budget]

\* A run is listed as soon as its evaluation begins.
Enter(role, script, s, version, budget) ==
  /\ phase' = role
  /\ runs' = Append(runs, [role |-> role, script |-> script, initial |-> s,
                           final |-> << >>, steps |-> 0, error |-> "OK"])
  /\ input' = EvalOf(script, s, version, budget)
  /\ status' = "start" /\ pc' = 0
  /\ stack' = s /\ altstack' = << >> /\ execStack' = << >>
  /\ opCount' = 0 /\ codesep' = 0 /\ codesepPos' = NO_POS /\ weight' = budget
  /\ steps' = << >> /\ error' = "OK" /\ finalStack' = << >>
  /\ job' = NoJob /\ loopPhase' = "idle" /\ curSig' = 0 /\ curKey' = 0
  /\ success' = TRUE /\ lastDetail' = {} /\ loopError' = "OK"
  /\ UNCHANGED <<spend, flags, verdict, verdicts>>

\* One step of the evaluation, which fills in the run's steps and outcome.
Evaluate ==
  /\ phase \in Role
  /\ Next
  /\ runs' = [runs EXCEPT ![Len(runs)].steps = Len(steps'),
                          ![Len(runs)].final = finalStack',
                          ![Len(runs)].error = error']
  /\ UNCHANGED <<spend, flags, phase, stackCopy, program, spendKind, controlBlock,
                 verdict, verdicts>>

\* The trace is returned.
End(err) ==
  /\ phase' = "done"
  /\ verdict' = err
  /\ verdicts' = verdicts \cup {[flags |-> flags, error |-> err]}
  /\ UNCHANGED <<vars, spend, flags, stackCopy, program>>

EndPlain(err) == End(err) /\ UNCHANGED traceVars

\* Mutant: a witness that nothing consumed is let pass.
Conclusion_AnyWitness(s, hadWitness) ==
  IF Flag("CLEANSTACK") /\ Len(s) # 1 THEN "CLEANSTACK" ELSE "OK"

\* The checks at the end of verify, over the stack that is left.
Conclusion(s, hadWitness) ==
  IF Flag("CLEANSTACK") /\ Len(s) # 1 THEN "CLEANSTACK"
  ELSE IF Flag("WITNESS") /\ ~hadWitness /\ spend.witness # << >>
    THEN "WITNESS_UNEXPECTED"
  ELSE "OK"

AnyoneCanSpend == Conclusion(<< <<1>> >>, TRUE)

\* Mutant: only the errors of the first two scripts are caught.
EvalRaised_Outer ==
  /\ phase \in {"scriptSig", "scriptPubKey"}
  /\ status = "raised"
  /\ EndPlain(error)

\* An exception raised by an evaluation ends the verification with its error.
EvalRaised ==
  /\ phase \in Role
  /\ status = "raised"
  /\ EndPlain(error)

\* An exception that verify does not catch: the caller gets it and no trace.
EscapeAs(kind) ==
  /\ phase' = "escaped"
  /\ spendKind' = kind
  /\ UNCHANGED <<vars, spend, flags, stackCopy, program, runs, controlBlock, verdict,
                 verdicts>>

\* The IndexError of a signature check inside an evaluation.
EvalEscaped ==
  /\ phase \in Role
  /\ status = "escaped"
  /\ EscapeAs(spendKind)

Returned(role) == phase = role /\ status = "returned"
------------------------------------------------------------------------------
(* The scriptSig, the scriptPubKey and P2SH.                               *)

BeginVerify ==
  /\ phase = "begin"
  /\ IF Flag("SIGPUSHONLY") /\ ~is_push_only(Parse(spend.scriptSig))
       THEN EndPlain("SIG_PUSHONLY")
     ELSE /\ Enter("scriptSig", spend.scriptSig, << >>, "BASE", 0)
          /\ UNCHANGED <<stackCopy, program, spendKind, controlBlock>>

EvalScriptPubKey ==
  /\ Returned("scriptSig")
  /\ stackCopy' = stack
  /\ Enter("scriptPubKey", spend.scriptPubKey, stack, "BASE", 0)
  /\ UNCHANGED <<program, spendKind, controlBlock>>

EvalFalse ==
  /\ Returned("scriptPubKey") \/ Returned("redeemScript")
  /\ ~LeavesTrue(stack)
  /\ EndPlain("EVAL_FALSE")

\* Mutant: what a native witness program left is not looked at.
PubKeyPassed_Native ==
  Returned("scriptPubKey") /\ (LeavesTrue(stack) \/ IsWitnessProgram(spend.scriptPubKey))

PubKeyPassed == Returned("scriptPubKey") /\ LeavesTrue(stack)

Native == Flag("WITNESS") /\ IsWitnessProgram(spend.scriptPubKey)
P2SH == ~Native /\ Flag("P2SH") /\ is_p2sh(spend.scriptPubKey)

\* Mutant: the redeem script is left on the stack that it runs on.
BelowRedeem_All == stackCopy

\* The item the scriptSig pushed last, and those below it.
Redeem == IF stackCopy = << >> THEN << >> ELSE Last(stackCopy)
BelowRedeem == IF stackCopy = << >> THEN << >> ELSE Front(stackCopy)

Nested == Flag("WITNESS") /\ IsWitnessProgram(Redeem)

VerifyProgram(spk) ==
  /\ phase' = "program"
  /\ program' = witness_program(spk)
  /\ UNCHANGED <<vars, spend, flags, stackCopy, traceVars, verdict, verdicts>>

UseNativeProgram ==
  /\ PubKeyPassed /\ Native
  /\ IF spend.scriptSig # << >> THEN EndPlain("WITNESS_MALLEATED")
     ELSE VerifyProgram(spend.scriptPubKey)

RejectP2SHSig ==
  /\ PubKeyPassed /\ P2SH
  /\ ~is_push_only(Parse(spend.scriptSig))
  /\ EndPlain("SIG_PUSHONLY")

P2SHPassed == PubKeyPassed /\ P2SH /\ is_push_only(Parse(spend.scriptSig))

UseNestedProgram ==
  /\ P2SHPassed /\ Nested
  /\ IF spend.scriptSig # PushBytes(Redeem) THEN EndPlain("WITNESS_MALLEATED_P2SH")
     ELSE VerifyProgram(Redeem)

EvalRedeemScript ==
  /\ P2SHPassed /\ ~Nested
  /\ Enter("redeemScript", Redeem, BelowRedeem, "BASE", 0)
  /\ UNCHANGED <<stackCopy, program, spendKind, controlBlock>>

EndLegacy ==
  /\ \/ PubKeyPassed /\ ~Native /\ ~P2SH
     \/ Returned("redeemScript") /\ LeavesTrue(stack)
  /\ EndPlain(Conclusion(stack, FALSE))
------------------------------------------------------------------------------
(* Witness programs: _verify_witness_program and _verify_taproot.          *)

V0 == phase = "program" /\ program.version = 0
Size == Len(program.bytes)

P2WSHRefusal ==
  IF spend.witness = << >> THEN "WITNESS_PROGRAM_WITNESS_EMPTY"
  ELSE IF Digest(OP_SHA256, Last(spend.witness)) # program.bytes
    THEN "WITNESS_PROGRAM_MISMATCH"
  ELSE IF Oversized(Front(spend.witness)) THEN "PUSH_SIZE"
  ELSE "OK"

EvalP2WSH ==
  /\ V0 /\ Size = 32
  /\ IF P2WSHRefusal # "OK" THEN EndPlain(P2WSHRefusal)
     ELSE /\ Enter("witnessScript", Last(spend.witness), Front(spend.witness),
                   "WITNESS_V0", 0)
          /\ UNCHANGED <<stackCopy, program, spendKind, controlBlock>>

EvalP2WPKH ==
  /\ V0 /\ Size = 20
  /\ IF Len(spend.witness) # 2 THEN EndPlain("WITNESS_PROGRAM_MISMATCH")
     ELSE IF Oversized(spend.witness) THEN EndPlain("PUSH_SIZE")
     ELSE /\ Enter("witnessScript", P2WPKHScript(program.bytes), spend.witness,
                   "WITNESS_V0", 0)
          /\ UNCHANGED <<stackCopy, program, spendKind, controlBlock>>

WrongLength ==
  /\ V0 /\ Size \notin {20, 32}
  /\ EndPlain("WITNESS_PROGRAM_WRONG_LENGTH")

Taproot ==
  phase = "program" /\ program.version = 1 /\ Size = 32 /\ Flag("TAPROOT")

UpgradableProgram ==
  /\ phase = "program" /\ program.version # 0 /\ ~Taproot
  /\ EndPlain(IF Flag("DISCOURAGE_UPGRADABLE_WITNESS_PROGRAM")
                THEN "DISCOURAGE_UPGRADABLE_WITNESS_PROGRAM" ELSE AnyoneCanSpend)

\* The witness without its annex.
HasAnnex ==
  LET w == spend.witness
  IN  Len(w) >= 2 /\ Last(w) # << >> /\ Last(w)[1] = 80
TaprootWitness == IF HasAnnex THEN Front(spend.witness) ELSE spend.witness

TaprootEmpty ==
  /\ Taproot /\ TaprootWitness = << >>
  /\ EndPlain("WITNESS_PROGRAM_WITNESS_EMPTY")

KeyPathRefusal(sig) ==
  IF Len(sig) \notin {64, 65} THEN "SCHNORR_SIG_SIZE"
  ELSE IF Len(sig) = 65 /\ sig[65] \notin VALID_SCHNORR_HASHTYPES
    THEN "SCHNORR_SIG_HASHTYPE"
  ELSE IF ~spend.checker THEN "UNKNOWN_ERROR"
  ELSE "OK"

\* The run of a key path has one step, which is the check itself.
KeyPathRun(sig, err) ==
  [role |-> "keypath", script |-> program.bytes, initial |-> <<sig>>,
   final |-> <<program.bytes>>, steps |-> 1, error |-> err]

\* SIGHASH_SINGLE without an output of the input's index (see Escapes).
KeyPathEscapes ==
  /\ Len(TaprootWitness[1]) = 65 /\ TaprootWitness[1][65] % 4 = 3
  /\ KeyPathRefusal(TaprootWitness[1]) = "OK"
  /\ ~spend.tx.hasOutput

EscapeKeyPath ==
  /\ Taproot /\ Len(TaprootWitness) = 1 /\ KeyPathEscapes
  /\ EscapeAs("p2tr-keypath")

KeyPath ==
  /\ Taproot /\ Len(TaprootWitness) = 1 /\ ~KeyPathEscapes
  /\ spendKind' = "p2tr-keypath"
  /\ UNCHANGED controlBlock
  /\ LET sig == TaprootWitness[1]
         err == IF VerifyKeyPath(sig, program.bytes) THEN "OK" ELSE "SCHNORR_SIG"
     IN  IF KeyPathRefusal(sig) # "OK" THEN End(KeyPathRefusal(sig)) /\ UNCHANGED runs
         ELSE /\ runs' = Append(runs, KeyPathRun(sig, err))
              /\ End(IF err = "OK" THEN AnyoneCanSpend ELSE err)

ScriptPath == Taproot /\ Len(TaprootWitness) >= 2
Control == Last(TaprootWitness)
TapScript == TaprootWitness[Len(TaprootWitness) - 1]
TapStack == SubSeq(TaprootWitness, 1, Len(TaprootWitness) - 2)

WrongControlSize == Len(Control) < 33 \/ (Len(Control) - 33) % 32 # 0
TooDeepPath == ~WrongControlSize /\ (Len(Control) - 33) \div 32 > MAX_MERKLE_DEPTH

RejectControl ==
  /\ ScriptPath /\ WrongControlSize
  /\ spendKind' = "p2tr-scriptpath"
  /\ UNCHANGED <<runs, controlBlock>>
  /\ End("TAPROOT_WRONG_CONTROL_SIZE")

\* parse_control_block raises a ValueError.
Escape ==
  /\ ScriptPath /\ TooDeepPath
  /\ EscapeAs("p2tr-scriptpath")

HasOpSuccess ==
  \E k \in DOMAIN Parse(TapScript).ops : Parse(TapScript).ops[k].opcode \in OP_SUCCESS

\* Mutant: the commitment of a script that is not run is not looked at.
TapscriptOutcome_LeafFirst ==
  IF Control[1] \div 2 # 96 THEN AnyoneCanSpend
  ELSE IF HasOpSuccess THEN AnyoneCanSpend
  ELSE IF ~verify_taproot_commitment(Control, program.bytes, TapScript)
    THEN "WITNESS_PROGRAM_MISMATCH"
  ELSE IF Truncated(Parse(TapScript)) THEN "BAD_OPCODE"
  ELSE IF Oversized(TapStack) THEN "PUSH_SIZE"
  ELSE "RUN"

\* Why a script that the control block may commit to is not evaluated; "RUN"
\* when it is, and the verdict of the whole verification otherwise.
TapscriptOutcome ==
  IF ~verify_taproot_commitment(Control, program.bytes, TapScript)
    THEN "WITNESS_PROGRAM_MISMATCH"
  ELSE IF Control[1] \div 2 # 96
    THEN IF Flag("DISCOURAGE_UPGRADABLE_TAPROOT_VERSION")
           THEN "DISCOURAGE_UPGRADABLE_TAPROOT_VERSION" ELSE AnyoneCanSpend
  ELSE IF HasOpSuccess
    THEN IF Flag("DISCOURAGE_OP_SUCCESS") THEN "DISCOURAGE_OP_SUCCESS"
         ELSE AnyoneCanSpend
  ELSE IF Truncated(Parse(TapScript)) THEN "BAD_OPCODE"
  ELSE IF Oversized(TapStack) THEN "PUSH_SIZE"
  ELSE "RUN"

EvalTapscript ==
  /\ ScriptPath /\ ~WrongControlSize /\ ~TooDeepPath
  /\ spendKind' = "p2tr-scriptpath"
  /\ controlBlock' = {Control}
  /\ IF TapscriptOutcome # "RUN" THEN End(TapscriptOutcome) /\ UNCHANGED runs
     ELSE /\ Enter("tapscript", TapScript, TapStack, "TAPSCRIPT",
                   50 + witness_serialized_size(spend.witness))
          /\ UNCHANGED <<stackCopy, program>>

\* Mutant: a witness script may leave more than its result.
EndWitness_AnyStack ==
  /\ Returned("witnessScript") \/ Returned("tapscript")
  /\ EndPlain(IF ~LeavesTrue(stack) THEN "EVAL_FALSE" ELSE Conclusion(stack, TRUE))

\* A witness script must leave exactly one item, whatever the flags.
EndWitness ==
  /\ Returned("witnessScript") \/ Returned("tapscript")
  /\ EndPlain(IF Len(stack) # 1 THEN "CLEANSTACK"
              ELSE IF ~LeavesTrue(stack) THEN "EVAL_FALSE"
              ELSE Conclusion(stack, TRUE))
------------------------------------------------------------------------------
VerifyInit ==
  /\ spend \in Spends
  /\ flags \in FlagSets
  /\ phase = "begin"
  /\ stackCopy = << >>
  /\ program = NoProgram
  /\ runs = << >>
  /\ spendKind = ""
  /\ controlBlock = {}
  /\ verdict = "none"
  /\ verdicts = {}
  /\ input = EvalOf(spend.scriptSig, << >>, "BASE", 0)
  /\ Begin

\* The caller verifies the same spend again, under f.
VerifyAgain(f) ==
  /\ phase = "done"
  /\ Cardinality(verdicts) < MaxVerifications
  /\ f # flags
  /\ phase' = "begin"
  /\ flags' = f
  /\ stackCopy' = << >> /\ program' = NoProgram
  /\ runs' = << >> /\ spendKind' = "" /\ controlBlock' = {} /\ verdict' = "none"
  /\ input' = [input EXCEPT !.flags = f]
  /\ UNCHANGED <<spend, verdicts, status, pc, stack, altstack, execStack, opCount,
                 steps, error, finalStack, codeVars, multisigVars>>

Verify ==
  \/ BeginVerify \/ Evaluate \/ EvalRaised \/ EvalEscaped
  \/ EvalScriptPubKey \/ EvalFalse \/ EndLegacy
  \/ UseNativeProgram \/ RejectP2SHSig \/ UseNestedProgram \/ EvalRedeemScript
  \/ EvalP2WSH \/ EvalP2WPKH \/ WrongLength \/ UpgradableProgram
  \/ TaprootEmpty \/ KeyPath \/ EscapeKeyPath
  \/ RejectControl \/ Escape \/ EvalTapscript
  \/ EndWitness

VerifyNext == Verify \/ \E f \in FlagSets : VerifyAgain(f)

VerifySpec == VerifyInit /\ [][VerifyNext]_allVars

\* verify is sequential code: what it has begun it carries on.
FairVerifySpec == VerifySpec /\ WF_allVars(Verify)
==============================================================================
