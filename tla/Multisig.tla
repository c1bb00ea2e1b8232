------------------------------- MODULE Multisig -------------------------------
(***************************************************************************)
(* The loop of Interpreter._op_checkmultisig that pairs signatures with    *)
(* public keys.  Both sequences run from the top of the stack downwards.   *)
(* A key is used up by every comparison, a signature only by a successful  *)
(* one, and the loop gives up as soon as fewer keys than signatures are    *)
(* left.  ScriptEval extends this module and runs the loop inside the      *)
(* opcode; here the loop is also a specification of its own, over any job. *)
(***************************************************************************)
EXTENDS Matching

VARIABLES
  job,         \* what the opcode took from the stack, and how it verifies
  loopPhase,   \* "idle", "pairing", "left" or "raised"
  curSig,      \* signatures matched so far
  curKey,      \* keys used up so far
  success,
  lastDetail,  \* the SigCheckDetail of the latest pairing; {} for None
  loopError

multisigVars == <<job, loopPhase, curSig, curKey, success, lastDetail, loopError>>

\* job is never changed by the loop, so the promise's sets and predicates are
\* the loop's; its verdict is read off the phase once the loop has ended.
Promise == INSTANCE MultisigPromise WITH
  verdict <- CASE loopPhase = "left" -> IF success THEN "true" ELSE "false"
               [] loopPhase = "raised" -> "refused"
               [] OTHER -> "open"

SigCheckDetail ==
  [sig : Item, pubkey : Item, script_code : Seq(ScriptOp), valid : BOOLEAN]

\* Mutant: the detail is built before the checker has answered.
Detail_Early(sig, pubkey, script_code, valid) ==
  {[sig |-> sig, pubkey |-> pubkey, script_code |-> script_code, valid |-> TRUE]}

Detail(sig, pubkey, script_code, valid) ==
  {[sig |-> sig, pubkey |-> pubkey, script_code |-> script_code, valid |-> valid]}

NSigs == Len(job.sigs) - curSig
NKeys == Len(job.keys) - curKey
Sig == job.sigs[curSig + 1]
PubKey == job.keys[curKey + 1]

\* The assignments before the loop, with nothing matched yet.
EnterLoop(j) ==
  /\ job' = j
  /\ loopPhase' = "pairing"
  /\ curSig' = 0
  /\ curKey' = 0
  /\ success' = TRUE
  /\ lastDetail' = {}
  /\ loopError' = "OK"

InLoop == loopPhase = "pairing" /\ success /\ NSigs > 0

\* Mutants: the loop gives up while there is still a key for every signature,
\* or one comparison too late.
TooFewKeys_Early(sigs, keys) == sigs >= keys
TooFewKeys_Late(sigs, keys) == sigs > keys + 1

\* Fewer keys left than signatures: no assignment can succeed any more.
TooFewKeys(sigs, keys) == sigs > keys

\* Mutants: every comparison uses up a signature; a failed one starts over with
\* the first signature.
NextSig_Always(ok) == curSig + 1
NextSig_Restart(ok) == IF ok THEN curSig + 1 ELSE 0

\* A signature is used up only by the key it verifies under.
NextSig(ok) == IF ok THEN curSig + 1 ELSE curSig

\* One turn of the loop for an acceptable pair.
Compare ==
  LET ok == EcdsaValid(Sig, PubKey, job.script_code, job.sig_version)
  IN  /\ InLoop
      /\ EncodingError(Sig, PubKey, job.flags, job.sig_version) = "OK"
      /\ lastDetail' = Detail(Sig, PubKey, job.script_code, ok)
      /\ curSig' = NextSig(ok)
      /\ curKey' = curKey + 1
      /\ success' = ~TooFewKeys(Len(job.sigs) - NextSig(ok), NKeys - 1)
      /\ UNCHANGED <<job, loopPhase, loopError>>

\* One turn that raises: the exception leaves the loop before _pending_sig is
\* set, so the opcode reports no signature check.
RefusePair ==
  /\ InLoop
  /\ EncodingError(Sig, PubKey, job.flags, job.sig_version) # "OK"
  /\ loopError' = EncodingError(Sig, PubKey, job.flags, job.sig_version)
  /\ loopPhase' = "raised"
  /\ UNCHANGED <<job, curSig, curKey, success, lastDetail>>

\* Mutant: the loop condition forgets that success may have become false.
LeaveLoop_OnlyMatched ==
  /\ loopPhase = "pairing"
  /\ NSigs = 0
  /\ loopPhase' = "left"
  /\ UNCHANGED <<job, curSig, curKey, success, lastDetail, loopError>>

LeaveLoop ==
  /\ loopPhase = "pairing"
  /\ ~(success /\ NSigs > 0)
  /\ loopPhase' = "left"
  /\ UNCHANGED <<job, curSig, curKey, success, lastDetail, loopError>>

LoopStep == Compare \/ RefusePair \/ LeaveLoop
------------------------------------------------------------------------------
\* The loop on its own, entered with any job.
MultisigInit ==
  /\ job \in Job
  /\ loopPhase = "pairing"
  /\ curSig = 0
  /\ curKey = 0
  /\ success = TRUE
  /\ lastDetail = {}
  /\ loopError = "OK"

MultisigSpec == MultisigInit /\ [][LoopStep]_multisigVars
------------------------------------------------------------------------------
\* The type invariant.
LoopTypeOK ==
  /\ job \in Job
  /\ loopPhase \in {"idle", "pairing", "left", "raised"}
  /\ curSig \in Nat
  /\ curKey \in Nat
  /\ success \in BOOLEAN
  /\ lastDetail \in SUBSET SigCheckDetail
  /\ loopError \in ScriptError

\* While another comparison is due there is a signature and a key for it:
\* the code's stack indexes never run past the keys into the signature count.
InBounds ==
  /\ curSig <= curKey
  /\ curKey <= Len(job.keys)
  /\ curSig <= Len(job.sigs)
  /\ success <=> NSigs <= NKeys

\* The comparisons made so far match the first curSig signatures to keys among
\* the first curKey, in order.
Matched ==
  \E f \in [1..curSig -> 1..Len(job.keys)] :
    /\ IsMatching(f, job, curSig)
    /\ \A s \in 1..curSig : f[s] <= curKey

\* No key passed over was needed: every complete matching there is places the
\* next signature beyond the keys already used up.
NoneMissed ==
  \A f \in [1..Len(job.sigs) -> 1..Len(job.keys)] :
    IsMatching(f, job, Len(job.sigs)) /\ curSig < Len(job.sigs)
      => f[curSig + 1] > curKey

\* The loop implements the promise: greedy pairing decides exactly whether an
\* order-preserving matching exists.
ImplementsPromise == Promise!PromiseSpec
==============================================================================
