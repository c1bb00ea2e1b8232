---------------------------- MODULE ScriptEvalProofs ----------------------------
(***************************************************************************)
(* Proofs about the evaluation of one script, for every script, stack, set *)
(* of flags, limits and signature checker.                                 *)
(*                                                                         *)
(* First the pairing loop of OP_CHECKMULTISIG, for every job.  Then what   *)
(* the operators of ScriptEval return for every argument, and the types of *)
(* its states.  Last its turns and the trace they leave: of which form     *)
(* every step is, what it does to exec_stack, what a skipped operation     *)
(* leaves alone, and the stack-size limit; the steps of the trace, the     *)
(* machine it lets a reader reconstruct, the branches the executed         *)
(* operations lie in, the outcome, the code separator, the deltas, and     *)
(* what the operations that only move items leave.  The forms need no      *)
(* types: a step records one operation, ends the evaluation with a step of *)
(* its own, or records nothing.                                            *)
(***************************************************************************)
EXTENDS ScriptEvalProperties, FiniteSetTheorems, RecursionProofs

------------------------------------------------------------------------------
(* The pairing loop.                                                       *)

\* A job is only given up on an exception when the flags really forbid the
\* encoding of one of its signatures or keys.
RaisedRefusable == loopPhase = "raised" => Refusable(job)

\* As much of the types as the pairing needs: not what the signatures sign.
PairingTypes ==
  /\ job.sigs \in Seq(Item) /\ job.keys \in Seq(Item)
  /\ Len(job.sigs) <= Len(job.keys)
  /\ curSig \in Nat /\ curKey \in Nat /\ success \in BOOLEAN

\* Matched and NoneMissed are the two halves of the greedy argument: what has
\* been paired is a matching, and nothing a complete matching needs has been
\* thrown away.
PairingInv == PairingTypes /\ InBounds /\ Matched /\ NoneMissed

\* The inductive invariant of the loop on its own.
LoopInv == LoopTypeOK /\ PairingInv /\ RaisedRefusable

\* check_signature_encoding and check_pubkey_encoding raise only script errors.
LEMMA EncodingErrorType ==
  ASSUME NEW sig, NEW pubkey, NEW flags, NEW sv
  PROVE  EncodingError(sig, pubkey, flags, sv) \in ScriptError
BY DEF EncodingError, check_signature_encoding, check_pubkey_encoding, ScriptError

\* A turn of the loop has a signature and a key to compare.
LEMMA TurnInRange ==
  ASSUME PairingTypes, InBounds, InLoop
  PROVE  /\ curSig + 1 \in 1..Len(job.sigs)
         /\ curKey + 1 \in 1..Len(job.keys)
         /\ Len(job.sigs) \in Nat /\ Len(job.keys) \in Nat
         /\ Sig \in Item /\ PubKey \in Item
BY DEF PairingTypes, InBounds, InLoop, NSigs, NKeys, Sig, PubKey

\* The loop starts with nothing matched and nothing missed.
Entered ==
  /\ job.sigs \in Seq(Item) /\ job.keys \in Seq(Item)
  /\ Len(job.sigs) <= Len(job.keys)
  /\ curSig = 0 /\ curKey = 0 /\ success = TRUE

LEMMA EnteredPairing == Entered => PairingInv
<1> SUFFICES ASSUME Entered PROVE PairingInv
  OBVIOUS
<1> USE DEF Entered
<1>1. Len(job.sigs) \in Nat /\ Len(job.keys) \in Nat /\ PairingTypes
  BY DEF PairingTypes
<1>2. InBounds
  BY <1>1 DEF InBounds, NSigs, NKeys
<1>3. Matched
  <2> DEFINE f == [s \in 1..0 |-> 1]
  <2>1. f \in [1..0 -> 1..Len(job.keys)]
    OBVIOUS
  <2>2. IsMatching(f, job, 0)
    BY <2>1 DEF IsMatching
  <2>3. curSig = 0 /\ \A s \in 1..0 : f[s] <= curKey
    OBVIOUS
  <2>. HIDE DEF f
  <2>. QED BY <2>1, <2>2, <2>3 DEF Matched
<1>4. NoneMissed
  BY <1>1 DEF NoneMissed
<1>. QED BY <1>1, <1>2, <1>3, <1>4 DEF PairingInv

LEMMA InitLoopInv == MultisigInit => LoopInv
<1> SUFFICES ASSUME MultisigInit PROVE LoopInv
  OBVIOUS
<1> USE DEF MultisigInit
<1>1. job.sigs \in Seq(Item) /\ job.keys \in Seq(Item) /\ Len(job.sigs) <= Len(job.keys)
  BY DEF Job
<1>2. LoopTypeOK
  BY DEF LoopTypeOK, ScriptError
<1>3. RaisedRefusable
  BY DEF RaisedRefusable
<1>. QED BY <1>1, <1>2, <1>3, EnteredPairing DEF LoopInv, Entered

\* The same of the state that a step leads to.
LEMMA EntersPairing == Entered' => PairingInv'
BY EnteredPairing, PTL

\* One more comparison, successful or not, extends what is matched and passes
\* over no key that a complete matching needs.
LEMMA ComparePairing ==
  ASSUME PairingInv, Compare
  PROVE  PairingInv'
<1> DEFINE ok == EcdsaValid(Sig, PubKey, job.script_code, job.sig_version)
           S == Len(job.sigs)
           K == Len(job.keys)
<1>1. /\ PairingTypes /\ InBounds /\ Matched /\ NoneMissed
      /\ InLoop
      /\ curSig' = (IF ok THEN curSig + 1 ELSE curSig)
      /\ curKey' = curKey + 1
      /\ success' = ~(S - curSig' > NKeys - 1)
      /\ job' = job
  BY DEF PairingInv, Compare, NextSig, TooFewKeys
<1>2. /\ curSig + 1 \in 1..S /\ curKey + 1 \in 1..K /\ S \in Nat /\ K \in Nat
  BY <1>1, TurnInRange
<1>3. curSig \in Nat /\ curKey \in Nat
  BY <1>1 DEF PairingTypes
<1>4. ok = Accepts(job, curSig + 1, curKey + 1)
  BY DEF Accepts, Sig, PubKey
<1>5. PairingTypes'
  BY <1>1, <1>3 DEF PairingTypes
<1>6. InBounds'
  <2>1. curSig <= curKey /\ curKey <= K /\ curSig <= S
    BY <1>1 DEF InBounds
  <2>2. NSigs' = S - curSig' /\ NKeys' = K - curKey'
    BY <1>1 DEF NSigs, NKeys
  <2>3. NKeys - 1 = K - curKey'
    BY <1>1, <1>2, <1>3 DEF NKeys
  <2>4. curSig' \in Nat /\ curSig' <= curKey' /\ curKey' <= K /\ curSig' <= S
    BY <1>1, <1>2, <1>3, <2>1
  <2>5. success' <=> S - curSig' <= K - curKey'
    <3>1. success' = ~(S - curSig' > K - curKey')
      BY <1>1, <2>3
    <3>2. S - curSig' \in Int /\ K - curKey' \in Int
      BY <1>1, <1>2, <1>3, <2>4
    <3>3. S - curSig' <= K - curKey' <=> ~(S - curSig' > K - curKey')
      BY <3>2
    <3>. QED BY <3>1, <3>3, Zenon
  <2>. QED BY <1>1, <2>2, <2>4, <2>5 DEF InBounds
<1>7. Matched'
  <2>1. PICK f \in [1..curSig -> 1..K] :
          IsMatching(f, job, curSig) /\ \A s \in 1..curSig : f[s] <= curKey
    BY <1>1 DEF Matched
  <2>2. CASE ok
    <3> DEFINE g == [s \in 1..(curSig + 1) |-> IF s = curSig + 1 THEN curKey + 1 ELSE f[s]]
    <3>1. g \in [1..(curSig + 1) -> 1..K]
      BY <1>2, <1>3, <2>1
    <3>2. \A s \in 1..(curSig + 1) : g[s] <= curKey + 1
      BY <1>2, <1>3, <2>1
    <3>3. ASSUME NEW a \in 1..(curSig + 1), NEW b \in 1..(curSig + 1), a < b
          PROVE  g[a] < g[b]
      BY <1>2, <1>3, <2>1, <3>3 DEF IsMatching
    <3>4. ASSUME NEW a \in 1..(curSig + 1) PROVE Accepts(job, a, g[a])
      <4>1. CASE a = curSig + 1
        BY <1>4, <2>2, <4>1
      <4>2. CASE a # curSig + 1
        BY <1>3, <2>1, <4>2 DEF IsMatching
      <4>. QED BY <4>1, <4>2
    <3>5. IsMatching(g, job, curSig + 1)
      BY <3>1, <3>3, <3>4 DEF IsMatching
    <3>6. curSig' = curSig + 1
      BY <1>1, <2>2
    <3>. HIDE DEF g
    <3>. QED BY <1>1, <3>1, <3>2, <3>5, <3>6 DEF Matched
  <2>3. CASE ~ok
    <3>1. curSig' = curSig
      BY <1>1, <2>3
    <3>2. \A s \in 1..curSig : f[s] <= curKey + 1
      BY <1>3, <2>1
    <3>. QED BY <1>1, <2>1, <3>1, <3>2 DEF Matched
  <2>. QED BY <2>2, <2>3
<1>8. NoneMissed'
  <2> SUFFICES ASSUME NEW f \in [1..S -> 1..K],
                      IsMatching(f, job, S), curSig' < S
               PROVE  f[curSig' + 1] > curKey'
    BY <1>1 DEF NoneMissed
  <2>1. f[curSig + 1] \in Nat /\ f[curSig + 1] > curKey
    BY <1>1, <1>2, <1>3 DEF NoneMissed
  <2>2. CASE ok
    <3>1. curSig' = curSig + 1 /\ curSig + 2 \in 1..S
      BY <1>1, <1>2, <1>3, <2>2
    <3>2. f[curSig + 1] < f[curSig + 2] /\ f[curSig + 2] \in Nat
      BY <1>2, <1>3, <3>1 DEF IsMatching
    <3>3. curSig' + 1 = curSig + 2
      BY <1>3, <3>1
    <3>. QED BY <1>1, <1>3, <2>1, <3>2, <3>3
  <2>3. CASE ~ok
    <3>1. Accepts(job, curSig + 1, f[curSig + 1])
      BY <1>2 DEF IsMatching
    <3>2. f[curSig + 1] # curKey + 1
      BY <1>4, <2>3, <3>1
    <3>. QED BY <1>1, <1>3, <2>1, <2>3, <3>2
  <2>. QED BY <2>2, <2>3
<1>. QED BY <1>5, <1>6, <1>7, <1>8 DEF PairingInv

LEMMA CompareLoopInv ==
  ASSUME LoopInv, Compare
  PROVE  LoopInv'
<1> DEFINE ok == EcdsaValid(Sig, PubKey, job.script_code, job.sig_version)
<1>1. PairingInv'
  BY ComparePairing DEF LoopInv
<1>2. /\ LoopTypeOK /\ InLoop /\ Sig \in Item /\ PubKey \in Item
      /\ job.script_code \in Seq(ScriptOp)
  BY TurnInRange DEF LoopInv, PairingInv, Compare, LoopTypeOK, Job
<1>3. lastDetail' \in SUBSET SigCheckDetail
  <2>1. ok \in BOOLEAN /\ lastDetail' = Detail(Sig, PubKey, job.script_code, ok)
    BY DEF EcdsaValid, Compare
  <2>. QED BY <1>2, <2>1 DEF Detail, SigCheckDetail
<1>4. job' = job /\ loopPhase' = loopPhase /\ loopError' = loopError
  BY DEF Compare
<1>5. LoopTypeOK'
  BY <1>1, <1>2, <1>3, <1>4 DEF LoopTypeOK, PairingInv, PairingTypes
<1>6. RaisedRefusable'
  BY <1>2, <1>4 DEF RaisedRefusable, InLoop
<1>. QED BY <1>1, <1>5, <1>6 DEF LoopInv

\* The pairing depends on the job and the counters only.
LEMMA SamePairing ==
  ASSUME PairingInv, UNCHANGED <<job, curSig, curKey, success>>
  PROVE  PairingInv'
BY DEF PairingInv, PairingTypes, InBounds, NSigs, NKeys, Matched, NoneMissed

LEMMA SameCounters ==
  ASSUME LoopInv, UNCHANGED <<job, curSig, curKey, success, lastDetail>>,
         loopPhase' \in {"idle", "pairing", "left", "raised"},
         loopError' \in ScriptError,
         RaisedRefusable'
  PROVE  LoopInv'
<1>1. LoopTypeOK'
  BY DEF LoopInv, LoopTypeOK
<1>. QED BY <1>1, SamePairing DEF LoopInv

LEMMA RefusePairLoopInv ==
  ASSUME LoopInv, RefusePair
  PROVE  LoopInv'
<1>1. EncodingError(Sig, PubKey, job.flags, job.sig_version) \in ScriptError
  BY EncodingErrorType
<1>2. PairingTypes /\ InBounds /\ InLoop
  BY DEF LoopInv, PairingInv, RefusePair
<1>3. curSig + 1 \in 1..Len(job.sigs) /\ curKey + 1 \in 1..Len(job.keys)
  BY <1>2, TurnInRange
<1>4. Refuses(job, curSig + 1, curKey + 1)
  BY DEF RefusePair, Refuses, Sig, PubKey
<1>5. Refusable(job)
  BY <1>3, <1>4 DEF Refusable
<1>6. RaisedRefusable'
  BY <1>5 DEF RefusePair, RaisedRefusable
<1>. QED BY <1>1, <1>6, SameCounters DEF RefusePair

LEMMA LeaveLoopLoopInv ==
  ASSUME LoopInv, LeaveLoop
  PROVE  LoopInv'
BY SameCounters DEF LeaveLoop, RaisedRefusable, LoopInv, LoopTypeOK

LEMMA StepLoopInv ==
  ASSUME LoopInv, [LoopStep]_multisigVars
  PROVE  LoopInv'
<1>1. CASE UNCHANGED multisigVars
  BY <1>1, SameCounters DEF multisigVars, LoopInv, LoopTypeOK, RaisedRefusable
<1>. QED BY <1>1, CompareLoopInv, RefusePairLoopInv, LeaveLoopLoopInv DEF LoopStep

\* Every reachable state of the loop satisfies the invariant.
THEOREM LoopInvariant == MultisigSpec => []LoopInv
BY InitLoopInv, StepLoopInv, PTL DEF MultisigSpec

\* The job, the counters and the detail keep their types: what the opcode reads
\* at the stack indexes of the loop are items, and it only ever fails with a
\* script error.
THEOREM LoopTypes == MultisigSpec => []LoopTypeOK
<1>1. LoopInv => LoopTypeOK
  BY DEF LoopInv
<1>. QED BY <1>1, LoopInvariant, PTL

\* The indexes of the loop stay inside the signatures and the keys.
THEOREM LoopInBounds == MultisigSpec => []InBounds
<1>1. LoopInv => InBounds
  BY DEF LoopInv, PairingInv
<1>. QED BY <1>1, LoopInvariant, PTL

\* Whatever has been paired so far is a matching.
THEOREM LoopMatched == MultisigSpec => []Matched
<1>1. LoopInv => Matched
  BY DEF LoopInv, PairingInv
<1>. QED BY <1>1, LoopInvariant, PTL

\* Giving up a key is never a mistake.
THEOREM LoopNoneMissed == MultisigSpec => []NoneMissed
<1>1. LoopInv => NoneMissed
  BY DEF LoopInv, PairingInv
<1>. QED BY <1>1, LoopInvariant, PTL
------------------------------------------------------------------------------
(* The loop implements the promise.                                        *)

\* The sets and predicates of the promise are those of the loop.
LEMMA PromiseJob == Promise!Job = Job
BY DEF Job, Promise!Job, Item, Promise!Item, Byte, Promise!Byte, ScriptOp,
       Promise!ScriptOp, Opcode, Promise!Opcode, VerificationFlag,
       Promise!VerificationFlag

LEMMA PromiseHasMatching ==
  ASSUME NEW j
  PROVE  Promise!HasMatching(j) <=> HasMatching(j)
BY DEF HasMatching, Promise!HasMatching, IsMatching, Promise!IsMatching, Accepts,
       Promise!Accepts, EcdsaValid, Promise!EcdsaValid

LEMMA PromiseRefusable ==
  ASSUME NEW j
  PROVE  Promise!Refusable(j) <=> Refusable(j)
BY DEF Refusable, Promise!Refusable, Refuses, Promise!Refuses, EncodingError,
       Promise!EncodingError, check_signature_encoding,
       Promise!check_signature_encoding, check_pubkey_encoding,
       Promise!check_pubkey_encoding, is_defined_hashtype,
       Promise!is_defined_hashtype, is_compressed, Promise!is_compressed,
       is_compressed_or_uncompressed, Promise!is_compressed_or_uncompressed

\* When every signature has been paired, the pairing is a complete matching.
LEMMA PairedHasMatching ==
  ASSUME PairingInv, LeaveLoop, success
  PROVE  HasMatching(job)
<1>1. PairingTypes /\ InBounds /\ Matched
  BY DEF PairingInv
<1>2. Len(job.sigs) \in Nat /\ curSig \in Nat
  BY <1>1 DEF PairingTypes
<1>3. curSig = Len(job.sigs)
  BY <1>1, <1>2 DEF LeaveLoop, InBounds, NSigs
<1>. QED BY <1>1, <1>3 DEF Matched, HasMatching

LEMMA CountAbove ==
  ASSUME NEW a \in Nat, NEW b \in Nat, a <= b
  PROVE  IsFiniteSet((a + 1)..b) /\ Cardinality((a + 1)..b) = b - a
<1>1. a + 1 \in Int /\ b \in Int
  OBVIOUS
<1>2. /\ IsFiniteSet((a + 1)..b)
      /\ Cardinality((a + 1)..b) = IF a + 1 > b THEN 0 ELSE b - (a + 1) + 1
  BY <1>1, FS_Interval
<1>3. (IF a + 1 > b THEN 0 ELSE b - (a + 1) + 1) = b - a
  OBVIOUS
<1>. QED BY <1>2, <1>3

\* When there are fewer keys than signatures left, a complete matching would
\* place all of the signatures left among the keys left, two on one key.
LEMMA GivenUpHasNone ==
  ASSUME PairingInv, ~success
  PROVE  ~HasMatching(job)
<1> DEFINE S == Len(job.sigs)
           K == Len(job.keys)
<1>1. PairingTypes /\ InBounds /\ NoneMissed
  BY DEF PairingInv
<1>2. S \in Nat /\ K \in Nat /\ curSig \in Nat /\ curKey \in Nat
  BY <1>1 DEF PairingTypes
<1>3. curSig < S /\ curKey <= K /\ S - curSig > K - curKey
  BY <1>1, <1>2 DEF InBounds, NSigs, NKeys
<1> SUFFICES ASSUME NEW f \in [1..S -> 1..K], IsMatching(f, job, S)
             PROVE  FALSE
  BY DEF HasMatching
<1> DEFINE Left == (curSig + 1)..S
           Free == (curKey + 1)..K
           g == [s \in Left |-> f[s]]
<1>4. f[curSig + 1] > curKey
  BY <1>1, <1>3 DEF NoneMissed
<1>5. \A s \in Left : f[s] \in Free
  <2> SUFFICES ASSUME NEW s \in Left PROVE f[s] \in Free
    OBVIOUS
  <2>1. s \in 1..S /\ curSig + 1 \in 1..S /\ f[s] \in 1..K
    BY <1>2
  <2>2. CASE s = curSig + 1
    BY <1>2, <1>4, <2>1, <2>2
  <2>3. CASE s # curSig + 1
    <3>1. f[curSig + 1] < f[s]
      BY <1>2, <2>1, <2>3 DEF IsMatching
    <3>. QED BY <1>2, <1>4, <2>1, <3>1
  <2>. QED BY <2>2, <2>3
<1>6. g \in [Left -> Free]
  BY <1>5
<1>7. /\ IsFiniteSet(Left) /\ IsFiniteSet(Free)
      /\ Cardinality(Left) = S - curSig /\ Cardinality(Free) = K - curKey
  BY <1>2, <1>3, CountAbove
<1>8. PICK a \in Left, b \in Left : a # b /\ g[a] = g[b]
  <2>. HIDE DEF Left, Free, g
  <2>. QED BY <1>3, <1>6, <1>7, FS_PigeonHole
<1>9. a \in 1..S /\ b \in 1..S /\ f[a] = f[b] /\ f[a] \in Nat
  BY <1>2, <1>8
<1>10. a < b \/ b < a
  BY <1>2, <1>8
<1>. QED BY <1>9, <1>10 DEF IsMatching

\* Greedy pairing decides exactly whether an order-preserving matching exists:
\* the loop implements the abstract specification of the opcode.
THEOREM LoopImplementsPromise == MultisigSpec => ImplementsPromise
<1>1. MultisigInit => Promise!PromiseInit
  BY PromiseJob DEF MultisigInit, Promise!PromiseInit
<1>2. ASSUME LoopInv, [LoopStep]_multisigVars
      PROVE  [Promise!Decide]_(Promise!promiseVars)
  <2>1. CASE Compare
    BY <2>1 DEF Compare, InLoop, Promise!promiseVars
  <2>2. CASE RefusePair
    <3>1. LoopInv'
      BY <1>2, <2>2, RefusePairLoopInv
    <3>2. Refusable(job)
      BY <2>2, <3>1 DEF LoopInv, RaisedRefusable, RefusePair
    <3>. QED BY <2>2, <3>2, PromiseRefusable
           DEF RefusePair, InLoop, Promise!Decide, Promise!promiseVars
  <2>3. CASE LeaveLoop
    <3>1. CASE success
      BY <1>2, <2>3, <3>1, PairedHasMatching, PromiseHasMatching
         DEF LoopInv, LeaveLoop, Promise!Decide, Promise!promiseVars
    <3>2. CASE ~success
      BY <1>2, <2>3, <3>2, GivenUpHasNone, PromiseHasMatching
         DEF LoopInv, LeaveLoop, Promise!Decide, Promise!promiseVars
    <3>. QED BY <3>1, <3>2
  <2>4. CASE UNCHANGED multisigVars
    BY <2>4 DEF multisigVars, Promise!promiseVars
  <2>. QED BY <1>2, <2>1, <2>2, <2>3, <2>4 DEF LoopStep
<1>. QED BY <1>1, <1>2, LoopInvariant, PTL
       DEF MultisigSpec, ImplementsPromise, Promise!PromiseSpec

------------------------------------------------------------------------------
(* Sequences.                                                              *)

\* The n-th item from the top is an item.
LEMMA FromTopType ==
  ASSUME NEW S, NEW s \in Seq(S), NEW n \in 1..Len(s)
  PROVE  s[Len(s) + 1 - n] \in S
BY LenProperties, ElementOfSeq

\* What is left below the top n items.
LEMMA DropType ==
  ASSUME NEW S, NEW s \in Seq(S), NEW n \in 0..Len(s)
  PROVE  /\ SubSeq(s, 1, Len(s) - n) \in Seq(S)
         /\ Len(SubSeq(s, 1, Len(s) - n)) = Len(s) - n
         /\ \A i \in 1..(Len(s) - n) : SubSeq(s, 1, Len(s) - n)[i] = s[i]
<1>1. Len(s) \in Nat /\ Len(s) - n \in 0..Len(s)
  BY LenProperties
<1>2. \A i \in 1..(Len(s) - n) : s[i] \in S
  BY <1>1, ElementOfSeq
<1> DEFINE k == Len(s) - n
<1>3. 1 \in Int /\ k \in Int /\ \A i \in 1..k : s[i] \in S
  BY <1>1, <1>2
<1>4. /\ SubSeq(s, 1, k) \in Seq(S)
      /\ Len(SubSeq(s, 1, k)) = IF 1 <= k THEN k - 1 + 1 ELSE 0
      /\ \A i \in 1..(k - 1 + 1) : SubSeq(s, 1, k)[i] = s[1 + i - 1]
  <2>. HIDE DEF k
  <2>. QED BY <1>3, SubSeqProperties
<1>5. k \in Nat /\ k - 1 + 1 = k /\ \A i \in 1..k : 1 + i - 1 = i
  BY <1>1
<1>. QED
  <2>. HIDE DEF k
  <2>1. /\ SubSeq(s, 1, k) \in Seq(S)
        /\ Len(SubSeq(s, 1, k)) = k
        /\ \A i \in 1..k : SubSeq(s, 1, k)[i] = s[i]
    BY <1>4, <1>5
  <2>. QED BY <2>1 DEF k

\* exec_stack.pop() and altstack.pop().
LEMMA FrontType ==
  ASSUME NEW S, NEW s \in Seq(S), s # << >>
  PROVE  /\ Front(s) \in Seq(S)
         /\ Len(Front(s)) = Len(s) - 1
         /\ Len(s) \in Nat \ {0}
<1>1. Len(s) \in Nat \ {0}
  BY EmptySeq
<1>2. 1 \in 0..Len(s)
  BY <1>1
<1>. QED BY <1>1, <1>2, DropType DEF Front

\* del stack[at].
LEMMA RemoveAtType ==
  ASSUME NEW S, NEW s \in Seq(S), NEW at \in 1..Len(s)
  PROVE  RemoveAt(s, at) \in Seq(S)
<1>1. Len(s) \in Nat /\ at \in Int
  BY LenProperties
<1>2. \A i \in 1..(at - 1) : s[i] \in S
  BY <1>1, ElementOfSeq
<1>3. \A i \in (at + 1)..Len(s) : s[i] \in S
  BY <1>1, ElementOfSeq
<1>4. 1 \in Int /\ at - 1 \in Int /\ at + 1 \in Int /\ Len(s) \in Int
  BY <1>1
<1>5. SubSeq(s, 1, at - 1) \in Seq(S)
  BY <1>2, <1>4, SubSeqProperties
<1>6. SubSeq(s, at + 1, Len(s)) \in Seq(S)
  BY <1>3, <1>4, SubSeqProperties
<1>. QED BY <1>5, <1>6, ConcatProperties DEF RemoveAt
------------------------------------------------------------------------------
(* Script numbers.                                                         *)

LEMMA ByteAtType ==
  ASSUME NEW a \in Nat, NEW i \in 1..5
  PROVE  ByteAt(a, i) \in Byte
BY DEF ByteAt, Byte, TWO24

LEMMA EncodeNumType ==
  ASSUME NEW v \in Int
  PROVE  encode_num(v) \in Item
<1> DEFINE a == Magnitude(v)
           n == NumBytes(a)
           sign == IF v < 0 THEN 128 ELSE 0
           spare == ByteAt(a, n) < 128
           bytes == [i \in 1..n |->
                       ByteAt(a, i) + IF i = n /\ spare THEN sign ELSE 0]
<1>1. a \in Nat
  BY DEF Magnitude
<1>2. n \in 1..5
  BY DEF NumBytes
<1>3. \A i \in 1..n : ByteAt(a, i) \in Byte
  BY <1>1, <1>2, ByteAtType
<1>4. sign \in {0, 128}
  OBVIOUS
<1>5. \A i \in 1..n : ByteAt(a, i) + (IF i = n /\ spare THEN sign ELSE 0) \in Byte
  <2> SUFFICES ASSUME NEW i \in 1..n
               PROVE  ByteAt(a, i) + (IF i = n /\ spare THEN sign ELSE 0) \in Byte
    OBVIOUS
  <2>1. ByteAt(a, i) \in 0..255 /\ (i = n /\ spare => ByteAt(a, i) < 128)
    BY <1>3 DEF Byte
  <2>. HIDE DEF a, n, sign, spare
  <2>. QED BY <1>4, <2>1 DEF Byte
<1>6. bytes \in Item
  <2>. HIDE DEF a, n, sign, spare
  <2>. QED BY <1>2, <1>5 DEF Item
<1>7. Append(bytes, sign) \in Item
  BY <1>4, <1>6, AppendProperties DEF Item, Byte
<1>8. << >> \in Item
  BY DEF Item
<1>. QED BY <1>6, <1>7, <1>8 DEF encode_num

LEMMA LowBitsType == \A x \in 0..255 : x \in Nat /\ x % 128 \in Nat
OBVIOUS

LEMMA DecodeNumType ==
  ASSUME NEW data \in Item
  PROVE  decode_num(data) \in Int
<1> DEFINE n == Len(data)
<1>1. n \in Nat
  BY LenProperties DEF Item
<1>2. \A i \in 1..n : data[i] \in 0..255
  BY ElementOfSeq DEF Item, Byte
<1>3. ASSUME NEW i \in 1..n PROVE Digit(data, i) \in Nat
  <2>1. data[i] \in 0..255
    BY <1>2
  <2>2. data[i] \in Nat /\ data[i] % 128 \in Nat
    BY <2>1, LowBitsType
  <2>. QED BY <2>2, Zenon DEF Digit
<1>. HIDE DEF n
<1>4. /\ n >= 1 => Digit(data, 1) \in Nat
      /\ n >= 2 => Digit(data, 2) \in Nat
      /\ n >= 3 => Digit(data, 3) \in Nat
      /\ n >= 4 => Digit(data, 4) \in Nat
      /\ n >= 5 => Digit(data, 5) \in Nat
  BY <1>1, <1>3
<1> DEFINE abs == (IF n >= 1 THEN Digit(data, 1) ELSE 0)
                + (IF n >= 2 THEN 256 * Digit(data, 2) ELSE 0)
                + (IF n >= 3 THEN 65536 * Digit(data, 3) ELSE 0)
                + (IF n >= 4 THEN TWO24 * Digit(data, 4) ELSE 0)
                + (IF n >= 5 THEN 256 * TWO24 * Digit(data, 5) ELSE 0)
<1>5. abs \in Nat
  BY <1>4 DEF TWO24
<1>6. decode_num(data) = IF n > 0 /\ data[n] >= 128 THEN -abs ELSE abs
  BY DEF decode_num, n
<1>. HIDE DEF abs
<1>. QED BY <1>5, <1>6

LEMMA BoolType ==
  ASSUME NEW b
  PROVE  Bool(b) \in Item
<1>1. << >> \in Seq(0..255) /\ <<1>> \in Seq(0..255)
  OBVIOUS
<1>. QED BY <1>1 DEF Bool, Item, Byte

LEMMA UnaryType ==
  ASSUME NEW op \in UNARY_NUMERIC, NEW n \in Int
  PROVE  Unary(op, n) \in Int
BY DEF Unary, UNARY_NUMERIC, Int01, Magnitude, OP_1ADD, OP_1SUB, OP_NEGATE, OP_ABS,
       OP_NOT, OP_0NOTEQUAL

LEMMA BinaryType ==
  ASSUME NEW op \in BINARY_NUMERIC \ {OP_NUMEQUALVERIFY}, NEW a \in Int, NEW b \in Int
  PROVE  Binary(op, a, b) \in Int
BY DEF Binary, BINARY_NUMERIC, Int01, OP_ADD, OP_SUB, OP_BOOLAND, OP_BOOLOR,
       OP_NUMEQUAL, OP_NUMEQUALVERIFY, OP_NUMNOTEQUAL, OP_LESSTHAN, OP_GREATERTHAN,
       OP_LESSTHANOREQUAL, OP_GREATERTHANOREQUAL, OP_MIN, OP_MAX
------------------------------------------------------------------------------
(* Rearranging operations.                                                 *)

\* How many items each operation takes, and what it puts back.
LEMMA GivesForms ==
  /\ Arity(OP_DROP) = 1 /\ Gives(OP_DROP) = << >>
  /\ Arity(OP_DUP) = 1 /\ Gives(OP_DUP) = <<1, 1>>
  /\ Arity(OP_2DROP) = 2 /\ Gives(OP_2DROP) = << >>
  /\ Arity(OP_2DUP) = 2 /\ Gives(OP_2DUP) = <<1, 2, 1, 2>>
  /\ Arity(OP_3DUP) = 3 /\ Gives(OP_3DUP) = <<1, 2, 3, 1, 2, 3>>
  /\ Arity(OP_2OVER) = 4 /\ Gives(OP_2OVER) = <<1, 2, 3, 4, 1, 2>>
  /\ Arity(OP_2ROT) = 6 /\ Gives(OP_2ROT) = <<3, 4, 5, 6, 1, 2>>
  /\ Arity(OP_2SWAP) = 4 /\ Gives(OP_2SWAP) = <<3, 4, 1, 2>>
  /\ Arity(OP_NIP) = 2 /\ Gives(OP_NIP) = <<2>>
  /\ Arity(OP_OVER) = 2 /\ Gives(OP_OVER) = <<1, 2, 1>>
  /\ Arity(OP_ROT) = 3 /\ Gives(OP_ROT) = <<2, 3, 1>>
  /\ Arity(OP_SWAP) = 2 /\ Gives(OP_SWAP) = <<2, 1>>
  /\ Arity(OP_TUCK) = 2 /\ Gives(OP_TUCK) = <<2, 1, 2>>
<1>. USE DEF OP_0, OP_PUSHDATA1, OP_PUSHDATA2, OP_PUSHDATA4, OP_1NEGATE,
             OP_RESERVED, OP_1, OP_16, OP_NOP, OP_VER, OP_IF, OP_NOTIF, OP_VERIF,
             OP_VERNOTIF, OP_ELSE, OP_ENDIF, OP_VERIFY, OP_RETURN, OP_TOALTSTACK,
             OP_FROMALTSTACK, OP_2DROP, OP_2DUP, OP_3DUP, OP_2OVER, OP_2ROT,
             OP_2SWAP, OP_IFDUP, OP_DEPTH, OP_DROP, OP_DUP, OP_NIP, OP_OVER,
             OP_PICK, OP_ROLL, OP_ROT, OP_SWAP, OP_TUCK, OP_SIZE, OP_EQUAL,
             OP_EQUALVERIFY, OP_RESERVED1, OP_RESERVED2, OP_1ADD, OP_1SUB,
             OP_NEGATE, OP_ABS, OP_NOT, OP_0NOTEQUAL, OP_ADD, OP_SUB, OP_BOOLAND,
             OP_BOOLOR, OP_NUMEQUAL, OP_NUMEQUALVERIFY, OP_NUMNOTEQUAL,
             OP_LESSTHAN, OP_GREATERTHAN, OP_LESSTHANOREQUAL,
             OP_GREATERTHANOREQUAL, OP_MIN, OP_MAX, OP_WITHIN, OP_RIPEMD160,
             OP_SHA1, OP_SHA256, OP_HASH160, OP_HASH256, OP_CODESEPARATOR,
             OP_CHECKSIG, OP_CHECKSIGVERIFY, OP_CHECKMULTISIG,
             OP_CHECKMULTISIGVERIFY, OP_NOP1, OP_CHECKLOCKTIMEVERIFY,
             OP_CHECKSEQUENCEVERIFY, OP_NOP4, OP_NOP10, OP_CHECKSIGADD,
             OP_INVALIDOPCODE,
             Arity, Gives, UNARY_NUMERIC, BINARY_NUMERIC, HASH_OPCODES
<1>1. Arity(OP_DROP) = 1 /\ Gives(OP_DROP) = << >>
  OBVIOUS
<1>2. Arity(OP_DUP) = 1 /\ Gives(OP_DUP) = <<1, 1>>
  OBVIOUS
<1>3. Arity(OP_2DROP) = 2 /\ Gives(OP_2DROP) = << >>
  OBVIOUS
<1>4. Arity(OP_2DUP) = 2 /\ Gives(OP_2DUP) = <<1, 2, 1, 2>>
  OBVIOUS
<1>5. Arity(OP_3DUP) = 3 /\ Gives(OP_3DUP) = <<1, 2, 3, 1, 2, 3>>
  OBVIOUS
<1>6. Arity(OP_2OVER) = 4 /\ Gives(OP_2OVER) = <<1, 2, 3, 4, 1, 2>>
  OBVIOUS
<1>7. Arity(OP_2ROT) = 6 /\ Gives(OP_2ROT) = <<3, 4, 5, 6, 1, 2>>
  OBVIOUS
<1>8. Arity(OP_2SWAP) = 4 /\ Gives(OP_2SWAP) = <<3, 4, 1, 2>>
  OBVIOUS
<1>9. Arity(OP_NIP) = 2 /\ Gives(OP_NIP) = <<2>>
  OBVIOUS
<1>10. Arity(OP_OVER) = 2 /\ Gives(OP_OVER) = <<1, 2, 1>>
  OBVIOUS
<1>11. Arity(OP_ROT) = 3 /\ Gives(OP_ROT) = <<2, 3, 1>>
  OBVIOUS
<1>12. Arity(OP_SWAP) = 2 /\ Gives(OP_SWAP) = <<2, 1>>
  OBVIOUS
<1>13. Arity(OP_TUCK) = 2 /\ Gives(OP_TUCK) = <<2, 1, 2>>
  OBVIOUS
<1>. QED BY <1>1, <1>2, <1>3, <1>4, <1>5, <1>6, <1>7, <1>8, <1>9, <1>10, <1>11, <1>12, <1>13

LEMMA PickArity == Arity(OP_PICK) = 2 /\ Arity(OP_ROLL) = 2
BY DEF OP_0, OP_PUSHDATA1, OP_PUSHDATA2, OP_PUSHDATA4, OP_1NEGATE,
       OP_RESERVED, OP_1, OP_16, OP_NOP, OP_VER, OP_IF, OP_NOTIF, OP_VERIF,
       OP_VERNOTIF, OP_ELSE, OP_ENDIF, OP_VERIFY, OP_RETURN, OP_TOALTSTACK,
       OP_FROMALTSTACK, OP_2DROP, OP_2DUP, OP_3DUP, OP_2OVER, OP_2ROT,
       OP_2SWAP, OP_IFDUP, OP_DEPTH, OP_DROP, OP_DUP, OP_NIP, OP_OVER,
       OP_PICK, OP_ROLL, OP_ROT, OP_SWAP, OP_TUCK, OP_SIZE, OP_EQUAL,
       OP_EQUALVERIFY, OP_RESERVED1, OP_RESERVED2, OP_1ADD, OP_1SUB,
       OP_NEGATE, OP_ABS, OP_NOT, OP_0NOTEQUAL, OP_ADD, OP_SUB, OP_BOOLAND,
       OP_BOOLOR, OP_NUMEQUAL, OP_NUMEQUALVERIFY, OP_NUMNOTEQUAL,
       OP_LESSTHAN, OP_GREATERTHAN, OP_LESSTHANOREQUAL,
       OP_GREATERTHANOREQUAL, OP_MIN, OP_MAX, OP_WITHIN, OP_RIPEMD160,
       OP_SHA1, OP_SHA256, OP_HASH160, OP_HASH256, OP_CODESEPARATOR,
       OP_CHECKSIG, OP_CHECKSIGVERIFY, OP_CHECKMULTISIG,
       OP_CHECKMULTISIGVERIFY, OP_NOP1, OP_CHECKLOCKTIMEVERIFY,
       OP_CHECKSEQUENCEVERIFY, OP_NOP4, OP_NOP10, OP_CHECKSIGADD,
       OP_INVALIDOPCODE,
       Arity, Gives, UNARY_NUMERIC, BINARY_NUMERIC, HASH_OPCODES

\* Every position an operation gives back is one of those it takes.
LEMMA GivesType ==
  ASSUME NEW op \in STACK_SHUFFLES
  PROVE  Arity(op) \in 1..6 /\ Gives(op) \in Seq(1..Arity(op))
<1>1. /\ << >> \in Seq(1..1)
      /\ <<1, 1>> \in Seq(1..1)
      /\ << >> \in Seq(1..2)
      /\ <<1, 2, 1, 2>> \in Seq(1..2)
      /\ <<1, 2, 3, 1, 2, 3>> \in Seq(1..3)
      /\ <<1, 2, 3, 4, 1, 2>> \in Seq(1..4)
      /\ <<3, 4, 5, 6, 1, 2>> \in Seq(1..6)
      /\ <<3, 4, 1, 2>> \in Seq(1..4)
      /\ <<2>> \in Seq(1..2)
      /\ <<1, 2, 1>> \in Seq(1..2)
      /\ <<2, 3, 1>> \in Seq(1..3)
      /\ <<2, 1>> \in Seq(1..2)
      /\ <<2, 1, 2>> \in Seq(1..2)
  OBVIOUS
<1>2. CASE op \in {OP_DROP, OP_DUP}
  <2>1. Arity(op) = 1 /\ Gives(op) \in Seq(1..1)
    BY <1>1, <1>2, GivesForms
  <2>. QED BY <2>1
<1>3. CASE op \in {OP_2DROP, OP_2DUP, OP_NIP, OP_OVER, OP_SWAP, OP_TUCK}
  <2>1. Arity(op) = 2 /\ Gives(op) \in Seq(1..2)
    BY <1>1, <1>3, GivesForms
  <2>. QED BY <2>1
<1>4. CASE op \in {OP_3DUP, OP_ROT}
  <2>1. Arity(op) = 3 /\ Gives(op) \in Seq(1..3)
    BY <1>1, <1>4, GivesForms
  <2>. QED BY <2>1
<1>5. CASE op \in {OP_2OVER, OP_2SWAP}
  <2>1. Arity(op) = 4 /\ Gives(op) \in Seq(1..4)
    BY <1>1, <1>5, GivesForms
  <2>. QED BY <2>1
<1>6. CASE op = OP_2ROT
  BY <1>1, <1>6, GivesForms
<1>. QED BY <1>2, <1>3, <1>4, <1>5, <1>6 DEF STACK_SHUFFLES

LEMMA ShuffledType ==
  ASSUME NEW op \in STACK_SHUFFLES, NEW S, NEW s \in Seq(S), Len(s) >= Arity(op)
  PROVE  Shuffled(op, s) \in Seq(S)
<1> DEFINE base == Len(s) - Arity(op)
           put == [i \in DOMAIN Gives(op) |-> s[base + Gives(op)[i]]]
<1>1. Len(s) \in Nat /\ Arity(op) \in 0..Len(s) /\ base \in 0..Len(s)
  BY GivesType, LenProperties
<1>2. Gives(op) \in Seq(1..Arity(op))
  BY GivesType
<1>3. DOMAIN Gives(op) = 1..Len(Gives(op)) /\ Len(Gives(op)) \in Nat
  BY <1>2, LenProperties
<1>4. \A i \in 1..Len(Gives(op)) : Gives(op)[i] \in 1..Arity(op)
  BY <1>2, ElementOfSeq
<1>5. \A i \in 1..Len(Gives(op)) : s[base + Gives(op)[i]] \in S
  BY <1>1, <1>4, ElementOfSeq
<1>6. put \in Seq(S)
  <2>. HIDE DEF base
  <2>. QED BY <1>3, <1>5
<1>7. SubSeq(s, 1, base) \in Seq(S)
  BY <1>1, DropType
<1>. QED BY <1>6, <1>7, ConcatProperties DEF Shuffled
------------------------------------------------------------------------------
(* Operands.                                                               *)

\* The operands an operation decodes are among the items it needs.
LEMMA NumOperandsType ==
  ASSUME NEW op
  PROVE  Arity(op) \in 0..6 /\ NumOperands(op) \in 0..Arity(op)
BY DEF Arity, NumOperands, UNARY_NUMERIC, BINARY_NUMERIC, HASH_OPCODES,
       OP_0, OP_PUSHDATA1, OP_PUSHDATA2, OP_PUSHDATA4, OP_1NEGATE, OP_RESERVED,
       OP_1, OP_16, OP_NOP, OP_VER, OP_IF, OP_NOTIF, OP_VERIF, OP_VERNOTIF,
       OP_ELSE, OP_ENDIF, OP_VERIFY, OP_RETURN, OP_TOALTSTACK, OP_FROMALTSTACK,
       OP_2DROP, OP_2DUP, OP_3DUP, OP_2OVER, OP_2ROT, OP_2SWAP, OP_IFDUP,
       OP_DEPTH, OP_DROP, OP_DUP, OP_NIP, OP_OVER, OP_PICK, OP_ROLL, OP_ROT,
       OP_SWAP, OP_TUCK, OP_SIZE, OP_EQUAL, OP_EQUALVERIFY, OP_RESERVED1,
       OP_RESERVED2, OP_1ADD, OP_1SUB, OP_NEGATE, OP_ABS, OP_NOT, OP_0NOTEQUAL,
       OP_ADD, OP_SUB, OP_BOOLAND, OP_BOOLOR, OP_NUMEQUAL, OP_NUMEQUALVERIFY,
       OP_NUMNOTEQUAL, OP_LESSTHAN, OP_GREATERTHAN, OP_LESSTHANOREQUAL,
       OP_GREATERTHANOREQUAL, OP_MIN, OP_MAX, OP_WITHIN, OP_RIPEMD160, OP_SHA1,
       OP_SHA256, OP_HASH160, OP_HASH256, OP_CODESEPARATOR, OP_CHECKSIG,
       OP_CHECKSIGVERIFY, OP_CHECKMULTISIG, OP_CHECKMULTISIGVERIFY, OP_NOP1,
       OP_CHECKLOCKTIMEVERIFY, OP_CHECKSEQUENCEVERIFY, OP_NOP4, OP_NOP10,
       OP_CHECKSIGADD, OP_INVALIDOPCODE

LEMMA ArityType ==
  ASSUME NEW op
  PROVE  /\ op \in {OP_IF, OP_NOTIF, OP_VERIFY, OP_TOALTSTACK, OP_IFDUP, OP_SIZE}
              => Arity(op) = 1
         /\ op \in HASH_OPCODES => Arity(op) = 1
         /\ op \in UNARY_NUMERIC => Arity(op) = 1 /\ NumOperands(op) = 1
         /\ op \in {OP_PICK, OP_ROLL} => Arity(op) = 2 /\ NumOperands(op) = 1
         /\ op \in {OP_EQUAL, OP_EQUALVERIFY} => Arity(op) = 2
         /\ op \in BINARY_NUMERIC => Arity(op) = 2 /\ NumOperands(op) = 2
         /\ op = OP_WITHIN => Arity(op) = 3 /\ NumOperands(op) = 3
BY DEF Arity, NumOperands, UNARY_NUMERIC, BINARY_NUMERIC, HASH_OPCODES,
       OP_0, OP_PUSHDATA1, OP_PUSHDATA2, OP_PUSHDATA4, OP_1NEGATE, OP_RESERVED,
       OP_1, OP_16, OP_NOP, OP_VER, OP_IF, OP_NOTIF, OP_VERIF, OP_VERNOTIF,
       OP_ELSE, OP_ENDIF, OP_VERIFY, OP_RETURN, OP_TOALTSTACK, OP_FROMALTSTACK,
       OP_2DROP, OP_2DUP, OP_3DUP, OP_2OVER, OP_2ROT, OP_2SWAP, OP_IFDUP,
       OP_DEPTH, OP_DROP, OP_DUP, OP_NIP, OP_OVER, OP_PICK, OP_ROLL, OP_ROT,
       OP_SWAP, OP_TUCK, OP_SIZE, OP_EQUAL, OP_EQUALVERIFY, OP_RESERVED1,
       OP_RESERVED2, OP_1ADD, OP_1SUB, OP_NEGATE, OP_ABS, OP_NOT, OP_0NOTEQUAL,
       OP_ADD, OP_SUB, OP_BOOLAND, OP_BOOLOR, OP_NUMEQUAL, OP_NUMEQUALVERIFY,
       OP_NUMNOTEQUAL, OP_LESSTHAN, OP_GREATERTHAN, OP_LESSTHANOREQUAL,
       OP_GREATERTHANOREQUAL, OP_MIN, OP_MAX, OP_WITHIN, OP_RIPEMD160, OP_SHA1,
       OP_SHA256, OP_HASH160, OP_HASH256, OP_CODESEPARATOR, OP_CHECKSIG,
       OP_CHECKSIGVERIFY, OP_CHECKMULTISIG, OP_CHECKMULTISIGVERIFY, OP_NOP1,
       OP_CHECKLOCKTIMEVERIFY, OP_CHECKSEQUENCEVERIFY, OP_NOP4, OP_NOP10,
       OP_CHECKSIGADD, OP_INVALIDOPCODE
------------------------------------------------------------------------------
(* The type invariant.                                                     *)

\* What the hash opcodes push is a byte sequence.  It is a hypothesis of the
\* theorems and not an assumption of the module because it speaks of all items.
DigestsAreItems == \A op \in HASH_OPCODES, data \in Item : Digest(op, data) \in Item

\* While the loop of a multi-signature check runs, its arguments are still on
\* the stack, below them the item the check pops in the end.
MultisigArguments ==
  /\ loopError \in ScriptError
  /\ loopPhase # "idle" =>
       /\ status = "running" /\ pc < Len(Ops) /\ Executing
       /\ Op \in CHECKMULTISIG_OPCODES
       /\ job.sigs \in Seq(Item) /\ job.keys \in Seq(Item)
       /\ Has(Len(job.keys) + Len(job.sigs) + 3)

\* The type invariant, made inductive.
TypeInv == TypeOK /\ MultisigArguments

InTurn == status = "running" /\ pc < Len(Ops)

\* The types of what an evaluation is given.
LEMMA InputType ==
  ASSUME input \in EvalInput
  PROVE  /\ Ops \in Seq(ScriptOp) /\ Len(Ops) \in Nat
         /\ input.stack \in Seq(Item)
         /\ input.weight \in Nat
         /\ input.sigVersion \in SigVersion
BY LenProperties DEF EvalInput, Script, Ops

LEMMA OpType ==
  ASSUME TypeOK, InTurn
  PROVE  /\ pc + 1 \in 1..Len(Ops)
         /\ Op \in Opcode /\ PushData \in Item
         /\ Count \in Nat
<1>1. Ops \in Seq(ScriptOp) /\ Len(Ops) \in Nat
  BY InputType DEF TypeOK
<1>2. pc + 1 \in 1..Len(Ops)
  BY <1>1 DEF TypeOK, InTurn
<1>3. Ops[pc + 1] \in ScriptOp
  BY <1>1, <1>2, ElementOfSeq
<1>4. Op \in Opcode /\ PushData \in Item
  BY <1>3 DEF ScriptOp, Op, PushData, Ops
<1>5. Count \in Nat
  BY DEF Count, TypeOK
<1>. QED BY <1>2, <1>4, <1>5

\* The end of a turn keeps the types, whatever the operation left behind.
LEMMA FinishType ==
  ASSUME TypeInv, InTurn,
         NEW s \in Seq(Item), NEW a \in Seq(Item), NEW x \in Seq(BOOLEAN),
         NEW n \in Nat, NEW sig, NEW err \in ScriptError,
         Finish(s, a, x, n, sig, err),
         codesep' \in 0..Len(Ops), codesepPos' \in Int, weight' \in Int,
         loopPhase' = "idle", loopError' = loopError
  PROVE  TypeInv'
<1>1. pc + 1 \in 1..Len(Ops) /\ Len(Ops) \in Nat
  BY OpType, InputType DEF TypeInv, TypeOK
<1>2. /\ input' = input /\ pc' = pc + 1
      /\ stack' = s /\ altstack' = a /\ execStack' = x /\ opCount' = n
      /\ error' \in {err, "STACK_SIZE"}
      /\ status' \in {status, "raised"}
      /\ finalStack' \in {finalStack, s}
  BY DEF Finish
<1>3. "STACK_SIZE" \in ScriptError
  BY DEF ScriptError
<1>4. Ops' = Ops
  BY <1>2 DEF Ops
<1>5. TypeOK'
  BY <1>1, <1>2, <1>3, <1>4 DEF TypeInv, TypeOK
<1>6. MultisigArguments'
  BY DEF TypeInv, MultisigArguments
<1>. QED BY <1>5, <1>6 DEF TypeInv

LEMMA PlainType ==
  ASSUME TypeInv, AtOp,
         NEW s \in Seq(Item), NEW a \in Seq(Item), NEW x \in Seq(BOOLEAN),
         NEW err \in ScriptError,
         Plain(s, a, x, err)
  PROVE  TypeInv'
<1>1. InTurn
  BY DEF AtOp, InTurn, Ops
<1>2. Count \in Nat
  BY <1>1, OpType DEF TypeInv
<1>3. /\ codesep' \in 0..Len(Ops) /\ codesepPos' \in Int /\ weight' \in Int
      /\ loopPhase' = "idle" /\ loopError' = loopError
  BY DEF Plain, AtOp, codeVars, multisigVars, TypeInv, TypeOK
<1>4. Finish(s, a, x, Count, {}, err)
  BY DEF Plain
<1>. QED BY <1>1, <1>2, <1>3, <1>4, FinishType

LEMMA LeaveType ==
  ASSUME TypeInv, AtOp, NEW s \in Seq(Item), Leave(s)
  PROVE  TypeInv'
<1>1. /\ altstack \in Seq(Item) /\ execStack \in Seq(BOOLEAN)
      /\ Plain(s, altstack, execStack, "OK") /\ "OK" \in ScriptError
  BY DEF Leave, TypeInv, TypeOK, ScriptError
<1>. QED BY <1>1, PlainType

LEMMA RaiseType ==
  ASSUME TypeInv, AtOp, NEW s \in Seq(Item), NEW err \in ScriptError, Raise(s, err)
  PROVE  TypeInv'
<1>1. /\ altstack \in Seq(Item) /\ execStack \in Seq(BOOLEAN)
      /\ Plain(s, altstack, execStack, err)
  BY DEF Raise, TypeInv, TypeOK
<1>. QED BY <1>1, PlainType

\* What an operation takes from a stack that has enough items.
LEMMA TakenType ==
  ASSUME TypeInv, NEW n \in Nat, Has(n)
  PROVE  /\ Drop(n) \in Seq(Item) /\ Len(Drop(n)) = Len(stack) - n
         /\ \A i \in 1..n : Top(i) \in Item
         /\ \A i \in 0..n : Drop(i) \in Seq(Item)
         /\ Len(stack) \in Nat
<1>1. stack \in Seq(Item) /\ Len(stack) \in Nat
  BY LenProperties DEF TypeInv, TypeOK
<1>2. \A i \in 0..n : i \in 0..Len(stack)
  BY <1>1 DEF Has
<1>3. \A i \in 1..n : i \in 1..Len(stack)
  BY <1>1 DEF Has
<1>4. n \in 0..n
  OBVIOUS
<1>. QED BY <1>1, <1>2, <1>3, <1>4, DropType, FromTopType DEF Drop, Top
------------------------------------------------------------------------------
(* Every action keeps the type invariant.                                  *)

LEMMA TerminalType ==
  ASSUME TypeInv, loopPhase = "idle", NEW err \in ScriptError, Terminal(err)
  PROVE  TypeInv'
<1>1. /\ UNCHANGED <<input, pc, stack, altstack, execStack, opCount, finalStack,
                     codesep, codesepPos, weight, loopPhase, loopError>>
      /\ error' = err /\ status' = "raised"
  BY DEF Terminal, codeVars, multisigVars
<1>2. TypeOK'
  BY <1>1 DEF TypeInv, TypeOK, Ops
<1>3. MultisigArguments'
  BY <1>1 DEF TypeInv, MultisigArguments
<1>. QED BY <1>2, <1>3 DEF TypeInv

LEMMA StartAndEndType ==
  ASSUME TypeInv,
         \/ RejectScriptSize \/ RejectTruncated \/ BeginLoop
         \/ EndUnbalanced \/ EndReturn
  PROVE  TypeInv'
<1>1. {"SCRIPT_SIZE", "BAD_OPCODE", "UNBALANCED_CONDITIONAL"} \subseteq ScriptError
  BY DEF ScriptError
<1>2. status = "start" => loopPhase = "idle"
  BY DEF TypeInv, MultisigArguments
<1>3. CASE RejectScriptSize
  BY <1>1, <1>2, <1>3, TerminalType DEF RejectScriptSize
<1>4. CASE RejectTruncated
  BY <1>1, <1>2, <1>4, TerminalType DEF RejectTruncated
<1>5. CASE EndUnbalanced
  BY <1>1, <1>5, TerminalType DEF EndUnbalanced, AtEnd
<1>6. CASE BeginLoop
  <2>1. TypeOK'
    BY <1>6 DEF BeginLoop, TypeInv, TypeOK, codeVars, multisigVars, Ops
  <2>2. MultisigArguments'
    BY <1>2, <1>6 DEF BeginLoop, TypeInv, MultisigArguments, multisigVars
  <2>. QED BY <2>1, <2>2 DEF TypeInv
<1>7. CASE EndReturn
  <2>1. TypeOK'
    BY <1>7 DEF EndReturn, TypeInv, TypeOK, codeVars, multisigVars, Ops
  <2>2. MultisigArguments'
    BY <1>7 DEF EndReturn, AtEnd, TypeInv, MultisigArguments, multisigVars
  <2>. QED BY <2>1, <2>2 DEF TypeInv
<1>. QED BY <1>3, <1>4, <1>5, <1>6, <1>7

LEMMA RefusalType ==
  ASSUME TypeInv, RejectOp \/ Underflow \/ BadOpcode \/ BadNumber \/ SkipOp
  PROVE  TypeInv'
<1>1. stack \in Seq(Item)
  BY DEF TypeInv, TypeOK
<1>2. {"INVALID_STACK_OPERATION", "BAD_OPCODE", "SCRIPTNUM"} \subseteq ScriptError
  BY DEF ScriptError
<1>3. CASE RejectOp
  <2>1. Rejection \in ScriptError
    BY DEF Rejection, ScriptError
  <2>. QED BY <1>1, <1>3, <2>1, RaiseType DEF RejectOp
<1>4. CASE Underflow
  BY <1>1, <1>2, <1>4, RaiseType DEF Underflow, Executes, Processes
<1>5. CASE BadOpcode
  BY <1>1, <1>2, <1>5, RaiseType DEF BadOpcode, Executes, Processes
<1>6. CASE BadNumber
  <2>1. PICK i \in 1..NumOperands(Op) : Raise(Drop(i), "SCRIPTNUM")
    BY <1>6 DEF BadNumber
  <2>2. AtOp /\ Has(Arity(Op))
    BY <1>6 DEF BadNumber, Runs, Executes, Processes
  <2>3. Arity(Op) \in Nat /\ i \in 0..Arity(Op)
    BY NumOperandsType
  <2>4. Drop(i) \in Seq(Item)
    BY <2>2, <2>3, TakenType
  <2>. QED BY <1>2, <2>1, <2>2, <2>4, RaiseType
<1>7. CASE SkipOp
  BY <1>1, <1>7, LeaveType DEF SkipOp, Processes
<1>. QED BY <1>3, <1>4, <1>5, <1>6, <1>7

LEMMA PushType ==
  ASSUME TypeInv, OpPush \/ OpSmallInt
  PROVE  TypeInv'
<1>1. stack \in Seq(Item) /\ "MINIMALDATA" \in ScriptError
  BY DEF TypeInv, TypeOK, ScriptError
<1>2. AtOp /\ InTurn
  BY DEF OpPush, OpSmallInt, Executes, Processes, AtOp, InTurn, Ops
<1>3. CASE OpPush
  <2>1. Append(stack, PushData) \in Seq(Item)
    BY <1>1, <1>2, OpType, AppendProperties DEF TypeInv
  <2>. QED BY <1>1, <1>2, <1>3, <2>1, RaiseType, LeaveType DEF OpPush
<1>4. CASE OpSmallInt
  <2> DEFINE v == IF Op = OP_1NEGATE THEN -1 ELSE Op - (OP_1 - 1)
  <2>1. v \in Int
    <3>1. Op \in 0..255
      BY <1>2, OpType DEF TypeInv, Opcode
    <3>2. Op - (OP_1 - 1) \in Int
      BY <3>1 DEF OP_1
    <3>. QED BY <3>2
  <2>2. Append(stack, encode_num(v)) \in Seq(Item)
    BY <1>1, <2>1, EncodeNumType, AppendProperties
  <2>. QED BY <1>2, <1>4, <2>2, LeaveType DEF OpSmallInt
<1>. QED BY <1>3, <1>4

LEMMA ControlType ==
  ASSUME TypeInv,
         \/ OpIf \/ SkippedIf \/ OpElse \/ OpEndIf \/ OpVerify
         \/ OpReturn \/ OpNop \/ OpUpgradableNop
  PROVE  TypeInv'
<1>1. /\ stack \in Seq(Item) /\ altstack \in Seq(Item)
      /\ execStack \in Seq(BOOLEAN) /\ Len(execStack) \in Nat
  BY LenProperties DEF TypeInv, TypeOK
<1>2. AtOp
  BY DEF OpIf, SkippedIf, OpElse, OpEndIf, OpVerify, OpReturn, OpNop,
         OpUpgradableNop, Runs, Executes, Processes
<1>3. {"OK", "TAPSCRIPT_MINIMALIF", "MINIMALIF", "UNBALANCED_CONDITIONAL", "VERIFY",
       "OP_RETURN", "DISCOURAGE_UPGRADABLE_NOPS"} \subseteq ScriptError
  BY DEF ScriptError
<1>4. \A b \in BOOLEAN : Append(execStack, b) \in Seq(BOOLEAN)
  BY <1>1, AppendProperties
<1>5. CASE OpIf
  <2>1. IfRefusal \in ScriptError
    BY <1>3 DEF IfRefusal
  <2>2. Has(1)
    BY <1>5, ArityType DEF OpIf, Runs, Executes, Processes
  <2>3. Drop(1) \in Seq(Item)
    BY <2>2, TakenType
  <2>4. (cast_to_bool(Top(1)) # (Op = OP_NOTIF)) \in BOOLEAN
    OBVIOUS
  <2>. QED BY <1>1, <1>2, <1>3, <1>4, <1>5, <2>1, <2>3, <2>4, RaiseType, PlainType
         DEF OpIf
<1>6. CASE SkippedIf
  BY <1>1, <1>2, <1>3, <1>4, <1>6, PlainType DEF SkippedIf
<1>7. CASE OpElse
  <2> DEFINE n == Len(execStack)
  <2>1. CASE n = 0
    BY <1>1, <1>2, <1>3, <1>7, <2>1, RaiseType DEF OpElse
  <2>2. CASE n # 0
    <3>1. n \in 1..Len(execStack) /\ (~execStack[n]) \in BOOLEAN
      BY <1>1, <2>2
    <3>2. [execStack EXCEPT ![n] = ~execStack[n]] \in Seq(BOOLEAN)
      BY <1>1, <3>1, ExceptSeq
    <3>. QED BY <1>1, <1>2, <1>3, <1>7, <2>2, <3>2, PlainType DEF OpElse
  <2>. QED BY <2>1, <2>2
<1>8. CASE OpEndIf
  <2>1. CASE execStack = << >>
    BY <1>1, <1>2, <1>3, <1>8, <2>1, RaiseType DEF OpEndIf
  <2>2. CASE execStack # << >>
    <3>1. Front(execStack) \in Seq(BOOLEAN)
      BY <1>1, <2>2, FrontType
    <3>. QED BY <1>1, <1>2, <1>3, <1>8, <2>2, <3>1, PlainType DEF OpEndIf
  <2>. QED BY <2>1, <2>2
<1>9. CASE OpVerify
  <2>1. Has(1)
    BY <1>9, ArityType DEF OpVerify, Runs, Executes, Processes
  <2>2. Drop(1) \in Seq(Item)
    BY <2>1, TakenType
  <2>. QED BY <1>1, <1>2, <1>3, <1>9, <2>2, RaiseType, LeaveType DEF OpVerify
<1>10. CASE OpReturn
  BY <1>1, <1>2, <1>3, <1>10, RaiseType DEF OpReturn
<1>11. CASE OpNop
  BY <1>1, <1>2, <1>11, LeaveType DEF OpNop
<1>12. CASE OpUpgradableNop
  BY <1>1, <1>2, <1>3, <1>12, RaiseType, LeaveType DEF OpUpgradableNop, UpgradableNop
<1>. QED BY <1>5, <1>6, <1>7, <1>8, <1>9, <1>10, <1>11, <1>12

LEMMA StackOpType ==
  ASSUME TypeInv,
         \/ OpToAltStack \/ OpFromAltStack \/ OpShuffle \/ OpIfDup \/ OpDepth
         \/ OpSize \/ OpPickRoll \/ OpEqual
  PROVE  TypeInv'
<1>1. /\ stack \in Seq(Item) /\ Len(stack) \in Nat /\ altstack \in Seq(Item)
      /\ execStack \in Seq(BOOLEAN)
  BY LenProperties DEF TypeInv, TypeOK
<1>2. AtOp
  BY DEF OpToAltStack, OpFromAltStack, OpShuffle, OpIfDup, OpDepth, OpSize,
         OpPickRoll, OpEqual, Runs, Executes, Processes
<1>3. {"OK", "INVALID_ALTSTACK_OPERATION", "INVALID_STACK_OPERATION", "EQUALVERIFY"}
        \subseteq ScriptError
  BY DEF ScriptError
<1>4. \A v \in Int : Append(stack, encode_num(v)) \in Seq(Item)
  BY <1>1, EncodeNumType, AppendProperties
<1>5. CASE OpToAltStack
  <2>1. Has(1)
    BY <1>5, ArityType DEF OpToAltStack, Runs, Executes, Processes
  <2>2. Drop(1) \in Seq(Item) /\ Top(1) \in Item
    BY <2>1, TakenType
  <2>3. Append(altstack, Top(1)) \in Seq(Item)
    BY <1>1, <2>2, AppendProperties
  <2>. QED BY <1>1, <1>2, <1>3, <1>5, <2>2, <2>3, PlainType DEF OpToAltStack
<1>6. CASE OpFromAltStack
  <2> DEFINE n == Len(altstack)
  <2>1. CASE n = 0
    BY <1>1, <1>2, <1>3, <1>6, <2>1, RaiseType DEF OpFromAltStack
  <2>2. CASE n # 0
    <3>1. altstack # << >> /\ n \in 1..n
      BY <1>1, <2>2, LenProperties, EmptySeq
    <3>2. Front(altstack) \in Seq(Item) /\ altstack[n] \in Item
      BY <1>1, <3>1, FrontType, ElementOfSeq
    <3>3. Append(stack, altstack[n]) \in Seq(Item)
      BY <1>1, <3>2, AppendProperties
    <3>. QED BY <1>1, <1>2, <1>3, <1>6, <2>2, <3>2, <3>3, PlainType DEF OpFromAltStack
  <2>. QED BY <2>1, <2>2
<1>7. CASE OpShuffle
  <2>1. Op \in STACK_SHUFFLES /\ Len(stack) >= Arity(Op)
    BY <1>7 DEF OpShuffle, Runs, Executes, Processes, Has
  <2>2. Shuffled(Op, stack) \in Seq(Item)
    BY <1>1, <2>1, ShuffledType
  <2>. QED BY <1>2, <1>7, <2>2, LeaveType DEF OpShuffle
<1>8. CASE OpIfDup
  <2>1. Has(1)
    BY <1>8, ArityType DEF OpIfDup, Runs, Executes, Processes
  <2>2. Append(stack, Top(1)) \in Seq(Item)
    BY <1>1, <2>1, TakenType, AppendProperties
  <2>. QED BY <1>1, <1>2, <1>8, <2>2, LeaveType DEF OpIfDup
<1>9. CASE OpDepth
  <2>1. Append(stack, encode_num(Len(stack))) \in Seq(Item)
    BY <1>1, <1>4
  <2>. QED BY <1>2, <1>9, <2>1, LeaveType DEF OpDepth
<1>10. CASE OpSize
  <2>1. Has(1)
    BY <1>10, ArityType DEF OpSize, Runs, Executes, Processes
  <2>2. Len(Top(1)) \in Int
    BY <2>1, TakenType, LenProperties DEF Item
  <2>. QED BY <1>2, <1>4, <1>10, <2>2, LeaveType DEF OpSize
<1>11. CASE OpPickRoll
  <2> DEFINE rest == Drop(1)
             n == decode_num(Top(1))
             at == Len(rest) - n
  <2>1. Has(2)
    BY <1>11, ArityType DEF OpPickRoll, Runs, Executes, Processes
  <2>2. /\ rest \in Seq(Item) /\ Len(rest) \in Nat /\ Top(1) \in Item
    BY <2>1, TakenType, LenProperties
  <2>3. n \in Int
    BY <2>2, DecodeNumType
  <2>4. CASE n \notin 0..(Len(rest) - 1)
    BY <1>2, <1>3, <1>11, <2>2, <2>4, RaiseType DEF OpPickRoll
  <2>5. CASE n \in 0..(Len(rest) - 1)
    <3>1. at \in 1..Len(rest)
      <4>. HIDE DEF rest, n
      <4>. QED BY <2>2, <2>3, <2>5
    <3>2. rest[at] \in Item
      BY <2>2, <3>1, ElementOfSeq
    <3>3. RemoveAt(rest, at) \in Seq(Item)
      BY <2>2, <3>1, RemoveAtType
    <3>4. \A r \in Seq(Item) : Append(r, rest[at]) \in Seq(Item)
      BY <3>2, AppendProperties
    <3>5. Leave(Append(IF Op = OP_ROLL THEN RemoveAt(rest, at) ELSE rest, rest[at]))
      BY <1>11, <2>5 DEF OpPickRoll
    <3>6. Append(IF Op = OP_ROLL THEN RemoveAt(rest, at) ELSE rest, rest[at])
            \in Seq(Item)
      BY <2>2, <3>3, <3>4
    <3>. QED BY <1>2, <3>5, <3>6, LeaveType
  <2>. QED BY <2>4, <2>5
<1>12. CASE OpEqual
  <2>1. Has(2)
    BY <1>12, ArityType DEF OpEqual, Runs, Executes, Processes
  <2>2. Drop(2) \in Seq(Item)
    BY <2>1, TakenType
  <2>3. Append(Drop(2), Bool(Top(1) = Top(2))) \in Seq(Item)
    BY <2>2, BoolType, AppendProperties
  <2>. QED BY <1>2, <1>3, <1>12, <2>2, <2>3, RaiseType, LeaveType DEF OpEqual
<1>. QED BY <1>5, <1>6, <1>7, <1>8, <1>9, <1>10, <1>11, <1>12

\* Operands that were decoded are integers.
LEMMA OperandsType ==
  ASSUME TypeInv, NEW n \in Nat, Has(n)
  PROVE  \A i \in 1..n : decode_num(Top(i)) \in Int
BY TakenType, DecodeNumType

LEMMA ArithmeticType ==
  ASSUME TypeInv, OpUnary \/ OpBinary \/ OpWithin
  PROVE  TypeInv'
<1>1. AtOp
  BY DEF OpUnary, OpBinary, OpWithin, Runs, Executes, Processes
<1>2. "NUMEQUALVERIFY" \in ScriptError
  BY DEF ScriptError
<1>3. CASE OpUnary
  <2>1. Op \in UNARY_NUMERIC /\ Has(1)
    BY <1>3, ArityType DEF OpUnary, Runs, Executes, Processes
  <2>2. Drop(1) \in Seq(Item) /\ decode_num(Top(1)) \in Int
    BY <2>1, TakenType, OperandsType
  <2>3. encode_num(Unary(Op, decode_num(Top(1)))) \in Item
    BY <2>1, <2>2, UnaryType, EncodeNumType
  <2>4. Append(Drop(1), encode_num(Unary(Op, decode_num(Top(1))))) \in Seq(Item)
    BY <2>2, <2>3, AppendProperties
  <2>. QED BY <1>1, <1>3, <2>4, LeaveType DEF OpUnary
<1>4. CASE OpBinary
  <2> DEFINE b == decode_num(Top(1))
             a == decode_num(Top(2))
  <2>1. Op \in BINARY_NUMERIC /\ Has(2)
    BY <1>4, ArityType DEF OpBinary, Runs, Executes, Processes
  <2>2. Drop(2) \in Seq(Item) /\ a \in Int /\ b \in Int
    BY <2>1, TakenType, OperandsType
  <2>3. CASE Op = OP_NUMEQUALVERIFY
    BY <1>1, <1>2, <1>4, <2>2, <2>3, LeaveType, RaiseType DEF OpBinary
  <2>4. CASE Op # OP_NUMEQUALVERIFY
    <3>1. encode_num(Binary(Op, a, b)) \in Item
      BY <2>1, <2>2, <2>4, BinaryType, EncodeNumType
    <3>2. Append(Drop(2), encode_num(Binary(Op, a, b))) \in Seq(Item)
      BY <2>2, <3>1, AppendProperties
    <3>. QED BY <1>1, <1>4, <2>4, <3>2, LeaveType DEF OpBinary
  <2>. QED BY <2>3, <2>4
<1>5. CASE OpWithin
  <2> DEFINE b == decode_num(Top(2)) <= decode_num(Top(3))
                    /\ decode_num(Top(3)) < decode_num(Top(1))
  <2>1. Has(3)
    BY <1>5, ArityType DEF OpWithin, Runs, Executes, Processes
  <2>2. Drop(3) \in Seq(Item)
    BY <2>1, TakenType
  <2>3. Append(Drop(3), Bool(b)) \in Seq(Item)
    BY <2>2, BoolType, AppendProperties
  <2>. QED BY <1>1, <1>5, <2>3, LeaveType DEF OpWithin
<1>. QED BY <1>3, <1>4, <1>5

LEMMA HashType ==
  ASSUME DigestsAreItems, TypeInv, OpHash
  PROVE  TypeInv'
<1>1. AtOp /\ Op \in HASH_OPCODES /\ Has(1)
  BY ArityType DEF OpHash, Runs, Executes, Processes
<1>2. Drop(1) \in Seq(Item) /\ Top(1) \in Item
  BY <1>1, TakenType
<1>3. Digest(Op, Top(1)) \in Item
  BY <1>1, <1>2 DEF DigestsAreItems
<1>4. Append(Drop(1), Digest(Op, Top(1))) \in Seq(Item)
  BY <1>2, <1>3, AppendProperties
<1>. QED BY <1>1, <1>4, LeaveType DEF OpHash

LEMMA CodeSeparatorType ==
  ASSUME TypeInv, OpCodeSeparator
  PROVE  TypeInv'
<1>1. AtOp /\ InTurn
  BY DEF OpCodeSeparator, Executes, Processes, AtOp, InTurn, Ops
<1>2. /\ stack \in Seq(Item) /\ altstack \in Seq(Item)
      /\ execStack \in Seq(BOOLEAN) /\ "OK" \in ScriptError
  BY DEF TypeInv, TypeOK, ScriptError
<1>3. Count \in Nat /\ pc + 1 \in 1..Len(Ops) /\ pc \in Int
  BY <1>1, OpType DEF TypeInv, TypeOK
<1>4. codesep' \in 0..Len(Ops) /\ codesepPos' \in Int /\ weight' \in Int
  BY <1>3 DEF OpCodeSeparator, TypeInv, TypeOK
<1>5. loopPhase' = "idle" /\ loopError' = loopError
  BY <1>1 DEF OpCodeSeparator, AtOp, multisigVars
<1>6. Finish(stack, altstack, execStack, Count, {}, "OK")
  BY DEF OpCodeSeparator
<1>. QED BY <1>1, <1>2, <1>3, <1>4, <1>5, <1>6, FinishType

LEMMA LockType ==
  ASSUME TypeInv, OpCheckLockTimeVerify \/ OpCheckSequenceVerify
  PROVE  TypeInv'
<1>1. AtOp /\ stack \in Seq(Item)
  BY DEF OpCheckLockTimeVerify, OpCheckSequenceVerify, Executes, Processes, TypeInv,
         TypeOK
<1>2. LockOperandRefusal \in ScriptError
  BY DEF LockOperandRefusal, ScriptError
<1>3. {"DISCOURAGE_UPGRADABLE_NOPS", "UNSATISFIED_LOCKTIME"} \subseteq ScriptError
  BY DEF ScriptError
<1>4. ASSUME UpgradableNop PROVE TypeInv'
  BY <1>1, <1>3, <1>4, RaiseType, LeaveType DEF UpgradableNop
<1>5. ASSUME NEW b, LockTurn(b) PROVE TypeInv'
  BY <1>1, <1>2, <1>3, <1>5, RaiseType, LeaveType DEF LockTurn
<1>. QED BY <1>4, <1>5 DEF OpCheckLockTimeVerify, OpCheckSequenceVerify
------------------------------------------------------------------------------
(* Signature operations.                                                   *)

\* What a turn leaves of the state that Finish does not set.
Rest ==
  /\ codesep' \in 0..Len(Ops) /\ codesepPos' \in Int /\ weight' \in Int
  /\ loopPhase' = "idle" /\ loopError' = loopError

\* Finish with the stacks that most signature operations leave alone.
LEMMA FinishStackType ==
  ASSUME TypeInv, InTurn, Rest,
         NEW s \in Seq(Item), NEW n \in Nat, NEW sig, NEW err \in ScriptError,
         Finish(s, altstack, execStack, n, sig, err)
  PROVE  TypeInv'
<1>1. altstack \in Seq(Item) /\ execStack \in Seq(BOOLEAN)
  BY DEF TypeInv, TypeOK
<1>. QED BY <1>1, FinishType DEF Rest

LEMMA ConcludeType ==
  ASSUME TypeInv, InTurn, Rest,
         NEW s \in Seq(Item), NEW n \in Nat, NEW sig, NEW ok, NEW verify,
         NEW verifyError \in ScriptError,
         Conclude(s, n, sig, ok, verify, verifyError)
  PROVE  TypeInv'
<1>1. "OK" \in ScriptError
  BY DEF ScriptError
<1>2. Append(s, Bool(ok)) \in Seq(Item)
  BY BoolType, AppendProperties
<1>3. CASE verify
  <2>1. CASE ok
    BY <1>1, <1>3, <2>1, FinishStackType DEF Conclude
  <2>2. CASE ~ok
    BY <1>3, <2>2, FinishStackType DEF Conclude
  <2>. QED BY <2>1, <2>2
<1>4. CASE ~verify
  BY <1>1, <1>2, <1>4, FinishStackType DEF Conclude
<1>. QED BY <1>3, <1>4

\* Whatever leaves the code and loop state alone keeps it well typed.
LEMMA RestType ==
  ASSUME TypeInv, AtOp
  PROVE  /\ InTurn /\ stack \in Seq(Item) /\ Count \in Nat
         /\ UNCHANGED <<codeVars, multisigVars>> => Rest
         /\ \A sig : WeightAfter(sig) \in Int
<1>1. InTurn
  BY DEF AtOp, InTurn, Ops
<1>2. stack \in Seq(Item) /\ weight \in Int
  BY DEF TypeInv, TypeOK
<1>3. Count \in Nat
  BY <1>1, OpType DEF TypeInv
<1>4. UNCHANGED <<codeVars, multisigVars>> => Rest
  BY DEF codeVars, multisigVars, Rest, AtOp, TypeInv, TypeOK
<1>5. \A sig : WeightAfter(sig) \in Int
  BY <1>2 DEF WeightAfter, Cost
<1>. QED BY <1>1, <1>2, <1>3, <1>4, <1>5

LEMMA CheckSigType ==
  ASSUME TypeInv, OpCheckSig
  PROVE  TypeInv'
<1> DEFINE code == ScriptCode({Top(2)})
           ok == EcdsaValid(Top(2), Top(1), code, input.sigVersion)
           detail == Detail(Top(2), Top(1), code, ok)
<1>1. AtOp
  BY DEF OpCheckSig, Executes, Processes
<1>2. InTurn /\ stack \in Seq(Item) /\ Count \in Nat /\ Rest
  BY <1>1, RestType DEF OpCheckSig
<1>3. EcdsaRefusal \in ScriptError /\ {"SIG_NULLFAIL", "CHECKSIGVERIFY"} \subseteq ScriptError
  BY EncodingErrorType DEF EcdsaRefusal, ScriptError
<1>4. CASE EcdsaRefusal # "OK"
  BY <1>2, <1>3, <1>4, FinishStackType DEF OpCheckSig
<1>5. CASE EcdsaRefusal = "OK"
  <2>1. Has(2)
    BY <1>5 DEF EcdsaRefusal
  <2>2. Drop(2) \in Seq(Item)
    BY <2>1, TakenType
  <2>3. CASE NullFails(ok, Top(2))
    BY <1>2, <1>3, <1>5, <2>3, FinishStackType DEF OpCheckSig
  <2>4. CASE ~NullFails(ok, Top(2))
    <3>1. Conclude(Drop(2), Count, detail, ok, Op = OP_CHECKSIGVERIFY, "CHECKSIGVERIFY")
      BY <1>5, <2>4 DEF OpCheckSig
    <3>. HIDE DEF ok, detail
    <3>. QED BY <1>2, <1>3, <2>2, <3>1, ConcludeType
  <2>. QED BY <2>3, <2>4
<1>. QED BY <1>4, <1>5

LEMMA SchnorrErrorType ==
  ASSUME NEW sig, NEW pubkey
  PROVE  SchnorrError(sig, pubkey) \in ScriptError
BY DEF SchnorrError, SchnorrRefusal, ScriptError

\* Either outcome of a Schnorr check keeps what an operation leaves alone.
LEMMA ChargeType ==
  ASSUME TypeInv, AtOp, NEW sig, WeightAfter(sig) \in Int, Charge(sig)
  PROVE  Rest
BY DEF Charge, Rest, TypeInv, TypeOK, AtOp, multisigVars

LEMMA TapscriptCheckSigType ==
  ASSUME TypeInv, OpTapscriptCheckSig
  PROVE  TypeInv'
<1> DEFINE err == SchnorrError(Top(2), Top(1))
<1>1. AtOp
  BY DEF OpTapscriptCheckSig, Executes, Processes
<1>2. InTurn /\ stack \in Seq(Item) /\ Count \in Nat /\ WeightAfter(Top(2)) \in Int
  BY <1>1, RestType
<1>3. {"INVALID_STACK_OPERATION", "CHECKSIGVERIFY"} \subseteq ScriptError
  BY DEF ScriptError
<1>4. CASE ~Has(2)
  BY <1>1, <1>2, <1>3, <1>4, RaiseType DEF OpTapscriptCheckSig
<1>5. CASE Has(2)
  <2>1. /\ Charge(Top(2))
        /\ IF err # "OK" THEN SchnorrFails(Top(2), Top(1))
           ELSE Conclude(Drop(2), Count, SchnorrDetail(Top(2), Top(1)),
                         Top(2) # << >>, Op = OP_CHECKSIGVERIFY, "CHECKSIGVERIFY")
    BY <1>5 DEF OpTapscriptCheckSig
  <2>2. Rest
    BY <1>1, <1>2, <2>1, ChargeType
  <2>3. err \in ScriptError
    BY SchnorrErrorType
  <2>4. Drop(2) \in Seq(Item)
    BY <1>5, TakenType
  <2>. HIDE DEF err
  <2>5. CASE err # "OK"
    BY <1>2, <2>1, <2>2, <2>3, <2>5, FinishStackType DEF SchnorrFails, err
  <2>6. CASE err = "OK"
    BY <1>2, <1>3, <2>1, <2>2, <2>4, <2>6, ConcludeType
  <2>. QED BY <2>5, <2>6
<1>. QED BY <1>4, <1>5

LEMMA CheckSigAddType ==
  ASSUME TypeInv, OpCheckSigAdd
  PROVE  TypeInv'
<1> DEFINE err == SchnorrError(Top(3), Top(1))
           sum == decode_num(Top(2)) + Int01(Top(3) # << >>)
<1>1. AtOp
  BY DEF OpCheckSigAdd, Executes, Processes
<1>2. InTurn /\ stack \in Seq(Item) /\ Count \in Nat /\ WeightAfter(Top(3)) \in Int
  BY <1>1, RestType
<1>3. {"OK", "BAD_OPCODE", "INVALID_STACK_OPERATION", "SCRIPTNUM"} \subseteq ScriptError
  BY DEF ScriptError
<1>4. CASE ~Tapscript \/ ~Has(3) \/ ~IsNum(Top(2))
  <2>1. PICK e \in ScriptError : Raise(stack, e)
    BY <1>3, <1>4 DEF OpCheckSigAdd
  <2>. QED BY <1>1, <1>2, <2>1, RaiseType
<1>5. CASE Tapscript /\ Has(3) /\ IsNum(Top(2))
  <2>1. /\ Charge(Top(3))
        /\ IF err # "OK" THEN SchnorrFails(Top(3), Top(1))
           ELSE Finish(Append(Drop(3), encode_num(sum)), altstack, execStack, Count,
                       SchnorrDetail(Top(3), Top(1)), "OK")
    BY <1>5 DEF OpCheckSigAdd
  <2>2. Rest
    BY <1>1, <1>2, <2>1, ChargeType
  <2>3. err \in ScriptError
    BY SchnorrErrorType
  <2>4. Drop(3) \in Seq(Item) /\ decode_num(Top(2)) \in Int
    BY <1>5, TakenType, OperandsType
  <2>5. Int01(Top(3) # << >>) \in Int
    BY DEF Int01
  <2>6. sum \in Int
    BY <2>4, <2>5
  <2>. HIDE DEF err, sum
  <2>7. Append(Drop(3), encode_num(sum)) \in Seq(Item)
    BY <2>4, <2>6, EncodeNumType, AppendProperties
  <2>8. CASE err # "OK"
    BY <1>2, <2>1, <2>2, <2>3, <2>8, FinishStackType DEF SchnorrFails, err
  <2>9. CASE err = "OK"
    BY <1>2, <1>3, <2>1, <2>2, <2>7, <2>9, FinishStackType
  <2>. QED BY <2>8, <2>9
<1>. QED BY <1>4, <1>5

LEMMA EscapeType ==
  ASSUME TypeInv, EscapeSchnorr
  PROVE  TypeInv'
<1>1. AtOp
  BY DEF EscapeSchnorr, Executes, Processes
<1>2. PICK sig : Charge(sig)
  BY DEF EscapeSchnorr
<1>3. Count \in Nat /\ WeightAfter(sig) \in Int
  BY <1>1, RestType
<1>4. Rest
  BY <1>1, <1>2, <1>3, ChargeType
<1>5. TypeOK'
  BY <1>3, <1>4 DEF EscapeSchnorr, TypeInv, TypeOK, Rest, Ops
<1>6. MultisigArguments'
  BY <1>4 DEF TypeInv, MultisigArguments, Rest
<1>. QED BY <1>5, <1>6 DEF TypeInv

LEMMA RefuseMultisigType ==
  ASSUME TypeInv, RefuseMultisig
  PROVE  TypeInv'
<1>1. AtOp
  BY DEF RefuseMultisig, Executes, Processes
<1>2. InTurn /\ stack \in Seq(Item) /\ Count \in Nat /\ Rest
  BY <1>1, RestType DEF RefuseMultisig
<1>3. MultisigRefusal \in ScriptError
  BY DEF MultisigRefusal, ScriptError
<1>4. KeysCounted => CountWithKeys(KeysCount) \in Nat
  <2>1. KeysCounted => KeysCount \in Nat
    BY LimitsAssumption DEF KeysCounted
  <2>. QED BY <1>2, <2>1 DEF CountWithKeys
<1>5. (IF KeysCounted THEN CountWithKeys(KeysCount) ELSE Count) \in Nat
  BY <1>2, <1>4
<1>. QED BY <1>2, <1>3, <1>5, FinishStackType DEF RefuseMultisig

\* The arguments are all there when the loop is entered.
LEMMA BeginMultisigType ==
  ASSUME TypeInv, BeginMultisig
  PROVE  TypeInv'
<1> DEFINE sigs == [k \in 1..SigsCount |-> Top(KeysCount + 2 + k)]
           keys == [k \in 1..KeysCount |-> Top(k + 1)]
<1>1. AtOp /\ Executing /\ Op \in CHECKMULTISIG_OPCODES /\ MultisigRefusal = "OK"
  BY DEF BeginMultisig, Executes, Processes
<1>2. KeysCounted /\ SigsCount \in 0..KeysCount /\ Has(KeysCount + SigsCount + 3)
  BY <1>1 DEF MultisigRefusal
<1>3. KeysCount \in Nat /\ SigsCount \in Nat
  <2>1. KeysCount \in Nat
    BY <1>2, LimitsAssumption DEF KeysCounted
  <2>. QED BY <1>2, <2>1
<1>4. \A i \in 1..(KeysCount + SigsCount + 3) : Top(i) \in Item
  BY <1>2, <1>3, TakenType
<1>5. sigs \in Seq(Item) /\ Len(sigs) = SigsCount
  <2>1. \A k \in 1..SigsCount : KeysCount + 2 + k \in 1..(KeysCount + SigsCount + 3)
    BY <1>3
  <2>2. \A k \in 1..SigsCount : Top(KeysCount + 2 + k) \in Item
    BY <1>4, <2>1
  <2>. QED BY <1>3, <2>2
<1>6. keys \in Seq(Item) /\ Len(keys) = KeysCount
  <2>1. \A k \in 1..KeysCount : k + 1 \in 1..(KeysCount + SigsCount + 3)
    BY <1>3
  <2>2. \A k \in 1..KeysCount : Top(k + 1) \in Item
    BY <1>4, <2>1
  <2>. QED BY <1>3, <2>2
<1>7. job'.sigs = sigs /\ job'.keys = keys /\ loopPhase' = "pairing" /\ loopError' = "OK"
  BY DEF BeginMultisig, EnterLoop
<1>8. UNCHANGED evalVars
  BY DEF BeginMultisig
<1>9. TypeOK'
  BY <1>7, <1>8 DEF TypeInv, TypeOK, evalVars, runVars, codeVars, Ops
<1>10. MultisigArguments'
  <2>1. "OK" \in ScriptError
    BY DEF ScriptError
  <2>. HIDE DEF sigs, keys
  <2>. QED BY <1>1, <1>2, <1>5, <1>6, <1>7, <1>8, <2>1
         DEF MultisigArguments, evalVars, runVars, Ops, Op, Executing, Has, AtOp
<1>. QED BY <1>9, <1>10 DEF TypeInv

LEMMA MultisigLoopType ==
  ASSUME TypeInv, MultisigLoop
  PROVE  TypeInv'
<1>1. /\ job' = job /\ UNCHANGED evalVars
      /\ loopPhase # "idle" /\ loopPhase' \in {"pairing", "left", "raised"}
      /\ loopError' \in {loopError, EncodingError(Sig, PubKey, job.flags, job.sig_version)}
  BY DEF MultisigLoop, LoopStep, Compare, RefusePair, LeaveLoop, InLoop
<1>2. loopError' \in ScriptError
  BY <1>1, EncodingErrorType DEF TypeInv, MultisigArguments
<1>3. TypeOK'
  BY <1>1 DEF TypeInv, TypeOK, evalVars, runVars, codeVars, Ops
<1>4. MultisigArguments'
  BY <1>1, <1>2 DEF TypeInv, MultisigArguments, evalVars, runVars, Ops, Op, Executing, Has
<1>. QED BY <1>3, <1>4 DEF TypeInv

\* What the invariant says of the arguments once the loop has ended.
LEMMA ArgumentsType ==
  ASSUME TypeInv, loopPhase # "idle"
  PROVE  /\ InTurn /\ Len(job.keys) \in Nat /\ Len(job.sigs) \in Nat
         /\ DOMAIN job.sigs = 1..Len(job.sigs)
         /\ CountWithKeys(Len(job.keys)) \in Nat
         /\ stack \in Seq(Item)
         /\ \A i \in 0..(Len(job.keys) + Len(job.sigs) + 3) : Drop(i) \in Seq(Item)
<1>1. InTurn /\ stack \in Seq(Item)
  BY DEF TypeInv, TypeOK, MultisigArguments, InTurn
<1>2. /\ Len(job.keys) \in Nat /\ Len(job.sigs) \in Nat
      /\ DOMAIN job.sigs = 1..Len(job.sigs)
      /\ Has(Len(job.keys) + Len(job.sigs) + 3)
  BY LenProperties DEF TypeInv, MultisigArguments
<1>3. \A i \in 0..(Len(job.keys) + Len(job.sigs) + 3) : Drop(i) \in Seq(Item)
  <2>1. Len(job.keys) + Len(job.sigs) + 3 \in Nat
    <3>1. \A k, s \in Nat : k + s + 3 \in Nat
      OBVIOUS
    <3>. QED BY <1>2, <3>1
  <2>. QED BY <1>2, <2>1, TakenType
<1>4. CountWithKeys(Len(job.keys)) \in Nat
  BY <1>1, <1>2, OpType DEF CountWithKeys, TypeInv
<1>. QED BY <1>1, <1>2, <1>3, <1>4

LEMMA LeaveMultisigType ==
  ASSUME TypeInv, RaiseInMultisig \/ NullFailMultisig \/ EndMultisig
  PROVE  TypeInv'
<1> DEFINE K == Len(job.keys)
           S == Len(job.sigs)
           count == CountWithKeys(K)
<1>1. loopPhase # "idle"
  BY DEF RaiseInMultisig, NullFailMultisig, EndMultisig
<1>2. /\ InTurn /\ K \in Nat /\ S \in Nat /\ DOMAIN job.sigs = 1..S
      /\ count \in Nat /\ stack \in Seq(Item)
      /\ \A i \in 0..(K + S + 3) : Drop(i) \in Seq(Item)
  BY <1>1, ArgumentsType
<1>3. Rest
  BY DEF RaiseInMultisig, NullFailMultisig, EndMultisig, LeaveMultisig, Rest, codeVars,
         TypeInv, TypeOK
<1>4. /\ loopError \in ScriptError
      /\ {"SIG_NULLFAIL", "SIG_NULLDUMMY", "CHECKMULTISIGVERIFY"} \subseteq ScriptError
  BY DEF TypeInv, MultisigArguments, ScriptError
<1>5. CASE RaiseInMultisig
  <2>1. Finish(stack, altstack, execStack, count, {}, loopError)
    BY <1>5 DEF RaiseInMultisig, LeaveMultisig
  <2>. QED BY <1>2, <1>3, <1>4, <2>1, FinishStackType
<1>6. CASE NullFailMultisig
  <2>1. PICK k \in 1..S : Finish(Drop(K + 1 + k), altstack, execStack, count,
                                 lastDetail, "SIG_NULLFAIL")
    BY <1>2, <1>6 DEF NullFailMultisig, LeaveMultisig
  <2>2. K + 1 + k \in 0..(K + S + 3)
    <3>. HIDE DEF K, S
    <3>. QED BY <1>2
  <2>3. Drop(K + 1 + k) \in Seq(Item)
    BY <1>2, <2>2
  <2>. QED BY <1>2, <1>3, <1>4, <2>1, <2>3, FinishStackType
<1>7. CASE EndMultisig
  <2> DEFINE n == K + S + 2
  <2>1. n \in 0..(K + S + 3) /\ n + 1 \in 0..(K + S + 3)
    <3>. HIDE DEF K, S
    <3>. QED BY <1>2
  <2>2. Drop(n) \in Seq(Item) /\ Drop(n + 1) \in Seq(Item)
    BY <1>2, <2>1
  <2>3. \/ Finish(Drop(n), altstack, execStack, count, lastDetail, "SIG_NULLDUMMY")
        \/ Conclude(Drop(n + 1), count, lastDetail, success,
                    Op = OP_CHECKMULTISIGVERIFY, "CHECKMULTISIGVERIFY")
    BY <1>7 DEF EndMultisig, LeaveMultisig
  <2>. HIDE DEF n, count
  <2>. QED BY <1>2, <1>3, <1>4, <2>2, <2>3, FinishStackType, ConcludeType
<1>. QED BY <1>5, <1>6, <1>7
------------------------------------------------------------------------------
\* The initial state.  Every input is well formed.
LEMMA InitType == Init => TypeInv
<1> SUFFICES ASSUME Init PROVE TypeInv
  OBVIOUS
<1>1. input \in EvalInput
  BY EvalInputsAssumption DEF Init, Begin
<1>2. "OK" \in ScriptError
  BY DEF ScriptError
<1>3. TypeOK
  BY <1>1, <1>2, InputType DEF Init, Begin, TypeOK, NO_POS
<1>4. MultisigArguments
  BY <1>2 DEF Init, Begin, MultisigArguments
<1>. QED BY <1>3, <1>4 DEF TypeInv

LEMMA StepType ==
  ASSUME DigestsAreItems, TypeInv, [Next]_vars
  PROVE  TypeInv'
<1>1. CASE UNCHANGED vars
  <2>1. TypeOK'
    BY <1>1 DEF vars, evalVars, runVars, codeVars, multisigVars, TypeInv, TypeOK, Ops
  <2>2. MultisigArguments'
    BY <1>1 DEF vars, evalVars, runVars, multisigVars, TypeInv, MultisigArguments, Ops,
                Op, Executing, Has
  <2>. QED BY <2>1, <2>2 DEF TypeInv
<1>2. CASE Next
  BY <1>2, StartAndEndType, RefusalType, PushType, ControlType, StackOpType,
     ArithmeticType, HashType, CodeSeparatorType, LockType, CheckSigType,
     TapscriptCheckSigType, CheckSigAddType, EscapeType, RefuseMultisigType, BeginMultisigType,
     MultisigLoopType, LeaveMultisigType DEF Next
<1>. QED BY <1>1, <1>2

\* Every state an evaluation can reach is well typed, provided the hash opcodes
\* push byte sequences: no operation leaves anything but items on the stacks,
\* and every failure is one of the script errors.
THEOREM TypeCorrect ==
  ASSUME DigestsAreItems
  PROVE  Spec => []TypeOK
<1>1. TypeInv /\ [Next]_vars => TypeInv'
  BY StepType
<1>2. TypeInv => TypeOK
  BY DEF TypeInv
<1>. QED BY <1>1, <1>2, InitType, PTL DEF Spec
------------------------------------------------------------------------------
(* Rearranging operations, by what they do to the items on top.            *)

\* A stack with these items on top of b, the last one topmost.
Put1(b, x) == Append(b, x)
Put2(b, x, y) == Append(Append(b, x), y)
Put3(b, x, y, z) == Append(Put2(b, x, y), z)
Put4(b, x, y, z, u) == Append(Put3(b, x, y, z), u)
Put6(b, x, y, z, u, v, w) == Append(Append(Put4(b, x, y, z, u), v), w)

LEMMA DropDoes ==
  ASSUME NEW b \in Seq(Item), NEW x \in Item
  PROVE  Shuffled(OP_DROP, Put1(b, x)) = b
<1> DEFINE s == Put1(b, x)
<1>1. Len(b) \in Nat /\ Len(s) = Len(b) + 1 /\ SubSeq(s, 1, Len(b)) = b
      /\ s[Len(b) + 1] = x
  BY DEF Put1
<1>2. Len(s) - 1 = Len(b)
  BY <1>1
<1>3. [i \in DOMAIN << >> |-> s[Len(b) + << >>[i]]] = << >>
  BY <1>1
<1>4. b \o << >> = b
  OBVIOUS
<1>. QED BY <1>1, <1>2, <1>3, <1>4, GivesForms DEF Shuffled

LEMMA DupDoes ==
  ASSUME NEW b \in Seq(Item), NEW x \in Item
  PROVE  Shuffled(OP_DUP, Put1(b, x)) = Put2(b, x, x)
<1> DEFINE s == Put1(b, x)
<1>1. Len(b) \in Nat /\ Len(s) = Len(b) + 1 /\ SubSeq(s, 1, Len(b)) = b
      /\ s[Len(b) + 1] = x
  BY DEF Put1
<1>2. Len(s) - 1 = Len(b)
  BY <1>1
<1>3. [i \in DOMAIN <<1, 1>> |-> s[Len(b) + <<1, 1>>[i]]] = <<x, x>>
  BY <1>1
<1>4. b \o <<x, x>> = Put2(b, x, x)
  BY DEF Put2, Put1
<1>. QED BY <1>1, <1>2, <1>3, <1>4, GivesForms DEF Shuffled

LEMMA TwoDropDoes ==
  ASSUME NEW b \in Seq(Item), NEW x \in Item, NEW y \in Item
  PROVE  Shuffled(OP_2DROP, Put2(b, x, y)) = b
<1> DEFINE s == Put2(b, x, y)
<1>1. Len(b) \in Nat /\ Len(s) = Len(b) + 2 /\ SubSeq(s, 1, Len(b)) = b
      /\ s[Len(b) + 1] = x /\ s[Len(b) + 2] = y
  BY DEF Put2, Put1
<1>2. Len(s) - 2 = Len(b)
  BY <1>1
<1>3. [i \in DOMAIN << >> |-> s[Len(b) + << >>[i]]] = << >>
  BY <1>1
<1>4. b \o << >> = b
  OBVIOUS
<1>. QED BY <1>1, <1>2, <1>3, <1>4, GivesForms DEF Shuffled

LEMMA TwoDupDoes ==
  ASSUME NEW b \in Seq(Item), NEW x \in Item, NEW y \in Item
  PROVE  Shuffled(OP_2DUP, Put2(b, x, y)) = Put4(b, x, y, x, y)
<1> DEFINE s == Put2(b, x, y)
<1>1. Len(b) \in Nat /\ Len(s) = Len(b) + 2 /\ SubSeq(s, 1, Len(b)) = b
      /\ s[Len(b) + 1] = x /\ s[Len(b) + 2] = y
  BY DEF Put2, Put1
<1>2. Len(s) - 2 = Len(b)
  BY <1>1
<1>3. [i \in DOMAIN <<1, 2, 1, 2>> |-> s[Len(b) + <<1, 2, 1, 2>>[i]]] = <<x, y, x, y>>
  BY <1>1
<1>4. b \o <<x, y, x, y>> = Put4(b, x, y, x, y)
  BY DEF Put4, Put3, Put2, Put1
<1>. QED BY <1>1, <1>2, <1>3, <1>4, GivesForms DEF Shuffled

LEMMA ThreeDupDoes ==
  ASSUME NEW b \in Seq(Item), NEW x \in Item, NEW y \in Item, NEW z \in Item
  PROVE  Shuffled(OP_3DUP, Put3(b, x, y, z)) = Put6(b, x, y, z, x, y, z)
<1> DEFINE s == Put3(b, x, y, z)
<1>1. Len(b) \in Nat /\ Len(s) = Len(b) + 3 /\ SubSeq(s, 1, Len(b)) = b
      /\ s[Len(b) + 1] = x /\ s[Len(b) + 2] = y /\ s[Len(b) + 3] = z
  BY DEF Put3, Put2, Put1
<1>2. Len(s) - 3 = Len(b)
  BY <1>1
<1>3. [i \in DOMAIN <<1, 2, 3, 1, 2, 3>> |-> s[Len(b) + <<1, 2, 3, 1, 2, 3>>[i]]] = <<x, y, z, x, y, z>>
  BY <1>1
<1>4. b \o <<x, y, z, x, y, z>> = Put6(b, x, y, z, x, y, z)
  BY DEF Put6, Put4, Put3, Put2, Put1
<1>. QED BY <1>1, <1>2, <1>3, <1>4, GivesForms DEF Shuffled

LEMMA TwoOverDoes ==
  ASSUME NEW b \in Seq(Item), NEW x \in Item, NEW y \in Item, NEW z \in Item, NEW u \in Item
  PROVE  Shuffled(OP_2OVER, Put4(b, x, y, z, u)) = Put6(b, x, y, z, u, x, y)
<1> DEFINE s == Put4(b, x, y, z, u)
<1>1. Len(b) \in Nat /\ Len(s) = Len(b) + 4 /\ SubSeq(s, 1, Len(b)) = b
      /\ s[Len(b) + 1] = x /\ s[Len(b) + 2] = y /\ s[Len(b) + 3] = z /\ s[Len(b) + 4] = u
  BY DEF Put4, Put3, Put2, Put1
<1>2. Len(s) - 4 = Len(b)
  BY <1>1
<1>3. [i \in DOMAIN <<1, 2, 3, 4, 1, 2>> |-> s[Len(b) + <<1, 2, 3, 4, 1, 2>>[i]]] = <<x, y, z, u, x, y>>
  BY <1>1
<1>4. b \o <<x, y, z, u, x, y>> = Put6(b, x, y, z, u, x, y)
  BY DEF Put6, Put4, Put3, Put2, Put1
<1>. QED BY <1>1, <1>2, <1>3, <1>4, GivesForms DEF Shuffled

LEMMA TwoSwapDoes ==
  ASSUME NEW b \in Seq(Item), NEW x \in Item, NEW y \in Item, NEW z \in Item, NEW u \in Item
  PROVE  Shuffled(OP_2SWAP, Put4(b, x, y, z, u)) = Put4(b, z, u, x, y)
<1> DEFINE s == Put4(b, x, y, z, u)
<1>1. Len(b) \in Nat /\ Len(s) = Len(b) + 4 /\ SubSeq(s, 1, Len(b)) = b
      /\ s[Len(b) + 1] = x /\ s[Len(b) + 2] = y /\ s[Len(b) + 3] = z /\ s[Len(b) + 4] = u
  BY DEF Put4, Put3, Put2, Put1
<1>2. Len(s) - 4 = Len(b)
  BY <1>1
<1>3. [i \in DOMAIN <<3, 4, 1, 2>> |-> s[Len(b) + <<3, 4, 1, 2>>[i]]] = <<z, u, x, y>>
  BY <1>1
<1>4. b \o <<z, u, x, y>> = Put4(b, z, u, x, y)
  BY DEF Put4, Put3, Put2, Put1
<1>. QED BY <1>1, <1>2, <1>3, <1>4, GivesForms DEF Shuffled

LEMMA NipDoes ==
  ASSUME NEW b \in Seq(Item), NEW x \in Item, NEW y \in Item
  PROVE  Shuffled(OP_NIP, Put2(b, x, y)) = Put1(b, y)
<1> DEFINE s == Put2(b, x, y)
<1>1. Len(b) \in Nat /\ Len(s) = Len(b) + 2 /\ SubSeq(s, 1, Len(b)) = b
      /\ s[Len(b) + 1] = x /\ s[Len(b) + 2] = y
  BY DEF Put2, Put1
<1>2. Len(s) - 2 = Len(b)
  BY <1>1
<1>3. [i \in DOMAIN <<2>> |-> s[Len(b) + <<2>>[i]]] = <<y>>
  BY <1>1
<1>4. b \o <<y>> = Put1(b, y)
  BY DEF Put1
<1>. QED BY <1>1, <1>2, <1>3, <1>4, GivesForms DEF Shuffled

LEMMA OverDoes ==
  ASSUME NEW b \in Seq(Item), NEW x \in Item, NEW y \in Item
  PROVE  Shuffled(OP_OVER, Put2(b, x, y)) = Put3(b, x, y, x)
<1> DEFINE s == Put2(b, x, y)
<1>1. Len(b) \in Nat /\ Len(s) = Len(b) + 2 /\ SubSeq(s, 1, Len(b)) = b
      /\ s[Len(b) + 1] = x /\ s[Len(b) + 2] = y
  BY DEF Put2, Put1
<1>2. Len(s) - 2 = Len(b)
  BY <1>1
<1>3. [i \in DOMAIN <<1, 2, 1>> |-> s[Len(b) + <<1, 2, 1>>[i]]] = <<x, y, x>>
  BY <1>1
<1>4. b \o <<x, y, x>> = Put3(b, x, y, x)
  BY DEF Put3, Put2, Put1
<1>. QED BY <1>1, <1>2, <1>3, <1>4, GivesForms DEF Shuffled

LEMMA RotDoes ==
  ASSUME NEW b \in Seq(Item), NEW x \in Item, NEW y \in Item, NEW z \in Item
  PROVE  Shuffled(OP_ROT, Put3(b, x, y, z)) = Put3(b, y, z, x)
<1> DEFINE s == Put3(b, x, y, z)
<1>1. Len(b) \in Nat /\ Len(s) = Len(b) + 3 /\ SubSeq(s, 1, Len(b)) = b
      /\ s[Len(b) + 1] = x /\ s[Len(b) + 2] = y /\ s[Len(b) + 3] = z
  BY DEF Put3, Put2, Put1
<1>2. Len(s) - 3 = Len(b)
  BY <1>1
<1>3. [i \in DOMAIN <<2, 3, 1>> |-> s[Len(b) + <<2, 3, 1>>[i]]] = <<y, z, x>>
  BY <1>1
<1>4. b \o <<y, z, x>> = Put3(b, y, z, x)
  BY DEF Put3, Put2, Put1
<1>. QED BY <1>1, <1>2, <1>3, <1>4, GivesForms DEF Shuffled

LEMMA SwapDoes ==
  ASSUME NEW b \in Seq(Item), NEW x \in Item, NEW y \in Item
  PROVE  Shuffled(OP_SWAP, Put2(b, x, y)) = Put2(b, y, x)
<1> DEFINE s == Put2(b, x, y)
<1>1. Len(b) \in Nat /\ Len(s) = Len(b) + 2 /\ SubSeq(s, 1, Len(b)) = b
      /\ s[Len(b) + 1] = x /\ s[Len(b) + 2] = y
  BY DEF Put2, Put1
<1>2. Len(s) - 2 = Len(b)
  BY <1>1
<1>3. [i \in DOMAIN <<2, 1>> |-> s[Len(b) + <<2, 1>>[i]]] = <<y, x>>
  BY <1>1
<1>4. b \o <<y, x>> = Put2(b, y, x)
  BY DEF Put2, Put1
<1>. QED BY <1>1, <1>2, <1>3, <1>4, GivesForms DEF Shuffled

LEMMA TuckDoes ==
  ASSUME NEW b \in Seq(Item), NEW x \in Item, NEW y \in Item
  PROVE  Shuffled(OP_TUCK, Put2(b, x, y)) = Put3(b, y, x, y)
<1> DEFINE s == Put2(b, x, y)
<1>1. Len(b) \in Nat /\ Len(s) = Len(b) + 2 /\ SubSeq(s, 1, Len(b)) = b
      /\ s[Len(b) + 1] = x /\ s[Len(b) + 2] = y
  BY DEF Put2, Put1
<1>2. Len(s) - 2 = Len(b)
  BY <1>1
<1>3. [i \in DOMAIN <<2, 1, 2>> |-> s[Len(b) + <<2, 1, 2>>[i]]] = <<y, x, y>>
  BY <1>1
<1>4. b \o <<y, x, y>> = Put3(b, y, x, y)
  BY DEF Put3, Put2, Put1
<1>. QED BY <1>1, <1>2, <1>3, <1>4, GivesForms DEF Shuffled

\* A sequence that is long enough has an item to take from its end.
LEMMA TakeLast ==
  ASSUME NEW S, NEW s \in Seq(S), Len(s) >= 1
  PROVE  \E b \in Seq(S), x \in S : s = Append(b, x) /\ Len(s) = Len(b) + 1
<1>1. s # << >>
  BY EmptySeq
<1>2. PICK b \in Seq(S), x \in S : s = Append(b, x)
  BY <1>1, SequenceEmptyOrAppend
<1>. QED BY <1>2

LEMMA TakeTwo ==
  ASSUME NEW S, NEW s \in Seq(S), Len(s) >= 2
  PROVE  \E b \in Seq(S), x, y \in S : s = Put2(b, x, y) /\ Len(s) = Len(b) + 2
<1>1. PICK c \in Seq(S), y \in S : s = Append(c, y) /\ Len(s) = Len(c) + 1
  BY TakeLast
<1>2. Len(c) \in Nat /\ Len(c) >= 1
  BY <1>1, LenProperties
<1>3. PICK b \in Seq(S), x \in S : c = Append(b, x) /\ Len(c) = Len(b) + 1
  BY <1>2, TakeLast
<1>4. Len(b) \in Nat
  OBVIOUS
<1>. QED BY <1>1, <1>3, <1>4 DEF Put2

LEMMA TakeThree ==
  ASSUME NEW S, NEW s \in Seq(S), Len(s) >= 3
  PROVE  \E b \in Seq(S), x, y, z \in S : s = Put3(b, x, y, z) /\ Len(s) = Len(b) + 3
<1>1. PICK c \in Seq(S), z \in S : s = Append(c, z) /\ Len(s) = Len(c) + 1
  BY TakeLast
<1>2. Len(c) \in Nat /\ Len(c) >= 2
  BY <1>1, LenProperties
<1>3. PICK b \in Seq(S), x \in S, y \in S : c = Put2(b, x, y) /\ Len(c) = Len(b) + 2
  BY <1>2, TakeTwo
<1>4. Len(b) \in Nat
  OBVIOUS
<1>5. s = Put3(b, x, y, z) /\ Len(s) = Len(b) + 3
  BY <1>1, <1>3, <1>4 DEF Put3
<1>. QED BY <1>5, Zenon

LEMMA TakeFour ==
  ASSUME NEW S, NEW s \in Seq(S), Len(s) >= 4
  PROVE  \E b \in Seq(S), x, y, z, u \in S :
           s = Put4(b, x, y, z, u) /\ Len(s) = Len(b) + 4
<1>1. PICK c \in Seq(S), u \in S : s = Append(c, u) /\ Len(s) = Len(c) + 1
  BY TakeLast
<1>2. Len(c) \in Nat /\ Len(c) >= 3
  BY <1>1, LenProperties
<1>3. PICK b \in Seq(S), x \in S, y \in S, z \in S :
        c = Put3(b, x, y, z) /\ Len(c) = Len(b) + 3
  BY <1>2, TakeThree
<1>4. Len(b) \in Nat
  OBVIOUS
<1>5. s = Put4(b, x, y, z, u) /\ Len(s) = Len(b) + 4
  BY <1>1, <1>3, <1>4 DEF Put4
<1>. QED BY <1>5, Zenon

LEMMA LawsOfTwo ==
  ASSUME NEW s \in Seq(Item), Len(s) >= 2
  PROVE  /\ Shuffled(OP_SWAP, Shuffled(OP_SWAP, s)) = s
         /\ Shuffled(OP_TUCK, s) = Shuffled(OP_OVER, Shuffled(OP_SWAP, s))
         /\ Shuffled(OP_NIP, s) = Shuffled(OP_DROP, Shuffled(OP_SWAP, s))
         /\ Shuffled(OP_2DUP, s) = Shuffled(OP_OVER, Shuffled(OP_OVER, s))
         /\ Shuffled(OP_2DROP, s) = Shuffled(OP_DROP, Shuffled(OP_DROP, s))
         /\ Shuffled(OP_DROP, Shuffled(OP_DUP, s)) = s
<1>1. PICK b \in Seq(Item), x \in Item, y \in Item : s = Put2(b, x, y)
  BY TakeTwo
<1>2. \A d \in Item : Append(b, d) \in Seq(Item) /\ Put2(b, x, d) = Put1(Append(b, x), d)
                       /\ Put2(b, y, d) = Put1(Append(b, y), d)
  BY DEF Put1, Put2
<1>3. Shuffled(OP_SWAP, s) = Put2(b, y, x) /\ Shuffled(OP_SWAP, Put2(b, y, x)) = s
  BY <1>1, SwapDoes
<1>4. Shuffled(OP_TUCK, s) = Shuffled(OP_OVER, Put2(b, y, x))
  BY <1>1, TuckDoes, OverDoes
<1>5. Shuffled(OP_NIP, s) = Shuffled(OP_DROP, Put2(b, y, x))
  <2>1. Shuffled(OP_NIP, s) = Put1(b, y)
    BY <1>1, NipDoes
  <2>2. Shuffled(OP_DROP, Put1(Append(b, y), x)) = Append(b, y)
    BY <1>2, DropDoes
  <2>. QED BY <1>2, <2>1, <2>2 DEF Put1
<1>6. Shuffled(OP_2DUP, s) = Shuffled(OP_OVER, Shuffled(OP_OVER, s))
  <2>1. Shuffled(OP_OVER, s) = Put2(Append(b, x), y, x)
    BY <1>1, OverDoes DEF Put2, Put3
  <2>2. Shuffled(OP_OVER, Put2(Append(b, x), y, x)) = Put3(Append(b, x), y, x, y)
    BY <1>2, OverDoes
  <2>3. Shuffled(OP_2DUP, s) = Put4(b, x, y, x, y)
    BY <1>1, TwoDupDoes
  <2>. QED BY <2>1, <2>2, <2>3 DEF Put2, Put3, Put4
<1>7. Shuffled(OP_2DROP, s) = Shuffled(OP_DROP, Shuffled(OP_DROP, s))
  <2>1. Shuffled(OP_DROP, Put1(Append(b, x), y)) = Append(b, x)
    BY <1>2, DropDoes
  <2>2. Shuffled(OP_DROP, Append(b, x)) = b
    BY DropDoes DEF Put1
  <2>3. s = Put1(Append(b, x), y)
    BY <1>1 DEF Put1, Put2
  <2>4. Shuffled(OP_2DROP, s) = b
    BY <1>1, TwoDropDoes
  <2>. QED BY <2>1, <2>2, <2>3, <2>4
<1>8. Shuffled(OP_DROP, Shuffled(OP_DUP, s)) = s
  <2>1. Shuffled(OP_DUP, Put1(Append(b, x), y)) = Put2(Append(b, x), y, y)
    BY <1>2, DupDoes
  <2>2. Put2(Append(b, x), y, y) = Put1(s, y)
    BY <1>1 DEF Put1, Put2
  <2>3. Shuffled(OP_DROP, Put1(s, y)) = s
    BY DropDoes
  <2>. QED BY <1>1, <1>2, <2>1, <2>2, <2>3
<1>. QED BY <1>3, <1>4, <1>5, <1>6, <1>7, <1>8

LEMMA LawsOfThree ==
  ASSUME NEW s \in Seq(Item), Len(s) >= 3
  PROVE  /\ Shuffled(OP_ROT, Shuffled(OP_ROT, Shuffled(OP_ROT, s))) = s
         /\ Shuffled(OP_DROP, Shuffled(OP_ROT, Shuffled(OP_3DUP, s)))
              = Append(Append(s, FromTop(s, 2)), FromTop(s, 1))
<1>1. PICK b \in Seq(Item), x \in Item, y \in Item, z \in Item : s = Put3(b, x, y, z)
  BY TakeThree
<1>2. Shuffled(OP_ROT, Shuffled(OP_ROT, Shuffled(OP_ROT, s))) = s
  BY <1>1, RotDoes
<1>3. FromTop(s, 2) = y /\ FromTop(s, 1) = z
  BY <1>1 DEF FromTop, Put2, Put3
<1>4. Shuffled(OP_3DUP, s) = Put3(s, x, y, z)
  <2>1. Shuffled(OP_3DUP, s) = Put6(b, x, y, z, x, y, z)
    BY <1>1, ThreeDupDoes
  <2>. QED BY <1>1, <2>1 DEF Put2, Put3, Put4, Put6
<1>5. Shuffled(OP_ROT, Put3(s, x, y, z)) = Put3(s, y, z, x)
  BY RotDoes
<1>6. Shuffled(OP_DROP, Put3(s, y, z, x)) = Put2(s, y, z)
  <2>1. Put2(s, y, z) \in Seq(Item) /\ Put3(s, y, z, x) = Put1(Put2(s, y, z), x)
    BY DEF Put1, Put2, Put3
  <2>. QED BY <2>1, DropDoes
<1>. QED BY <1>2, <1>3, <1>4, <1>5, <1>6 DEF Put2

LEMMA LawsOfFour ==
  ASSUME NEW s \in Seq(Item), Len(s) >= 4
  PROVE  /\ Shuffled(OP_2SWAP, Shuffled(OP_2SWAP, s)) = s
         /\ Shuffled(OP_2DROP, Shuffled(OP_2SWAP, Shuffled(OP_2OVER, s)))
              = Shuffled(OP_2DROP, s) \o <<FromTop(s, 4), FromTop(s, 3)>>
<1>1. PICK b \in Seq(Item), x \in Item, y \in Item, z \in Item, u \in Item :
        s = Put4(b, x, y, z, u)
  BY TakeFour
<1> DEFINE c == Put2(b, x, y)
<1>2. c \in Seq(Item) /\ s = Put2(c, z, u)
  BY <1>1 DEF Put2, Put3, Put4
<1>3. Shuffled(OP_2SWAP, Shuffled(OP_2SWAP, s)) = s
  BY <1>1, TwoSwapDoes
<1>4. FromTop(s, 4) = x /\ FromTop(s, 3) = y
  BY <1>1 DEF FromTop, Put2, Put3, Put4
<1>5. Shuffled(OP_2DROP, s) \o <<x, y>> = Put2(c, x, y)
  <2>1. Shuffled(OP_2DROP, s) = c
    BY <1>2, TwoDropDoes
  <2>2. c \o <<x, y>> = Put2(c, x, y)
    <3>. HIDE DEF c
    <3>. QED BY <1>2 DEF Put2
  <2>. QED BY <2>1, <2>2
<1>6. Shuffled(OP_2OVER, s) = Put4(c, z, u, x, y)
  <2>1. Shuffled(OP_2OVER, s) = Put6(b, x, y, z, u, x, y)
    BY <1>1, TwoOverDoes
  <2>. QED BY <2>1 DEF Put2, Put3, Put4, Put6
<1>. HIDE DEF c
<1>7. Shuffled(OP_2SWAP, Put4(c, z, u, x, y)) = Put4(c, x, y, z, u)
  BY <1>2, TwoSwapDoes
<1>8. Shuffled(OP_2DROP, Put4(c, x, y, z, u)) = Put2(c, x, y)
  <2>1. Put2(c, x, y) \in Seq(Item) /\ Put4(c, x, y, z, u) = Put2(Put2(c, x, y), z, u)
    BY <1>2 DEF Put2, Put3, Put4
  <2>. QED BY <2>1, TwoDropDoes
<1>. QED BY <1>3, <1>4, <1>5, <1>6, <1>7, <1>8

\* OP_2ROT by position: the two items below the top four come to the top.
LEMMA TwoRotMoves ==
  ASSUME NEW s \in Seq(Item), NEW k \in Nat, Len(s) = k + 6
  PROVE  /\ Shuffled(OP_2ROT, s) \in Seq(Item) /\ Len(Shuffled(OP_2ROT, s)) = k + 6
         /\ \A j \in 1..k : Shuffled(OP_2ROT, s)[j] = s[j]
         /\ \A j \in (k + 1)..(k + 4) : Shuffled(OP_2ROT, s)[j] = s[j + 2]
         /\ \A j \in (k + 5)..(k + 6) : Shuffled(OP_2ROT, s)[j] = s[j - 4]
<1>1. PICK below : below = SubSeq(s, 1, k)
  OBVIOUS
<1>2. /\ below \in Seq(Item) /\ Len(below) = k
      /\ \A j \in 1..k : below[j] = s[j]
  BY <1>1
<1>3. PICK moved : moved = <<s[k + 3], s[k + 4], s[k + 5], s[k + 6], s[k + 1], s[k + 2]>>
  OBVIOUS
<1>4. /\ moved \in Seq(Item) /\ Len(moved) = 6
      /\ \A j \in 1..4 : moved[j] = s[k + j + 2]
      /\ \A j \in 5..6 : moved[j] = s[k + j - 4]
  BY <1>3
<1>5. [i \in DOMAIN <<3, 4, 5, 6, 1, 2>> |-> s[k + <<3, 4, 5, 6, 1, 2>>[i]]] = moved
  BY <1>3
<1>6. Shuffled(OP_2ROT, s) = below \o moved
  <2>1. Len(s) - 6 = k
    OBVIOUS
  <2>. QED BY <1>1, <1>5, <2>1, GivesForms DEF Shuffled
<1>7. PICK t : t = below \o moved
  OBVIOUS
<1>8. /\ t \in Seq(Item) /\ Len(t) = k + 6
      /\ \A j \in 1..(k + 6) : t[j] = IF j <= k THEN below[j] ELSE moved[j - k]
  <2>1. /\ t \in Seq(Item) /\ Len(t) = Len(below) + Len(moved)
        /\ \A j \in 1..(Len(below) + Len(moved)) :
             t[j] = IF j <= Len(below) THEN below[j] ELSE moved[j - Len(below)]
    BY <1>2, <1>4, <1>7, ConcatProperties
  <2>. QED BY <1>2, <1>4, <2>1
<1>9. /\ \A j \in 1..k : t[j] = s[j]
      /\ \A j \in (k + 1)..(k + 4) : t[j] = s[j + 2]
      /\ \A j \in (k + 5)..(k + 6) : t[j] = s[j - 4]
  <2>1. ASSUME NEW j \in (k + 1)..(k + 4) PROVE t[j] = s[j + 2]
    <3>1. PICK i \in 1..4 : j = k + i
      <4>1. j - k \in 1..4 /\ j = k + (j - k)
        OBVIOUS
      <4>. QED BY <4>1
    <3>2. t[j] = moved[i] /\ moved[i] = s[k + i + 2] /\ j + 2 = k + i + 2
      BY <1>4, <1>8, <3>1
    <3>. QED BY <3>2
  <2>2. ASSUME NEW j \in (k + 5)..(k + 6) PROVE t[j] = s[j - 4]
    <3>1. PICK i \in 5..6 : j = k + i
      <4>1. j - k \in 5..6 /\ j = k + (j - k)
        OBVIOUS
      <4>. QED BY <4>1
    <3>2. t[j] = moved[i] /\ moved[i] = s[k + i - 4] /\ j - 4 = k + i - 4
      BY <1>4, <1>8, <3>1
    <3>. QED BY <3>2
  <2>3. \A j \in 1..k : t[j] = s[j]
    BY <1>2, <1>8
  <2>. QED BY <2>1, <2>2, <2>3
<1>. QED BY <1>6, <1>7, <1>8, <1>9

LEMMA LawsOfSix ==
  ASSUME NEW s \in Seq(Item), Len(s) >= 6
  PROVE  Shuffled(OP_2ROT, Shuffled(OP_2ROT, Shuffled(OP_2ROT, s))) = s
<1>1. PICK k \in Nat : Len(s) = k + 6
  <2>1. Len(s) \in Nat
    BY LenProperties
  <2>2. Len(s) - 6 \in Nat /\ Len(s) = (Len(s) - 6) + 6
    BY <2>1
  <2>. QED BY <2>2
<1>2. PICK t : t = Shuffled(OP_2ROT, s)
  OBVIOUS
<1>3. /\ t \in Seq(Item) /\ Len(t) = k + 6
      /\ \A j \in 1..k : t[j] = s[j]
      /\ \A j \in (k + 1)..(k + 4) : t[j] = s[j + 2]
      /\ \A j \in (k + 5)..(k + 6) : t[j] = s[j - 4]
  BY <1>1, <1>2, TwoRotMoves
<1>4. PICK u : u = Shuffled(OP_2ROT, t)
  OBVIOUS
<1>5. /\ u \in Seq(Item) /\ Len(u) = k + 6
      /\ \A j \in 1..k : u[j] = t[j]
      /\ \A j \in (k + 1)..(k + 4) : u[j] = t[j + 2]
      /\ \A j \in (k + 5)..(k + 6) : u[j] = t[j - 4]
  BY <1>3, <1>4, TwoRotMoves
<1>6. PICK v : v = Shuffled(OP_2ROT, u)
  OBVIOUS
<1>7. /\ v \in Seq(Item) /\ Len(v) = k + 6
      /\ \A j \in 1..k : v[j] = u[j]
      /\ \A j \in (k + 1)..(k + 4) : v[j] = u[j + 2]
      /\ \A j \in (k + 5)..(k + 6) : v[j] = u[j - 4]
  BY <1>5, <1>6, TwoRotMoves
<1>8. ASSUME NEW j \in 1..(k + 6) PROVE v[j] = s[j]
  <2>1. CASE j <= k
    BY <1>3, <1>5, <1>7, <2>1
  <2>2. CASE j \in (k + 1)..(k + 2)
    BY <1>3, <1>5, <1>7, <2>2
  <2>3. CASE j \in (k + 3)..(k + 4)
    BY <1>3, <1>5, <1>7, <2>3
  <2>4. CASE j \in (k + 5)..(k + 6)
    BY <1>3, <1>5, <1>7, <2>4
  <2>. QED BY <2>1, <2>2, <2>3, <2>4
<1>9. v = s
  BY <1>1, <1>7, <1>8, SeqEqual
<1>. QED BY <1>2, <1>4, <1>6, <1>9

LEMMA Laws == ASSUME TypeOK PROVE ShuffleLaws
<1>1. stack \in Seq(Item)
  BY DEF TypeOK
<1>2. PICK s \in Seq(Item) : s = stack
  BY <1>1
<1>. QED BY <1>2, LawsOfTwo, LawsOfThree, LawsOfFour, LawsOfSix DEF ShuffleLaws, Has

------------------------------------------------------------------------------
(* Turns and their trace.                                                  *)

ConditionalOps == {OP_IF, OP_NOTIF, OP_ELSE, OP_ENDIF}

\* The operations that, executed, are told apart by what they do.
SpecialOps ==
  {OP_PICK, OP_ROLL, OP_CODESEPARATOR, OP_CHECKSIGADD} \cup CHECKSIG_OPCODES
    \cup CHECKMULTISIG_OPCODES

\* Any other operation, and a skipped one, moves at most the two stacks.
Ordinary ==
  /\ Rejection = "OK" /\ Op \notin ConditionalOps
  /\ IF Executing THEN Op \notin SpecialOps ELSE UNCHANGED <<stack, altstack>>
  /\ UNCHANGED <<execStack, codeVars>>
  /\ opCount' = Count

\* The operations told apart, when they run, and the conditionals.
Special ==
  \/ OpIf \/ SkippedIf \/ OpElse \/ OpEndIf \/ OpPickRoll \/ OpCodeSeparator
  \/ OpCheckSig \/ OpTapscriptCheckSig \/ OpCheckSigAdd \/ EndMultisig

\* One operation recorded.
Recorded ==
  /\ InTurn
  /\ \E s, a, x, n, sig, err : Finish(s, a, x, n, sig, err)
  /\ loopPhase' = "idle"
  /\ status' = "raised" \/ Ordinary \/ Special

\* The end of an evaluation with a step that is no operation's.
Ended ==
  /\ status \in {"start", "running"} /\ loopPhase = "idle"
  /\ \E err : err # "OK" /\ Terminal(err)

\* A step that records nothing.
Silent ==
  /\ UNCHANGED <<input, pc, stack, altstack, execStack, steps, error, codesep, codesepPos>>
  /\ status' # "escaped" => UNCHANGED <<opCount, weight>>
  /\ \/ UNCHANGED <<status, loopPhase>>
     \/ status' = status /\ InTurn /\ Executing /\ Op \in CHECKMULTISIG_OPCODES
     \/ /\ status \in {"start", "running"} /\ status' \in {"running", "escaped"}
        /\ loopPhase' = "idle"
     \/ AtEnd /\ execStack = << >> /\ loopPhase' = "idle" /\ status' = "returned"
  /\ status' = "returned" => finalStack' = IF status = "returned" THEN finalStack ELSE stack
  /\ loopPhase' = "raised" => loopError' # "OK"

\* The loop of a multi-signature check runs within the turn of its opcode, and
\* is only left by an exception for an error.
LoopInTurn ==
  /\ loopPhase # "idle" => InTurn /\ Executing /\ Op \in CHECKMULTISIG_OPCODES
  /\ loopPhase = "raised" => loopError # "OK"

LEMMA PlainRecords ==
  ASSUME AtOp, NEW s, NEW a, NEW x, NEW err, Plain(s, a, x, err),
         \/ err # "OK"
         \/ /\ Rejection = "OK" /\ Op \notin ConditionalOps /\ x = execStack
            /\ IF Executing THEN Op \notin SpecialOps ELSE s = stack /\ a = altstack
         \/ OpIf \/ SkippedIf \/ OpElse \/ OpEndIf \/ OpPickRoll
  PROVE  Recorded
<1>1. InTurn
  BY DEF AtOp, InTurn, Ops
<1>2. Finish(s, a, x, Count, {}, err) /\ loopPhase' = "idle" /\ UNCHANGED codeVars
  BY DEF Plain, AtOp, multisigVars
<1>3. /\ stack' = s /\ altstack' = a /\ execStack' = x /\ opCount' = Count
      /\ err # "OK" => status' = "raised"
  BY <1>2 DEF Finish
<1>. QED BY <1>1, <1>2, <1>3 DEF Recorded, Ordinary, Special

LEMMA RaiseRecords ==
  ASSUME AtOp, NEW s, NEW err, Raise(s, err), err # "OK"
  PROVE  Recorded
BY PlainRecords DEF Raise

\* When an operation that is executed is an ordinary one.
Ordinarily ==
  Executing /\ Rejection = "OK" /\ Op \notin ConditionalOps \cup SpecialOps

LEMMA LeaveRecords ==
  ASSUME NEW s, Leave(s), AtOp, Ordinarily
  PROVE  Recorded
BY PlainRecords DEF Leave, Ordinarily

LEMMA FinishRecords ==
  ASSUME InTurn, loopPhase' = "idle", NEW s, NEW n, NEW sig, NEW err,
         Finish(s, altstack, execStack, n, sig, err),
         err # "OK" \/ Special
  PROVE  Recorded
<1>1. err # "OK" => status' = "raised"
  BY DEF Finish
<1>. QED BY <1>1 DEF Recorded

LEMMA ConcludeRecords ==
  ASSUME InTurn, loopPhase' = "idle", NEW s, NEW n, NEW sig, NEW ok, NEW verify,
         NEW verifyError, Conclude(s, n, sig, ok, verify, verifyError),
         Special
  PROVE  Recorded
BY FinishRecords DEF Conclude

\* The operations that no special action is for.
OtherOps ==
  (OP_0..OP_PUSHDATA4) \cup {OP_1NEGATE} \cup SMALL_INTS
    \cup {OP_VERIFY, OP_RETURN, OP_NOP} \cup UPGRADABLE_NOPS
    \cup {OP_TOALTSTACK, OP_FROMALTSTACK} \cup STACK_SHUFFLES
    \cup {OP_IFDUP, OP_DEPTH, OP_SIZE, OP_EQUAL, OP_EQUALVERIFY}
    \cup UNARY_NUMERIC \cup BINARY_NUMERIC \cup {OP_WITHIN} \cup HASH_OPCODES
    \cup {OP_CHECKLOCKTIMEVERIFY, OP_CHECKSEQUENCEVERIFY}

LEMMA OpsApart ==
  /\ \A op \in OtherOps : op \notin ConditionalOps \cup SpecialOps
  /\ \A op \in SpecialOps : op \notin ConditionalOps
  /\ \A op \in CHECKMULTISIG_OPCODES :
       op \notin {OP_PICK, OP_ROLL, OP_CODESEPARATOR, OP_CHECKSIGADD} \cup CHECKSIG_OPCODES
  /\ \A op \in CHECKSIG_OPCODES :
       op \notin {OP_PICK, OP_ROLL, OP_CODESEPARATOR, OP_CHECKSIGADD}
  /\ \A op \in ConditionalOps : op \in CONDITIONAL_RANGE
BY DEF OtherOps, ConditionalOps, SpecialOps, CONDITIONAL_RANGE, SMALL_INTS, UPGRADABLE_NOPS,
       STACK_SHUFFLES, UNARY_NUMERIC, BINARY_NUMERIC, HASH_OPCODES, CHECKSIG_OPCODES,
       CHECKMULTISIG_OPCODES,
       OP_0, OP_PUSHDATA1, OP_PUSHDATA2, OP_PUSHDATA4, OP_1NEGATE,
       OP_1, OP_16, OP_NOP, OP_IF, OP_NOTIF,
       OP_ELSE, OP_ENDIF, OP_VERIFY, OP_RETURN, OP_TOALTSTACK, OP_FROMALTSTACK,
       OP_2DROP, OP_2DUP, OP_3DUP, OP_2OVER, OP_2ROT, OP_2SWAP, OP_IFDUP,
       OP_DEPTH, OP_DROP, OP_DUP, OP_NIP, OP_OVER, OP_PICK, OP_ROLL, OP_ROT,
       OP_SWAP, OP_TUCK, OP_SIZE, OP_EQUAL, OP_EQUALVERIFY,
       OP_1ADD, OP_1SUB, OP_NEGATE, OP_ABS, OP_NOT, OP_0NOTEQUAL,
       OP_ADD, OP_SUB, OP_BOOLAND, OP_BOOLOR, OP_NUMEQUAL, OP_NUMEQUALVERIFY,
       OP_NUMNOTEQUAL, OP_LESSTHAN, OP_GREATERTHAN, OP_LESSTHANOREQUAL,
       OP_GREATERTHANOREQUAL, OP_MIN, OP_MAX, OP_WITHIN, OP_RIPEMD160, OP_SHA1,
       OP_SHA256, OP_HASH160, OP_HASH256, OP_CODESEPARATOR, OP_CHECKSIG,
       OP_CHECKSIGVERIFY, OP_CHECKMULTISIG, OP_CHECKMULTISIGVERIFY, OP_NOP1,
       OP_CHECKLOCKTIMEVERIFY, OP_CHECKSEQUENCEVERIFY, OP_NOP4, OP_NOP10,
       OP_CHECKSIGADD

LEMMA OtherExecutes ==
  ASSUME NEW ops, ops \subseteq OtherOps, Executes(ops)
  PROVE  AtOp /\ Ordinarily
BY OpsApart DEF Executes, Processes, Ordinarily

LEMMA SpecialExecutes ==
  ASSUME NEW ops, Processes(ops)
  PROVE  AtOp /\ InTurn /\ Op \in ops /\ loopPhase = "idle"
BY DEF Processes, AtOp, InTurn, Ops
------------------------------------------------------------------------------
(* Every step is of one of these forms.                                     *)

LEMMA StartAndEndRecords ==
  ASSUME LoopInTurn,
         RejectScriptSize \/ RejectTruncated \/ BeginLoop \/ EndUnbalanced \/ EndReturn
  PROVE  Ended \/ Silent
<1>1. CASE RejectScriptSize \/ RejectTruncated \/ EndUnbalanced
  <2>1. status \in {"start", "running"} /\ loopPhase = "idle"
    BY <1>1 DEF RejectScriptSize, RejectTruncated, EndUnbalanced, AtEnd, LoopInTurn, InTurn
  <2>. QED BY <1>1, <2>1 DEF RejectScriptSize, RejectTruncated, EndUnbalanced, Ended
<1>2. CASE BeginLoop
  BY <1>2 DEF BeginLoop, LoopInTurn, InTurn, Silent, codeVars, multisigVars
<1>3. CASE EndReturn
  BY <1>3 DEF EndReturn, AtEnd, Silent, codeVars, multisigVars
<1>. QED BY <1>1, <1>2, <1>3

LEMMA RefusalRecords ==
  ASSUME RejectOp \/ Underflow \/ BadOpcode \/ BadNumber \/ SkipOp
  PROVE  Recorded
<1>1. CASE RejectOp
  BY <1>1, RaiseRecords DEF RejectOp
<1>2. CASE Underflow
  BY <1>2, RaiseRecords DEF Underflow, Executes, Processes
<1>3. CASE BadOpcode
  BY <1>3, RaiseRecords DEF BadOpcode, Executes, Processes
<1>4. CASE BadNumber
  BY <1>4, RaiseRecords DEF BadNumber, Runs, Executes, Processes
<1>5. CASE SkipOp
  <2>1. AtOp /\ Rejection = "OK" /\ Op \notin ConditionalOps /\ ~Executing
    BY <1>5, OpsApart DEF SkipOp, Processes
  <2>. QED BY <1>5, <2>1, PlainRecords DEF SkipOp, Leave
<1>. QED BY <1>1, <1>2, <1>3, <1>4, <1>5

LEMMA ConditionalRecords ==
  ASSUME OpIf \/ SkippedIf \/ OpElse \/ OpEndIf \/ OpPickRoll
  PROVE  Recorded
<1>1. AtOp
  BY DEF OpIf, SkippedIf, OpElse, OpEndIf, OpPickRoll, Runs, Executes, Processes
<1>2. \E s, a, x, err : Plain(s, a, x, err)
  BY DEF OpIf, SkippedIf, OpElse, OpEndIf, OpPickRoll, Raise, Leave
<1>. QED BY <1>1, <1>2, PlainRecords

LEMMA PlainOpRecords ==
  ASSUME \/ OpPush \/ OpSmallInt \/ OpVerify \/ OpReturn \/ OpNop \/ OpUpgradableNop
         \/ OpToAltStack \/ OpFromAltStack \/ OpShuffle \/ OpIfDup \/ OpDepth
         \/ OpSize \/ OpEqual
         \/ OpUnary \/ OpBinary \/ OpWithin \/ OpHash
         \/ OpCheckLockTimeVerify \/ OpCheckSequenceVerify
  PROVE  Recorded
<1>1. CASE OpPush
  <2>1. AtOp /\ Ordinarily
    BY <1>1, OtherExecutes DEF OpPush, OtherOps
  <2>. QED BY <1>1, <2>1, RaiseRecords, LeaveRecords DEF OpPush
<1>2. CASE OpSmallInt
  <2>1. AtOp /\ Ordinarily
    BY <1>2, OtherExecutes DEF OpSmallInt, OtherOps
  <2>. QED BY <1>2, <2>1, LeaveRecords DEF OpSmallInt
<1>3. CASE OpVerify
  <2>1. AtOp /\ Ordinarily
    BY <1>3, OtherExecutes DEF OpVerify, Runs, OtherOps
  <2>. QED BY <1>3, <2>1, RaiseRecords, LeaveRecords DEF OpVerify
<1>4. CASE OpReturn
  BY <1>4, RaiseRecords DEF OpReturn, Executes, Processes
<1>5. CASE OpNop
  <2>1. AtOp /\ Ordinarily
    BY <1>5, OtherExecutes DEF OpNop, OtherOps
  <2>. QED BY <1>5, <2>1, LeaveRecords DEF OpNop
<1>6. CASE OpUpgradableNop
  <2>1. AtOp /\ Ordinarily
    BY <1>6, OtherExecutes DEF OpUpgradableNop, OtherOps
  <2>. QED BY <1>6, <2>1, RaiseRecords, LeaveRecords DEF OpUpgradableNop, UpgradableNop
<1>7. CASE OpToAltStack
  <2>1. AtOp /\ Ordinarily
    BY <1>7, OtherExecutes DEF OpToAltStack, Runs, OtherOps
  <2>. QED BY <1>7, <2>1, PlainRecords DEF OpToAltStack, Ordinarily
<1>8. CASE OpFromAltStack
  <2>1. AtOp /\ Ordinarily
    BY <1>8, OtherExecutes DEF OpFromAltStack, OtherOps
  <2>. QED BY <1>8, <2>1, PlainRecords, RaiseRecords DEF OpFromAltStack, Ordinarily
<1>9. CASE OpShuffle
  <2>1. AtOp /\ Ordinarily
    BY <1>9, OtherExecutes DEF OpShuffle, Runs, OtherOps
  <2>. QED BY <1>9, <2>1, LeaveRecords DEF OpShuffle
<1>10. CASE OpIfDup
  <2>1. AtOp /\ Ordinarily
    BY <1>10, OtherExecutes DEF OpIfDup, Runs, OtherOps
  <2>. QED BY <1>10, <2>1, LeaveRecords DEF OpIfDup
<1>11. CASE OpDepth
  <2>1. AtOp /\ Ordinarily
    BY <1>11, OtherExecutes DEF OpDepth, OtherOps
  <2>. QED BY <1>11, <2>1, LeaveRecords DEF OpDepth
<1>12. CASE OpSize
  <2>1. AtOp /\ Ordinarily
    BY <1>12, OtherExecutes DEF OpSize, Runs, OtherOps
  <2>. QED BY <1>12, <2>1, LeaveRecords DEF OpSize
<1>13. CASE OpEqual
  <2>1. AtOp /\ Ordinarily
    BY <1>13, OtherExecutes DEF OpEqual, Runs, OtherOps
  <2>. QED BY <1>13, <2>1, RaiseRecords, LeaveRecords DEF OpEqual
<1>14. CASE OpUnary
  <2>1. AtOp /\ Ordinarily
    BY <1>14, OtherExecutes DEF OpUnary, Runs, OtherOps
  <2>. QED BY <1>14, <2>1, LeaveRecords DEF OpUnary
<1>15. CASE OpBinary
  <2>1. AtOp /\ Ordinarily
    BY <1>15, OtherExecutes DEF OpBinary, Runs, OtherOps
  <2>. QED BY <1>15, <2>1, RaiseRecords, LeaveRecords DEF OpBinary
<1>16. CASE OpWithin
  <2>1. AtOp /\ Ordinarily
    BY <1>16, OtherExecutes DEF OpWithin, Runs, OtherOps
  <2>. QED BY <1>16, <2>1, LeaveRecords DEF OpWithin
<1>17. CASE OpHash
  <2>1. AtOp /\ Ordinarily
    BY <1>17, OtherExecutes DEF OpHash, Runs, OtherOps
  <2>. QED BY <1>17, <2>1, LeaveRecords DEF OpHash
<1>18. CASE OpCheckLockTimeVerify
  <2>1. AtOp /\ Ordinarily
    BY <1>18, OtherExecutes DEF OpCheckLockTimeVerify, OtherOps
  <2>. QED BY <1>18, <2>1, RaiseRecords, LeaveRecords DEF OpCheckLockTimeVerify, UpgradableNop, LockTurn
<1>19. CASE OpCheckSequenceVerify
  <2>1. AtOp /\ Ordinarily
    BY <1>19, OtherExecutes DEF OpCheckSequenceVerify, OtherOps
  <2>. QED BY <1>19, <2>1, RaiseRecords, LeaveRecords DEF OpCheckSequenceVerify, UpgradableNop, LockTurn
<1>. QED BY <1>1, <1>2, <1>3, <1>4, <1>5, <1>6, <1>7, <1>8, <1>9, <1>10,
            <1>11, <1>12, <1>13, <1>14, <1>15, <1>16, <1>17, <1>18, <1>19

LEMMA SignatureRecords ==
  ASSUME \/ OpCodeSeparator \/ OpCheckSig \/ OpTapscriptCheckSig \/ OpCheckSigAdd
         \/ RefuseMultisig
  PROVE  Recorded
<1>1. CASE OpCodeSeparator
  <2>1. InTurn /\ loopPhase' = "idle"
    BY <1>1, SpecialExecutes DEF OpCodeSeparator, Executes, multisigVars
  <2>. QED BY <1>1, <2>1, FinishRecords DEF OpCodeSeparator, Special
<1>2. CASE OpCheckSig
  <2>1. InTurn /\ loopPhase' = "idle"
    BY <1>2, SpecialExecutes DEF OpCheckSig, Executes, multisigVars
  <2>2. Special
    BY <1>2 DEF Special
  <2>. QED BY <1>2, <2>1, <2>2, FinishRecords, ConcludeRecords DEF OpCheckSig
<1>3. CASE OpTapscriptCheckSig
  <2>1. AtOp /\ InTurn /\ loopPhase = "idle"
    BY <1>3, SpecialExecutes DEF OpTapscriptCheckSig, Executes
  <2>2. CASE ~Has(2)
    BY <1>3, <2>1, <2>2, RaiseRecords DEF OpTapscriptCheckSig
  <2>3. CASE Has(2)
    <3>1. loopPhase' = "idle"
      BY <1>3, <2>1, <2>3 DEF OpTapscriptCheckSig, Charge, multisigVars
    <3>2. Special
      BY <1>3 DEF Special
    <3>. QED BY <1>3, <2>1, <2>3, <3>1, <3>2, FinishRecords, ConcludeRecords
           DEF OpTapscriptCheckSig, SchnorrFails
  <2>. QED BY <2>2, <2>3
<1>4. CASE OpCheckSigAdd
  <2>1. AtOp /\ InTurn /\ loopPhase = "idle"
    BY <1>4, SpecialExecutes DEF OpCheckSigAdd, Executes
  <2>2. CASE ~(Tapscript /\ Has(3) /\ IsNum(Top(2)))
    BY <1>4, <2>1, <2>2, RaiseRecords DEF OpCheckSigAdd
  <2>3. CASE Tapscript /\ Has(3) /\ IsNum(Top(2))
    <3>1. loopPhase' = "idle"
      BY <1>4, <2>1, <2>3 DEF OpCheckSigAdd, Charge, multisigVars
    <3>2. Special
      BY <1>4 DEF Special
    <3>. QED BY <1>4, <2>1, <2>3, <3>1, <3>2, FinishRecords DEF OpCheckSigAdd, SchnorrFails
  <2>. QED BY <2>2, <2>3
<1>5. CASE RefuseMultisig
  <2>1. InTurn /\ loopPhase' = "idle"
    BY <1>5, SpecialExecutes DEF RefuseMultisig, Executes, multisigVars
  <2>. QED BY <1>5, <2>1, FinishRecords DEF RefuseMultisig
<1>. QED BY <1>1, <1>2, <1>3, <1>4, <1>5

LEMMA MultisigRecords ==
  ASSUME LoopInTurn,
         \/ BeginMultisig \/ MultisigLoop \/ RaiseInMultisig \/ NullFailMultisig
         \/ EndMultisig
  PROVE  Recorded \/ Silent
<1>1. CASE BeginMultisig
  BY <1>1 DEF BeginMultisig, EnterLoop, Executes, Processes, AtOp, InTurn, Ops, evalVars,
              runVars, codeVars, Silent
<1>2. CASE MultisigLoop
  BY <1>2 DEF MultisigLoop, LoopStep, Compare, RefusePair, LeaveLoop, InLoop, LoopInTurn,
              evalVars, runVars, codeVars, Silent
<1>3. CASE RaiseInMultisig \/ NullFailMultisig \/ EndMultisig
  <2>1. loopPhase # "idle" /\ loopPhase' = "idle"
    BY <1>3 DEF RaiseInMultisig, NullFailMultisig, EndMultisig, LeaveMultisig
  <2>2. InTurn
    BY <2>1 DEF LoopInTurn
  <2>3. RaiseInMultisig => loopError # "OK"
    BY DEF RaiseInMultisig, LoopInTurn
  <2>4. EndMultisig => Special
    BY DEF Special
  <2>. QED BY <1>3, <2>1, <2>2, <2>3, <2>4, FinishRecords, ConcludeRecords
         DEF RaiseInMultisig, NullFailMultisig, EndMultisig, LeaveMultisig
<1>. QED BY <1>1, <1>2, <1>3

LEMMA StepRecords ==
  ASSUME LoopInTurn, [Next]_vars
  PROVE  Recorded \/ Ended \/ Silent
<1>1. CASE UNCHANGED vars
  BY <1>1 DEF vars, evalVars, runVars, codeVars, multisigVars, LoopInTurn, Silent
<1>2. CASE EscapeSchnorr
  BY <1>2 DEF EscapeSchnorr, Executes, Processes, AtOp, Charge, multisigVars, Silent
<1>. QED BY <1>1, <1>2, StartAndEndRecords, RefusalRecords, ConditionalRecords, PlainOpRecords,
            SignatureRecords, MultisigRecords DEF Next

LEMMA StepLoopInTurn ==
  ASSUME LoopInTurn, [Next]_vars
  PROVE  LoopInTurn'
<1>1. CASE Recorded
  BY <1>1 DEF Recorded, LoopInTurn
<1>2. CASE Ended
  BY <1>2 DEF Ended, Terminal, multisigVars, LoopInTurn
<1>3. CASE Silent
  BY <1>3 DEF Silent, LoopInTurn, InTurn, AtEnd, Op, Ops, Executing
<1>. QED BY <1>1, <1>2, <1>3, StepRecords
------------------------------------------------------------------------------
(* What the turns do to exec_stack.                                        *)

\* The script text decides how deep exec_stack is, the operands only what it
\* holds.
NestedBy(x) ==
  IF Op \in Opened
    THEN x = Append(execStack, Executing /\ (cast_to_bool(Top(1)) # (Op = OP_NOTIF)))
  ELSE IF Op = OP_ENDIF THEN execStack # << >> /\ x = Front(execStack)
  ELSE IF Op = OP_ELSE
    THEN LET n == Len(execStack)
         IN  execStack # << >> /\ x = [execStack EXCEPT ![n] = ~execStack[n]]
  ELSE x = execStack

\* A recorded operation that succeeded.
Succeeded == Recorded /\ status' # "raised"

LEMMA SucceededForm ==
  ASSUME Succeeded
  PROVE  /\ input' = input /\ pc' = pc + 1 /\ status' = "running" /\ error' = "OK"
         /\ ~TooDeep(stack', altstack')
         /\ \E n, sig : Finish(stack', altstack', execStack', n, sig, "OK")
<1>1. PICK s, a, x, n, sig, err : Finish(s, a, x, n, sig, err)
  BY DEF Succeeded, Recorded
<1>2. s = stack' /\ a = altstack' /\ x = execStack' /\ err = "OK" /\ ~TooDeep(s, a)
  BY <1>1 DEF Succeeded, Finish
<1>3. Finish(stack', altstack', execStack', n, sig, "OK")
  BY <1>1, <1>2
<1>4. input' = input /\ pc' = pc + 1 /\ status' = "running" /\ error' = "OK"
  BY <1>1, <1>2 DEF Finish, Succeeded, Recorded, InTurn
<1>. QED BY <1>2, <1>3, <1>4

\* Which operation each of the special actions is.
LEMMA SpecialAction ==
  ASSUME LoopInTurn
  PROVE  /\ OpIf \/ SkippedIf \/ OpElse \/ OpEndIf => Op \in ConditionalOps
         /\ OpPickRoll => Executing /\ Op \in {OP_PICK, OP_ROLL}
         /\ OpCodeSeparator => Executing /\ Op = OP_CODESEPARATOR
         /\ OpCheckSig \/ OpTapscriptCheckSig => Executing /\ Op \in CHECKSIG_OPCODES
         /\ OpCheckSigAdd => Executing /\ Op = OP_CHECKSIGADD
         /\ EndMultisig => Executing /\ Op \in CHECKMULTISIG_OPCODES
<1>1. OpIf \/ SkippedIf \/ OpElse \/ OpEndIf => Op \in ConditionalOps
  BY DEF OpIf, SkippedIf, OpElse, OpEndIf, Runs, Executes, Processes, ConditionalOps
<1>2. EndMultisig => Executing /\ Op \in CHECKMULTISIG_OPCODES
  BY DEF EndMultisig, LoopInTurn
<1>. QED BY <1>1, <1>2 DEF OpPickRoll, OpCodeSeparator, OpCheckSig, OpTapscriptCheckSig,
                OpCheckSigAdd, Runs, Executes, Processes

\* And the other way round: what an executed special operation did.
LEMMA SucceededSpecial ==
  ASSUME LoopInTurn, Succeeded, Executing
  PROVE  /\ Op \in {OP_PICK, OP_ROLL} => OpPickRoll
         /\ Op = OP_CODESEPARATOR => OpCodeSeparator
         /\ Op \in CHECKSIG_OPCODES => OpCheckSig \/ OpTapscriptCheckSig
         /\ Op = OP_CHECKSIGADD => OpCheckSigAdd
         /\ Op \in CHECKMULTISIG_OPCODES => EndMultisig
<1>1. Op \in SpecialOps => Special
  BY DEF Succeeded, Recorded, Ordinary
<1>2. {OP_PICK, OP_ROLL, OP_CODESEPARATOR, OP_CHECKSIGADD} \cup CHECKSIG_OPCODES
        \cup CHECKMULTISIG_OPCODES \subseteq SpecialOps
  BY DEF SpecialOps
<1>3. OP_CODESEPARATOR \notin {OP_PICK, OP_ROLL} /\ OP_CHECKSIGADD \notin {OP_PICK, OP_ROLL}
      /\ OP_CODESEPARATOR # OP_CHECKSIGADD
  BY DEF OP_CODESEPARATOR, OP_CHECKSIGADD, OP_PICK, OP_ROLL
<1>. QED BY <1>1, <1>2, <1>3, SpecialAction, OpsApart DEF Special

\* The separator and the budget are moved by the operations meant to.
LEMMA SucceededKeeps ==
  ASSUME LoopInTurn, Succeeded
  PROVE  /\ ~(Executing /\ Op = OP_CODESEPARATOR) => UNCHANGED <<codesep, codesepPos>>
         /\ ~(Executing /\ Op \in CHECKSIG_OPCODES \cup {OP_CHECKSIGADD}) => weight' = weight
         /\ ~(Executing /\ Op \in CHECKMULTISIG_OPCODES) => opCount' = Count
         /\ ~Executing => UNCHANGED <<stack, altstack>>
<1>1. CASE Ordinary
  BY <1>1 DEF Ordinary, codeVars
<1>2. CASE OpIf \/ SkippedIf \/ OpElse \/ OpEndIf \/ OpPickRoll
  BY <1>2 DEF OpIf, SkippedIf, OpElse, OpEndIf, OpPickRoll, Runs, Executes, Raise, Leave, Plain,
              Finish, codeVars
<1>3. CASE OpCodeSeparator
  BY <1>3 DEF OpCodeSeparator, Executes, Processes, Finish
<1>4. CASE OpCheckSig \/ OpTapscriptCheckSig
  BY <1>4 DEF OpCheckSig, OpTapscriptCheckSig, SchnorrFails, Charge, Conclude, Raise, Plain,
              Executes, Processes, Finish, codeVars
<1>5. CASE OpCheckSigAdd
  BY <1>5 DEF OpCheckSigAdd, SchnorrFails, Charge, Raise, Plain, Executes, Processes, Finish,
              codeVars
<1>6. CASE EndMultisig
  BY <1>6 DEF EndMultisig, LeaveMultisig, LoopInTurn, codeVars
<1>. QED BY <1>1, <1>2, <1>3, <1>4, <1>5, <1>6 DEF Succeeded, Recorded, Special

LEMMA SucceededNests ==
  ASSUME LoopInTurn, Succeeded
  PROVE  NestedBy(execStack')
<1>1. CASE OpIf
  BY <1>1 DEF OpIf, Runs, Executes, Processes, Raise, Plain, Finish, Succeeded, NestedBy, Opened
<1>2. CASE SkippedIf
  BY <1>2 DEF SkippedIf, Processes, Plain, Finish, NestedBy, Opened
<1>3. CASE OpElse
  BY <1>3 DEF OpElse, Processes, Raise, Plain, Finish, Succeeded, NestedBy, Opened, OP_IF,
              OP_NOTIF, OP_ELSE, OP_ENDIF
<1>4. CASE OpEndIf
  BY <1>4 DEF OpEndIf, Processes, Raise, Plain, Finish, Succeeded, NestedBy, Opened, OP_IF,
              OP_NOTIF, OP_ELSE, OP_ENDIF
<1>5. CASE Ordinary
  BY <1>5 DEF Ordinary, ConditionalOps, NestedBy, Opened
<1>6. CASE \/ OpPickRoll \/ OpCodeSeparator \/ OpCheckSig \/ OpTapscriptCheckSig
           \/ OpCheckSigAdd \/ EndMultisig
  <2>1. execStack' = execStack
    BY <1>6 DEF OpPickRoll, OpCodeSeparator, OpCheckSig, OpTapscriptCheckSig, OpCheckSigAdd,
                EndMultisig, LeaveMultisig, SchnorrFails, Conclude, Raise, Leave, Plain, Finish
  <2>2. Op \notin ConditionalOps
    BY <1>6, SpecialAction, OpsApart DEF SpecialOps
  <2>. QED BY <2>1, <2>2 DEF ConditionalOps, NestedBy, Opened
<1>. QED BY <1>1, <1>2, <1>3, <1>4, <1>5, <1>6 DEF Succeeded, Recorded, Special
------------------------------------------------------------------------------
(* The stack-size limit.                                                   *)

\* The machine between two steps: its types, and that a loop runs in its turn.
MachineInv == TypeInv /\ LoopInTurn

LEMMA InitMachine == Init => MachineInv
BY InitType DEF MachineInv, LoopInTurn, Init, Begin

LEMMA StepMachine ==
  ASSUME DigestsAreItems, MachineInv, [Next]_vars
  PROVE  MachineInv'
BY StepType, StepLoopInTurn DEF MachineInv

LEMMA StepFits ==
  ASSUME LoopInTurn, TypeInv', [Next]_vars, StacksBounded
  PROVE  StacksBounded'
<1>1. CASE Ended
  BY <1>1 DEF Ended, Terminal, StacksBounded
<1>2. CASE Silent
  BY <1>2 DEF Silent, InTurn, AtEnd, StacksBounded, Fits
<1>3. CASE Recorded
  <2> SUFFICES ASSUME status' # "raised" PROVE Fits(stack, altstack)'
    BY DEF StacksBounded
  <2>1. ~TooDeep(stack', altstack')
    BY <1>3, SucceededForm DEF Succeeded
  <2>2. Len(stack') \in Nat /\ Len(altstack') \in Nat /\ MAX_STACK_SIZE \in Nat
    BY LenProperties, LimitsAssumption DEF TypeInv, TypeOK
  <2>. QED BY <2>1, <2>2 DEF TooDeep, Fits
<1>. QED BY <1>1, <1>2, <1>3, StepRecords

\* Between operations the two stacks together never hold more items than the
\* limit, whichever operations the script is made of.
THEOREM StackLimit ==
  ASSUME DigestsAreItems
  PROVE  Spec => []StacksBounded
<1>1. Init => StacksBounded
  BY DEF Init, Begin, StacksBounded, Fits
<1>2. MachineInv /\ StacksBounded /\ [Next]_vars => MachineInv' /\ StacksBounded'
  BY StepMachine, StepFits DEF MachineInv
<1>. QED BY <1>1, <1>2, InitMachine, PTL DEF Spec
------------------------------------------------------------------------------
(* Skipped operations.                                                     *)

\* Inside a branch that is not taken no operation, of whatever kind, moves an
\* item or touches the code separator or the signature budget.
THEOREM SkippedMovesNothing == Spec => SkippedIsInert
<1>1. ASSUME [Next]_vars, AtOp, ~Executing
      PROVE  UNCHANGED <<stack, altstack, codeVars>>
  <2>1. CASE UNCHANGED vars
    BY <2>1 DEF vars, evalVars, runVars
  <2>2. CASE Next
    <3>1. CASE \/ RejectScriptSize \/ RejectTruncated \/ BeginLoop \/ EndUnbalanced
               \/ EndReturn
      BY <3>1 DEF RejectScriptSize, RejectTruncated, BeginLoop, EndUnbalanced, EndReturn,
                  Terminal
    <3>2. CASE RejectOp \/ BadOpcode \/ SkipOp \/ SkippedIf \/ OpElse \/ OpEndIf
      BY <3>2 DEF RejectOp, BadOpcode, SkipOp, SkippedIf, OpElse, OpEndIf, Raise, Leave,
                  Plain, Finish
    <3>3. CASE MultisigLoop \/ RaiseInMultisig \/ NullFailMultisig \/ EndMultisig
      BY <1>1, <3>3 DEF AtOp, MultisigLoop, RaiseInMultisig, NullFailMultisig, EndMultisig,
                        LoopStep, Compare, RefusePair, LeaveLoop, InLoop
    <3>. QED BY <1>1, <2>2, <3>1, <3>2, <3>3
           DEF Next, Underflow, BadNumber, OpPush, OpSmallInt, OpIf, OpVerify, OpReturn,
               OpNop, OpUpgradableNop, OpToAltStack, OpFromAltStack, OpShuffle, OpIfDup,
               OpDepth, OpSize, OpPickRoll, OpEqual, OpUnary, OpBinary, OpWithin, OpHash,
               OpCodeSeparator, OpCheckSig, OpTapscriptCheckSig, OpCheckSigAdd,
               EscapeSchnorr, RefuseMultisig, BeginMultisig, OpCheckLockTimeVerify,
               OpCheckSequenceVerify, Runs, Executes
  <2>. QED BY <1>1, <2>1, <2>2
<1>. QED BY <1>1, PTL DEF Spec, SkippedIsInert
------------------------------------------------------------------------------
(* Counting openings and closings in the script text.                      *)

\* How many of the first i positions lie in Q: one more position adds at most
\* one, and only if it lies in Q itself.
LEMMA CountStep ==
  ASSUME NEW Q, NEW i \in Nat
  PROVE  /\ Cardinality({k \in 1..i : k \in Q}) \in Nat
         /\ Cardinality({k \in 1..(i + 1) : k \in Q})
              = Cardinality({k \in 1..i : k \in Q}) + IF i + 1 \in Q THEN 1 ELSE 0
<1> DEFINE A == {k \in 1..i : k \in Q}
           B == {k \in 1..(i + 1) : k \in Q}
<1>1. IsFiniteSet(1..i)
  BY FS_Interval
<1>2. IsFiniteSet(A)
  <2>1. A \in SUBSET (1..i)
    OBVIOUS
  <2>. QED BY <1>1, <2>1, FS_Subset
<1>3. Cardinality(A) \in Nat
  BY <1>2, FS_CardinalityType
<1>4. i + 1 \notin A
  OBVIOUS
<1>5. CASE i + 1 \in Q
  <2>1. B = A \cup {i + 1}
    BY <1>5
  <2>2. Cardinality(A \cup {i + 1}) = Cardinality(A) + 1
    BY <1>2, <1>4, FS_AddElement
  <2>. QED BY <1>3, <1>5, <2>1, <2>2
<1>6. CASE i + 1 \notin Q
  <2>1. B = A
    BY <1>6
  <2>. QED BY <1>3, <1>6, <2>1
<1>. QED BY <1>5, <1>6

LEMMA CountNone == ASSUME NEW Q PROVE Cardinality({k \in 1..0 : k \in Q}) = 0
<1>1. {k \in 1..0 : k \in Q} = {}
  OBVIOUS
<1>. QED BY <1>1, FS_EmptySet

\* The operations that open or close a conditional, as positions.
Openers == {k \in 1..Len(Ops) : Ops[k].opcode \in Opened}
Closers == {k \in 1..Len(Ops) : Ops[k].opcode = OP_ENDIF}

LEMMA OpensCloses ==
  ASSUME Len(Ops) \in Nat, NEW i \in 0..Len(Ops)
  PROVE  /\ Opens(i) = Cardinality({k \in 1..i : k \in Openers})
         /\ Closes(i) = Cardinality({k \in 1..i : k \in Closers})
         /\ Opens(i) \in Nat /\ Closes(i) \in Nat
<1>0. /\ Cardinality({k \in 1..i : k \in Openers}) \in Nat
      /\ Cardinality({k \in 1..i : k \in Closers}) \in Nat
  <2>1. i \in Nat
    OBVIOUS
  <2>. QED BY <2>1, CountStep
<1>1. {k \in 1..i : Ops[k].opcode \in Opened} = {k \in 1..i : k \in Openers}
  BY DEF Openers
<1>2. {k \in 1..i : Ops[k].opcode = OP_ENDIF} = {k \in 1..i : k \in Closers}
  BY DEF Closers
<1>. QED BY <1>0, <1>1, <1>2 DEF Opens, Closes

LEMMA NextCount ==
  ASSUME Len(Ops) \in Nat, NEW i \in Nat, i < Len(Ops)
  PROVE  /\ Opens(i) \in Nat /\ Closes(i) \in Nat
         /\ Opens(i + 1) = Opens(i) + IF Ops[i + 1].opcode \in Opened THEN 1 ELSE 0
         /\ Closes(i + 1) = Closes(i) + IF Ops[i + 1].opcode = OP_ENDIF THEN 1 ELSE 0
<1>1. i \in 0..Len(Ops) /\ i + 1 \in 0..Len(Ops) /\ i + 1 \in 1..Len(Ops)
  OBVIOUS
<1>2. i + 1 \in Openers <=> Ops[i + 1].opcode \in Opened
  BY <1>1 DEF Openers
<1>3. i + 1 \in Closers <=> Ops[i + 1].opcode = OP_ENDIF
  BY <1>1 DEF Closers
<1>4. /\ Cardinality({k \in 1..i : k \in Openers}) \in Nat
      /\ Cardinality({k \in 1..(i + 1) : k \in Openers})
           = Cardinality({k \in 1..i : k \in Openers}) + IF i + 1 \in Openers THEN 1 ELSE 0
  BY CountStep
<1>5. /\ Cardinality({k \in 1..i : k \in Closers}) \in Nat
      /\ Cardinality({k \in 1..(i + 1) : k \in Closers})
           = Cardinality({k \in 1..i : k \in Closers}) + IF i + 1 \in Closers THEN 1 ELSE 0
  BY CountStep
<1>6. /\ Opens(i) = Cardinality({k \in 1..i : k \in Openers})
      /\ Closes(i) = Cardinality({k \in 1..i : k \in Closers})
      /\ Opens(i + 1) = Cardinality({k \in 1..(i + 1) : k \in Openers})
      /\ Closes(i + 1) = Cardinality({k \in 1..(i + 1) : k \in Closers})
  BY <1>1, OpensCloses
<1>. QED BY <1>2, <1>3, <1>4, <1>5, <1>6
------------------------------------------------------------------------------
(* Conditionals.                                                           *)

\* The nesting invariant, inductive: the depth of exec_stack is that of the
\* text, and every OP_ELSE passed so far lay inside a conditional.
NestingInv ==
  /\ status # "raised" =>
       /\ Len(execStack) = Opens(pc) - Closes(pc)
       /\ \A i \in 0..pc : Closes(i) <= Opens(i)
       /\ \A i \in 1..pc : Ops[i].opcode = OP_ELSE => Closes(i) < Opens(i)
  /\ status = "returned" => pc = Len(Ops) /\ execStack = << >>

LEMMA InitNesting == ASSUME Init PROVE NestingInv
<1>1. Len(Ops) \in Nat
  BY InitType, InputType DEF TypeInv, TypeOK
<1>2. Opens(0) = 0 /\ Closes(0) = 0
  BY <1>1, OpensCloses, CountNone
<1>. QED BY <1>2 DEF Init, Begin, NestingInv

LEMMA TurnNesting ==
  ASSUME MachineInv, NestingInv, Succeeded
  PROVE  NestingInv'
<1>1. /\ Len(Ops) \in Nat /\ pc \in Nat /\ pc < Len(Ops)
      /\ execStack \in Seq(BOOLEAN) /\ Len(execStack) \in Nat
  BY InputType, LenProperties DEF MachineInv, TypeInv, TypeOK, Succeeded, Recorded, InTurn
<1>2. /\ Len(execStack) = Opens(pc) - Closes(pc)
      /\ \A i \in 0..pc : Closes(i) <= Opens(i)
      /\ \A i \in 1..pc : Ops[i].opcode = OP_ELSE => Closes(i) < Opens(i)
  BY DEF NestingInv, Succeeded, Recorded, InTurn
<1>3. /\ Opens(pc) \in Nat /\ Closes(pc) \in Nat
      /\ Opens(pc + 1) = Opens(pc) + IF Op \in Opened THEN 1 ELSE 0
      /\ Closes(pc + 1) = Closes(pc) + IF Op = OP_ENDIF THEN 1 ELSE 0
  BY <1>1, NextCount DEF Op, Ops
<1>4. Op = Ops[pc + 1].opcode
  BY DEF Op, Ops
<1>5. /\ Len(execStack') = Opens(pc + 1) - Closes(pc + 1)
      /\ Closes(pc + 1) <= Opens(pc + 1)
      /\ Op = OP_ELSE => Closes(pc + 1) < Opens(pc + 1)
  <2>1. NestedBy(execStack')
    BY SucceededNests DEF MachineInv
  <2>2. execStack # << >> => Len(execStack) \in Nat \ {0}
    BY <1>1, EmptySeq
  <2>3. CASE Op \in Opened
    <3>1. Op # OP_ENDIF /\ Op # OP_ELSE
      BY <2>3 DEF Opened, OP_IF, OP_NOTIF, OP_ENDIF, OP_ELSE
    <3>2. Len(execStack') = Len(execStack) + 1
      <4>1. PICK b \in BOOLEAN : execStack' = Append(execStack, b)
        BY <2>1, <2>3 DEF NestedBy
      <4>. QED BY <1>1, <4>1, AppendProperties
    <3>. QED BY <1>1, <1>2, <1>3, <2>3, <3>1, <3>2
  <2>4. CASE Op = OP_ENDIF
    <3>1. Op \notin Opened /\ Op # OP_ELSE
      BY <2>4 DEF Opened, OP_IF, OP_NOTIF, OP_ENDIF, OP_ELSE
    <3>2. execStack # << >> /\ Len(execStack') = Len(execStack) - 1
      BY <1>1, <2>1, <2>4, <3>1, FrontType DEF NestedBy
    <3>. QED BY <1>1, <1>2, <1>3, <2>2, <2>4, <3>1, <3>2
  <2>5. CASE Op = OP_ELSE
    <3>1. Op \notin Opened /\ Op # OP_ENDIF
      BY <2>5 DEF Opened, OP_IF, OP_NOTIF, OP_ENDIF, OP_ELSE
    <3>2. execStack # << >> /\ Len(execStack') = Len(execStack)
      <4> DEFINE n == Len(execStack)
                 x == [execStack EXCEPT ![n] = ~execStack[n]]
      <4>1. execStack # << >> /\ execStack' = x
        BY <2>1, <2>5, <3>1 DEF NestedBy
      <4>2. x \in Seq(BOOLEAN) /\ Len(x) = Len(execStack)
        BY <1>1, <2>2, <4>1, ExceptSeq
      <4>. QED BY <4>1, <4>2
    <3>. QED BY <1>1, <1>2, <1>3, <2>2, <2>5, <3>1, <3>2
  <2>6. CASE Op \notin Opened /\ Op # OP_ENDIF /\ Op # OP_ELSE
    <3>1. execStack' = execStack
      BY <2>1, <2>6 DEF NestedBy
    <3>. QED BY <1>1, <1>2, <1>3, <2>6, <3>1
  <2>. QED BY <2>3, <2>4, <2>5, <2>6
<1>6. Ops' = Ops /\ pc' = pc + 1 /\ status' = "running"
  BY SucceededForm DEF Ops
<1>7. \A i : Opens(i)' = Opens(i) /\ Closes(i)' = Closes(i)
  BY <1>6 DEF Opens, Closes
<1>8. \A i \in 0..(pc + 1) : Closes(i) <= Opens(i)
  <2>1. \A i \in 0..(pc + 1) : i \in 0..pc \/ i = pc + 1
    BY <1>1
  <2>. QED BY <1>2, <1>5, <2>1
<1>9. \A i \in 1..(pc + 1) : Ops[i].opcode = OP_ELSE => Closes(i) < Opens(i)
  <2>1. \A i \in 1..(pc + 1) : i \in 1..pc \/ i = pc + 1
    BY <1>1
  <2>. QED BY <1>2, <1>4, <1>5, <2>1
<1>. QED BY <1>5, <1>6, <1>7, <1>8, <1>9 DEF NestingInv

LEMMA StepNesting ==
  ASSUME MachineInv, NestingInv, [Next]_vars
  PROVE  NestingInv'
<1>1. CASE status' = "raised"
  BY <1>1 DEF NestingInv
<1>2. CASE Silent
  <2>1. Ops' = Ops /\ pc' = pc /\ execStack' = execStack
    BY <1>2 DEF Silent, Ops
  <2>2. \A i : Opens(i)' = Opens(i) /\ Closes(i)' = Closes(i)
    BY <2>1 DEF Opens, Closes
  <2>3. /\ status' # "raised" => status # "raised"
        /\ status' = "returned" =>
             status = "returned" \/ (pc = Len(Ops) /\ execStack = << >>)
    BY <1>2 DEF Silent, InTurn, AtEnd, Ops
  <2>. QED BY <2>1, <2>2, <2>3 DEF NestingInv
<1>3. CASE Succeeded
  BY <1>3, TurnNesting
<1>4. Ended => status' = "raised"
  BY DEF Ended, Terminal
<1>. QED BY <1>1, <1>2, <1>3, <1>4, StepRecords DEF MachineInv, Succeeded

LEMMA NestingHolds == ASSUME DigestsAreItems PROVE Spec => [](MachineInv /\ NestingInv)
<1>1. Init => MachineInv /\ NestingInv
  BY InitMachine, InitNesting
<1>2. MachineInv /\ NestingInv /\ [Next]_vars => MachineInv' /\ NestingInv'
  BY StepMachine, StepNesting
<1>. QED BY <1>1, <1>2, PTL DEF Spec

\* The nesting an evaluation keeps on exec_stack is the nesting of the script
\* text, in taken and skipped branches alike.
THEOREM NestingIsTextual ==
  ASSUME DigestsAreItems
  PROVE  Spec => []NestingFollowsScript
<1>1. NestingInv => NestingFollowsScript
  BY DEF NestingInv, NestingFollowsScript
<1>. QED BY <1>1, NestingHolds, PTL

\* No unbalanced script is ever accepted.
THEOREM OnlyBalancedAccepted ==
  ASSUME DigestsAreItems
  PROVE  Spec => []AcceptedBalanced
<1>1. MachineInv /\ NestingInv => AcceptedBalanced
  <2> SUFFICES ASSUME MachineInv, NestingInv, status = "returned"
               PROVE  /\ Opens(Len(Ops)) = Closes(Len(Ops))
                      /\ \A i \in 1..Len(Ops) :
                           Ops[i].opcode = OP_ELSE => Closes(i) < Opens(i)
    BY DEF AcceptedBalanced
  <2>1. pc = Len(Ops) /\ execStack = << >> /\ Len(execStack) = Opens(pc) - Closes(pc)
    BY DEF NestingInv
  <2>2. Len(Ops) \in Nat
    BY InputType DEF MachineInv, TypeInv, TypeOK
  <2>3. Opens(Len(Ops)) \in Nat /\ Closes(Len(Ops)) \in Nat
    <3>1. Len(Ops) \in 0..Len(Ops)
      BY <2>2
    <3>. QED BY <2>2, <3>1, OpensCloses
  <2>4. Opens(Len(Ops)) - Closes(Len(Ops)) = 0
    BY <2>1
  <2>5. Opens(Len(Ops)) = Closes(Len(Ops))
    BY <2>3, <2>4
  <2>. QED BY <2>1, <2>5 DEF NestingInv
<1>. QED BY <1>1, NestingHolds, PTL

------------------------------------------------------------------------------
(* One step for each operation.                                            *)

LEMMA AppendOne ==
  ASSUME NEW S, NEW s \in Seq(S), NEW e
  PROVE  /\ \E T : Append(s, e) \in Seq(T)
         /\ Len(s) \in Nat /\ Len(Append(s, e)) = Len(s) + 1
         /\ \A i \in 1..Len(s) : Append(s, e)[i] = s[i]
         /\ Append(s, e)[Len(s) + 1] = e
<1>1. s \in Seq(S \cup {e}) /\ e \in S \cup {e}
  BY SeqMonotonic
<1>. QED BY <1>1, LenProperties, AppendProperties

\* The trace so far: a step for each operation, in order, and at most one more,
\* at the end of an evaluation that raised; no other step has an error.
TraceInv ==
  /\ LoopInTurn
  /\ \E S : steps \in Seq(S)
  /\ pc \in Nat /\ pc <= Len(steps)
  /\ status # "raised" => error = "OK" /\ Len(steps) = pc
  /\ status = "raised" => error # "OK" /\ steps # << >> /\ steps[Len(steps)].error = error
  /\ status = "returned" => pc = Len(Ops)
  /\ \A i \in 1..Len(steps) :
       steps[i].error # "OK" => i = Len(steps) /\ status = "raised"
  /\ \A i \in 1..pc : steps[i].opIndex = i - 1 /\ steps[i].opcode = Ops[i].opcode

LEMMA InitTrace == Init => TraceInv
<1>1. << >> \in Seq({}) /\ Len(<< >>) = 0
  BY EmptySeq
<1>. QED BY <1>1 DEF Init, Begin, TraceInv, LoopInTurn

\* What the step of an operation says of it, whether it succeeded or not, and
\* that the steps before it stay as they are.
LEMMA RecordedStep ==
  ASSUME TraceInv, Recorded
  PROVE  /\ input' = input /\ Ops' = Ops /\ pc' = pc + 1 /\ pc \in Nat
         /\ \E S : steps' \in Seq(S)
         /\ Len(steps') = pc + 1 /\ \A i \in 1..pc : steps'[i] = steps[i]
         /\ status' = IF error' = "OK" THEN "running" ELSE "raised"
         /\ steps'[pc + 1].opIndex = pc /\ steps'[pc + 1].opcode = Op
         /\ steps'[pc + 1].executed = Executing
         /\ steps'[pc + 1].stack = stack' /\ steps'[pc + 1].altstack = altstack'
         /\ steps'[pc + 1].error = error'
         /\ steps'[pc + 1].delta =
              IF Executing /\ error' = "OK" THEN Delta(stack, stack') ELSE {}
         /\ \A s, a, x, n, sig, err :
              Finish(s, a, x, n, sig, err) => steps'[pc + 1].sigCheck = sig
<1>1. \A s, a, x, n, sig, err : Finish(s, a, x, n, sig, err) =>
        /\ steps' = Append(steps,
             [opIndex |-> pc, opcode |-> Op, executed |-> Executing,
              stack |-> stack', altstack |-> altstack', execStack |-> x, opCount |-> n,
              delta |-> IF Executing /\ error' = "OK" THEN Delta(stack, stack') ELSE {},
              sigCheck |-> sig, error |-> error'])
        /\ input' = input /\ pc' = pc + 1
        /\ status' = IF error' = "OK" THEN status ELSE "raised"
  BY DEF Finish
<1>2. PICK s, a, x, n, sig, err : Finish(s, a, x, n, sig, err)
  BY DEF Recorded
<1> DEFINE step == [opIndex |-> pc, opcode |-> Op, executed |-> Executing,
                    stack |-> stack', altstack |-> altstack', execStack |-> x, opCount |-> n,
                    delta |-> IF Executing /\ error' = "OK" THEN Delta(stack, stack') ELSE {},
                    sigCheck |-> sig, error |-> error']
<1>3. /\ steps' = Append(steps, step)
      /\ step.opIndex = pc /\ step.opcode = Op /\ step.executed = Executing
      /\ step.stack = stack' /\ step.altstack = altstack' /\ step.error = error'
      /\ step.delta = IF Executing /\ error' = "OK" THEN Delta(stack, stack') ELSE {}
  BY <1>1, <1>2
<1>4. /\ status = "running" /\ Len(steps) = pc /\ pc \in Nat
  BY DEF Recorded, InTurn, TraceInv
<1>5. PICK S : steps \in Seq(S)
  BY DEF TraceInv
<1>6. /\ \E T : steps' \in Seq(T)
      /\ Len(steps') = pc + 1 /\ \A i \in 1..pc : steps'[i] = steps[i]
      /\ steps'[pc + 1] = step
  <2>. HIDE DEF step
  <2>1. /\ \E T : Append(steps, step) \in Seq(T)
        /\ Len(Append(steps, step)) = Len(steps) + 1
        /\ \A i \in 1..Len(steps) : Append(steps, step)[i] = steps[i]
        /\ Append(steps, step)[Len(steps) + 1] = step
    BY <1>5, AppendOne, ZenonT(60)
  <2>. QED BY <1>3, <1>4, <2>1, Zenon
<1>7. ASSUME NEW s2, NEW a2, NEW x2, NEW n2, NEW sig2, NEW err2,
             Finish(s2, a2, x2, n2, sig2, err2)
      PROVE  steps'[pc + 1].sigCheck = sig2
  <2> DEFINE made == [opIndex |-> pc, opcode |-> Op, executed |-> Executing,
                      stack |-> stack', altstack |-> altstack', execStack |-> x2, opCount |-> n2,
                      delta |-> IF Executing /\ error' = "OK" THEN Delta(stack, stack') ELSE {},
                      sigCheck |-> sig2, error |-> error']
  <2>1. steps' = Append(steps, made)
    BY <1>1, <1>7
  <2>2. made.sigCheck = sig2
    OBVIOUS
  <2> HIDE DEF made, step
  <2>3. steps'[pc + 1] = made
    BY <1>4, <1>5, <2>1, AppendOne, ZenonT(60)
  <2>. QED BY <2>2, <2>3
<1>8. input' = input /\ pc' = pc + 1 /\ status' = IF error' = "OK" THEN "running" ELSE "raised"
  BY <1>1, <1>2, <1>4
<1>. QED BY <1>3, <1>4, <1>6, <1>7, <1>8 DEF Ops

LEMMA StepTrace ==
  ASSUME TraceInv, [Next]_vars
  PROVE  TraceInv'
<1>1. LoopInTurn'
  BY StepLoopInTurn DEF TraceInv
<1>2. PICK S : steps \in Seq(S)
  BY DEF TraceInv
<1>4. CASE Recorded
  <2>1. /\ Ops' = Ops /\ pc' = pc + 1 /\ pc \in Nat /\ Len(steps') = pc + 1
        /\ \E T : steps' \in Seq(T)
        /\ \A i \in 1..pc : steps'[i] = steps[i]
        /\ status' = IF error' = "OK" THEN "running" ELSE "raised"
        /\ steps'[pc + 1].opIndex = pc /\ steps'[pc + 1].opcode = Op
        /\ steps'[pc + 1].error = error'
    BY <1>4, RecordedStep
  <2>2. Op = Ops[pc + 1].opcode /\ Len(steps) = pc /\ status # "raised"
    BY <1>4 DEF Recorded, InTurn, TraceInv, Op, Ops
  <2>3. steps' # << >>
    BY <2>1, EmptySeq
  <2>4. \A i \in 1..Len(steps') : steps'[i].error # "OK" => i = Len(steps') /\ status' = "raised"
    BY <2>1, <2>2 DEF TraceInv
  <2>5. \A i \in 1..pc' : steps'[i].opIndex = i - 1 /\ steps'[i].opcode = Ops'[i].opcode
    BY <2>1, <2>2 DEF TraceInv
  <2>. QED BY <1>1, <2>1, <2>3, <2>4, <2>5 DEF TraceInv
<1>5. CASE Ended
  <2>1. PICK err : err # "OK" /\ Terminal(err)
    BY <1>5 DEF Ended
  <2> DEFINE step == [opIndex |-> Len(steps), opcode |-> OP_INVALIDOPCODE, executed |-> TRUE,
                      stack |-> << >>, altstack |-> << >>, execStack |-> << >>, opCount |-> 0,
                      delta |-> {}, sigCheck |-> {}, error |-> err]
  <2>2. /\ steps' = Append(steps, step) /\ error' = err /\ err # "OK" /\ pc' = pc
        /\ input' = input /\ status' = "raised"
    BY <2>1 DEF Terminal
  <2>3. step.error = err
    OBVIOUS
  <2>4. Len(steps) = pc /\ pc \in Nat /\ status # "raised"
    BY <1>5 DEF Ended, TraceInv
  <2> HIDE DEF step
  <2>5. /\ \E T : steps' \in Seq(T)
        /\ Len(steps') = pc + 1 /\ steps'[pc + 1] = step
        /\ \A i \in 1..pc : steps'[i] = steps[i]
    <3>1. /\ \E T : Append(steps, step) \in Seq(T)
          /\ Len(Append(steps, step)) = Len(steps) + 1
          /\ \A i \in 1..Len(steps) : Append(steps, step)[i] = steps[i]
          /\ Append(steps, step)[Len(steps) + 1] = step
      BY <1>2, AppendOne, ZenonT(60)
    <3>. QED BY <2>2, <2>4, <3>1, Zenon
  <2>6. steps' # << >>
    BY <2>4, <2>5, EmptySeq
  <2>7. Ops' = Ops
    BY <2>2 DEF Ops
  <2>8. \A i \in 1..Len(steps') : steps'[i].error # "OK" => i = Len(steps') /\ status' = "raised"
    BY <2>2, <2>4, <2>5 DEF TraceInv
  <2>9. \A i \in 1..pc' : steps'[i].opIndex = i - 1 /\ steps'[i].opcode = Ops'[i].opcode
    BY <2>2, <2>4, <2>5, <2>7 DEF TraceInv
  <2>. QED BY <1>1, <2>2, <2>3, <2>4, <2>5, <2>6, <2>8, <2>9 DEF TraceInv
<1>6. CASE Silent
  <2>1. steps' = steps /\ error' = error /\ pc' = pc /\ Ops' = Ops
    BY <1>6 DEF Silent, Ops
  <2>2. status' = status \/ (status # "raised" /\ status' \in {"running", "escaped"})
          \/ (status # "raised" /\ status' = "returned" /\ pc = Len(Ops))
    BY <1>6 DEF Silent, AtEnd, Ops
  <2>. QED BY <1>1, <2>1, <2>2 DEF TraceInv
<1>. QED BY <1>4, <1>5, <1>6, StepRecords DEF TraceInv

\* The trace of every evaluation has one step for each operation it processed,
\* and an error only in the last step of one that raised.
THEOREM TraceFollowsScript == Spec => []OneStepPerOp
<1>1. ASSUME TraceInv PROVE OneStepPerOp
  <2>1. PICK S : steps \in Seq(S)
    BY <1>1 DEF TraceInv
  <2>2. DOMAIN steps = 1..Len(steps) /\ Len(steps) \in Nat
    BY <2>1, LenProperties
  <2>3. \A i \in DOMAIN steps : i < Len(steps) => steps[i].error = "OK"
    <3>1. \A i \in 1..Len(steps) : steps[i].error # "OK" => i = Len(steps)
      BY <1>1, Zenon DEF TraceInv
    <3>2. \A n \in Nat : \A i \in 1..n : i < n => i # n
      OBVIOUS
    <3>. QED BY <2>2, <3>1, <3>2, Zenon
  <2>4. \A i \in OpSteps : steps[i].opIndex = i - 1 /\ steps[i].opcode = Ops[i].opcode
    BY <1>1 DEF TraceInv, OpSteps
  <2>. QED BY <1>1, <2>3, <2>4 DEF TraceInv, OneStepPerOp
<1>2. TraceInv /\ [Next]_vars => TraceInv'
  BY StepTrace
<1>. QED BY <1>1, <1>2, InitTrace, PTL DEF Spec
------------------------------------------------------------------------------
(* How an evaluation ends.                                                 *)

\* An evaluation has an error exactly when it raised, and what it returns with
\* is its stack.
Outcome ==
  /\ LoopInTurn
  /\ status = "raised" <=> error # "OK"
  /\ status = "returned" => finalStack = stack

LEMMA StepOutcome ==
  ASSUME Outcome, [Next]_vars
  PROVE  Outcome'
<1>1. LoopInTurn'
  BY StepLoopInTurn DEF Outcome
<1>2. CASE Recorded
  <2>1. PICK s, a, x, n, sig, err : Finish(s, a, x, n, sig, err)
    BY <1>2 DEF Recorded
  <2>2. status = "running"
    BY <1>2 DEF Recorded, InTurn
  <2>. QED BY <1>1, <2>1, <2>2 DEF Finish, Outcome
<1>3. CASE Ended
  BY <1>1, <1>3 DEF Ended, Terminal, Outcome
<1>4. CASE Silent
  BY <1>1, <1>4 DEF Silent, InTurn, AtEnd, Outcome
<1>. QED BY <1>2, <1>3, <1>4, StepRecords DEF Outcome
------------------------------------------------------------------------------
(* What signatures sign.                                                   *)

\* The code separator is one that was executed, and none was executed later.
SeparatorInv ==
  status # "raised" =>
    /\ codesep \in Separators(pc) \cup {0}
    /\ \A m \in Separators(pc) : m <= codesep
    /\ codesepPos = IF Tapscript /\ codesep > 0 THEN codesep - 1 ELSE NO_POS

LEMMA StepSeparator ==
  ASSUME TraceInv, SeparatorInv, [Next]_vars
  PROVE  SeparatorInv'
<1>1. CASE Succeeded
  <2>3. pc \in Nat /\ Len(steps) = pc /\ status # "raised"
    BY <1>1 DEF Succeeded, Recorded, InTurn, TraceInv
  <2>5. /\ pc' = pc + 1 /\ input' = input
        /\ steps'[pc + 1].executed = Executing
        /\ \A i \in 1..pc : steps'[i] = steps[i]
    BY <1>1, RecordedStep DEF Succeeded
  <2>6. Op = Ops[pc + 1].opcode /\ Ops' = Ops /\ Tapscript' = Tapscript
    BY <2>5 DEF Op, Ops, Tapscript
  <2>7. Separators(pc)' = Separators(pc)
                            \cup IF Op = OP_CODESEPARATOR /\ Executing THEN {pc + 1} ELSE {}
    <3>1. \A k \in 1..(pc + 1) : k \in 1..pc \/ k = pc + 1
      BY <2>3
    <3>2. \A k \in 1..pc : k \in 1..(pc + 1)
      BY <2>3
    <3>3. pc + 1 \in 1..(pc + 1)
      BY <2>3
    <3>. QED BY <2>5, <2>6, <3>1, <3>2, <3>3 DEF Separators
  <2>8. Separators(pc) \subseteq 1..pc
    BY DEF Separators
  <2>9. IF Op = OP_CODESEPARATOR /\ Executing
          THEN codesep' = pc + 1 /\ codesepPos' = IF Tapscript THEN pc ELSE codesepPos
          ELSE UNCHANGED <<codesep, codesepPos>>
    BY <1>1, SucceededSpecial, SucceededKeeps DEF TraceInv, OpCodeSeparator
  <2>10. CASE Op = OP_CODESEPARATOR /\ Executing
    BY <2>3, <2>5, <2>6, <2>7, <2>8, <2>9, <2>10 DEF SeparatorInv, NO_POS
  <2>11. CASE ~(Op = OP_CODESEPARATOR /\ Executing)
    BY <2>3, <2>5, <2>6, <2>7, <2>8, <2>9, <2>11 DEF SeparatorInv
  <2>. QED BY <2>10, <2>11
<1>2. CASE Ended
  BY <1>2 DEF Ended, Terminal, SeparatorInv
<1>3. CASE Silent
  <2>1. UNCHANGED <<input, pc, steps, codesep, codesepPos>>
    BY <1>3 DEF Silent
  <2>2. status = "raised" => status' = "raised"
    BY <1>3 DEF Silent, InTurn, AtEnd
  <2>. QED BY <2>1, <2>2 DEF SeparatorInv, Separators, Ops, Tapscript
<1>4. status' = "raised" => SeparatorInv'
  BY DEF SeparatorInv
<1>. QED BY <1>1, <1>2, <1>3, <1>4, StepRecords DEF TraceInv, Succeeded

LEMMA InitSeparator == Init => SeparatorInv
BY DEF Init, Begin, SeparatorInv, Separators, NO_POS

LEMMA SeparatorMeans ==
  ASSUME TraceInv, SeparatorInv
  PROVE  SeparatorIsLastExecuted
<1> SUFFICES ASSUME status # "raised"
             PROVE  /\ codesep = LastSeparator(pc)
                    /\ codesepPos = IF Tapscript /\ codesep > 0 THEN codesep - 1 ELSE NO_POS
  BY DEF SeparatorIsLastExecuted
<1>1. Separators(pc) \subseteq 1..pc /\ pc \in Nat
  BY DEF Separators, TraceInv
<1>2. \A m \in Separators(pc) : m >= 1 /\ m \in Nat
  BY <1>1
<1>3. codesep = LastSeparator(pc)
  <2>1. CASE Separators(pc) = {}
    BY <2>1 DEF SeparatorInv, LastSeparator
  <2>2. CASE Separators(pc) # {}
    <3>1. codesep \in Separators(pc) /\ \A m \in Separators(pc) : m <= codesep
      BY <1>2, <2>2 DEF SeparatorInv
    <3>2. \A k \in Separators(pc) : (\A m \in Separators(pc) : m <= k) => k = codesep
      BY <1>2, <3>1
    <3>. QED BY <2>2, <3>1, <3>2 DEF LastSeparator
  <2>. QED BY <2>1, <2>2
<1>. QED BY <1>3 DEF SeparatorInv

\* A signature check always signs from the last separator that was executed,
\* whatever branches were taken before it.
THEOREM SignsAfterLastSeparator == Spec => []SeparatorIsLastExecuted
<1>1. TraceInv /\ SeparatorInv => SeparatorIsLastExecuted
  BY SeparatorMeans
<1>2. TraceInv /\ SeparatorInv /\ [Next]_vars => TraceInv' /\ SeparatorInv'
  BY StepTrace, StepSeparator
<1>. QED BY <1>1, <1>2, InitTrace, InitSeparator, PTL DEF Spec
------------------------------------------------------------------------------
(* The trace as a history.                                                 *)

\* The stacks of the machine are the ones the next operation starts from.
HistoryInv ==
  status # "raised" => stack = Before(pc + 1) /\ altstack = AltBefore(pc + 1)

LEMMA InitHistory == Init => HistoryInv
BY DEF Init, Begin, HistoryInv, Before, AltBefore

\* What a reader of the trace has seen stays as it was.
LEMMA PastKept ==
  ASSUME TraceInv, [Next]_vars
  PROVE  /\ input' = input /\ Ops' = Ops /\ pc \in Nat
         /\ pc' = pc \/ (Recorded /\ pc' = pc + 1)
         /\ \A i \in 1..pc : steps'[i] = steps[i]
         /\ \A i \in 1..(pc + 1) : Before(i)' = Before(i) /\ AltBefore(i)' = AltBefore(i)
         /\ \A i \in 0..pc : Separators(i)' = Separators(i)
         /\ \A i \in 0..pc : LastSeparator(i)' = LastSeparator(i)
<1>1. /\ pc \in Nat /\ LoopInTurn /\ (\E S : steps \in Seq(S))
      /\ status # "raised" => Len(steps) = pc
  BY DEF TraceInv
<1>2. /\ input' = input
      /\ pc' = pc \/ (Recorded /\ pc' = pc + 1)
      /\ \A i \in 1..pc : steps'[i] = steps[i]
  <2>1. CASE Recorded
    BY <2>1, RecordedStep
  <2>2. CASE Ended
    BY <1>1, <2>2, AppendOne DEF Ended, Terminal
  <2>3. CASE Silent
    BY <2>3 DEF Silent
  <2>. QED BY <1>1, <2>1, <2>2, <2>3, StepRecords
<1>3. Ops' = Ops
  BY <1>2 DEF Ops
<1>4. \A i \in 1..(pc + 1) : Before(i)' = Before(i) /\ AltBefore(i)' = AltBefore(i)
  <2>1. \A i \in 1..(pc + 1) : i # 1 => i - 1 \in 1..pc
    BY <1>1
  <2>. QED BY <1>2, <2>1 DEF Before, AltBefore
<1>5. \A i \in 0..pc : Separators(i)' = Separators(i)
  <2>1. \A i \in 0..pc : \A k \in 1..i : k \in 1..pc
    BY <1>1
  <2>. QED BY <1>2, <1>3, <2>1 DEF Separators
<1>6. \A i \in 0..pc : LastSeparator(i)' = LastSeparator(i)
  <2> SUFFICES ASSUME NEW i \in 0..pc PROVE LastSeparator(i)' = LastSeparator(i)
    OBVIOUS
  <2>1. Separators(i)' = Separators(i)
    BY <1>5
  <2>. QED BY <2>1 DEF LastSeparator
<1>. QED BY <1>1, <1>2, <1>3, <1>4, <1>5, <1>6

LEMMA StepHistory ==
  ASSUME TraceInv, HistoryInv, [Next]_vars
  PROVE  HistoryInv'
<1>1. CASE Recorded
  <2>1. /\ pc' = pc + 1 /\ pc \in Nat
        /\ steps'[pc + 1].stack = stack' /\ steps'[pc + 1].altstack = altstack'
    BY <1>1, RecordedStep
  <2>2. pc' + 1 # 1 /\ pc' + 1 - 1 = pc + 1
    BY <2>1
  <2>. QED BY <2>1, <2>2 DEF HistoryInv, Before, AltBefore
<1>2. CASE Ended
  BY <1>2 DEF Ended, Terminal, HistoryInv
<1>3. CASE Silent
  <2>1. UNCHANGED <<input, pc, steps, stack, altstack>>
    BY <1>3 DEF Silent
  <2>2. status' # "raised" => status # "raised"
    BY <1>3 DEF Silent, InTurn, AtEnd
  <2>. QED BY <2>1, <2>2 DEF HistoryInv, Before, AltBefore
<1>. QED BY <1>1, <1>2, <1>3, StepRecords DEF TraceInv
------------------------------------------------------------------------------
(* Branches.                                                               *)

\* exec_stack holds, for every conditional that is open, the branch of it the
\* next operation is in, at the place the nesting of the text gives it; and it
\* holds nothing else.
BranchInv ==
  status # "raised" =>
    /\ \A k \in 1..pc : OpenAt(k, pc + 1) =>
         /\ Depth(k) \in 1..Len(execStack)
         /\ execStack[Depth(k)] = InTakenBranch(k, pc + 1)
    /\ \A d \in 1..Len(execStack) : \E k \in 1..pc : OpenAt(k, pc + 1) /\ Depth(k) = d

LEMMA DepthStep ==
  ASSUME Len(Ops) \in Nat, NEW i \in Nat, i < Len(Ops)
  PROVE  /\ Depth(i) \in Int
         /\ Depth(i + 1) = Depth(i) + (IF Ops[i + 1].opcode \in Opened THEN 1
                                       ELSE IF Ops[i + 1].opcode = OP_ENDIF THEN -1 ELSE 0)
<1>1. Ops[i + 1].opcode \in Opened => Ops[i + 1].opcode # OP_ENDIF
  BY DEF Opened, OP_IF, OP_NOTIF, OP_ENDIF
<1>. QED BY <1>1, NextCount DEF Depth

LEMMA DepthType ==
  ASSUME Len(Ops) \in Nat, NEW i \in 0..Len(Ops)
  PROVE  Depth(i) \in Int
<1>1. Opens(i) \in Nat /\ Closes(i) \in Nat
  BY OpensCloses
<1>. QED BY <1>1 DEF Depth

LEMMA ElsesStep ==
  ASSUME NEW k \in Nat, NEW i \in Nat, k <= i
  PROVE  /\ Elses(k, i + 1) \in Nat
         /\ Elses(k, i + 2) = Elses(k, i + 1)
              + IF Ops[i + 1].opcode = OP_ELSE /\ Depth(i + 1) = Depth(k) THEN 1 ELSE 0
<1> DEFINE Q == {m \in Nat : m > k /\ Ops[m].opcode = OP_ELSE /\ Depth(m) = Depth(k)}
<1>1. i + 1 - 1 = i /\ i + 2 - 1 = i + 1
  OBVIOUS
<1>2. {m \in (k + 1)..i : Ops[m].opcode = OP_ELSE /\ Depth(m) = Depth(k)}
        = {m \in 1..i : m \in Q}
  OBVIOUS
<1>3. {m \in (k + 1)..(i + 1) : Ops[m].opcode = OP_ELSE /\ Depth(m) = Depth(k)}
        = {m \in 1..(i + 1) : m \in Q}
  OBVIOUS
<1>4. i + 1 \in Q <=> Ops[i + 1].opcode = OP_ELSE /\ Depth(i + 1) = Depth(k)
  OBVIOUS
<1>. HIDE DEF Q
<1>. QED BY <1>1, <1>2, <1>3, <1>4, CountStep DEF Elses

LEMMA ElsesNone ==
  ASSUME NEW k \in Nat
  PROVE  Elses(k, k + 1) = 0
<1>1. {m \in (k + 1)..(k + 1 - 1) : Ops[m].opcode = OP_ELSE /\ Depth(m) = Depth(k)} = {}
  OBVIOUS
<1>. QED BY <1>1, FS_EmptySet DEF Elses

LEMMA Flips == \A n \in Nat : ((n + 1) % 2 = 1) = ~(n % 2 = 1)
OBVIOUS

\* A conditional passed earlier is still open after an operation unless the
\* operation closed it, and only its own OP_ELSE changes its branch.
LEMMA OpenKept ==
  ASSUME Len(Ops) \in Nat, NEW i \in Nat, NEW k \in 1..i
  PROVE  /\ OpenAt(k, i + 2) <=> OpenAt(k, i + 1) /\ Depth(i + 1) >= Depth(k)
         /\ ~(Ops[i + 1].opcode = OP_ELSE /\ Depth(i + 1) = Depth(k)) =>
              InTakenBranch(k, i + 2) = InTakenBranch(k, i + 1)
         /\ Ops[i + 1].opcode = OP_ELSE /\ Depth(i + 1) = Depth(k) =>
              InTakenBranch(k, i + 2) = ~InTakenBranch(k, i + 1)
<1>1. i + 1 - 1 = i /\ i + 2 - 1 = i + 1 /\ k \in Nat /\ k <= i
  OBVIOUS
<1>2. \A m : m \in k..(i + 1) <=> m \in k..i \/ m = i + 1
  BY <1>1
<1>3. OpenAt(k, i + 2) <=> OpenAt(k, i + 1) /\ Depth(i + 1) >= Depth(k)
  BY <1>1, <1>2 DEF OpenAt
<1>4. /\ Elses(k, i + 1) \in Nat
      /\ Elses(k, i + 2) = Elses(k, i + 1)
           + IF Ops[i + 1].opcode = OP_ELSE /\ Depth(i + 1) = Depth(k) THEN 1 ELSE 0
  BY <1>1, ElsesStep
<1>5. Condition(k) \in BOOLEAN
  BY DEF Condition
<1>. QED BY <1>3, <1>4, <1>5, Flips DEF InTakenBranch

\* An operation that opens a conditional puts the next one into its branch.
LEMMA OpenNew ==
  ASSUME NEW k \in Nat
  PROVE  /\ OpenAt(k, k + 1) <=> Ops[k].opcode \in Opened /\ Depth(k) >= Depth(k)
         /\ InTakenBranch(k, k + 1) = Condition(k)
<1>1. \A m : m \in k..(k + 1 - 1) <=> m = k
  OBVIOUS
<1>2. OpenAt(k, k + 1) <=> Ops[k].opcode \in Opened /\ Depth(k) >= Depth(k)
  BY <1>1 DEF OpenAt
<1>3. Elses(k, k + 1) = 0 /\ 0 % 2 # 1
  BY ElsesNone
<1>4. Condition(k) \in BOOLEAN
  BY DEF Condition
<1>. QED BY <1>2, <1>3, <1>4 DEF InTakenBranch

\* What the machine knows between two steps.
Between == MachineInv /\ NestingInv /\ TraceInv /\ HistoryInv

\* What is known of the conditionals passed so far stays as it was.
LEMMA BranchesKept ==
  ASSUME TraceInv, [Next]_vars
  PROVE  /\ \A k, i : OpenAt(k, i)' = OpenAt(k, i) /\ Depth(k)' = Depth(k)
         /\ \A k, i : Elses(k, i)' = Elses(k, i)
         /\ \A k \in 1..pc : \A i : InTakenBranch(k, i)' = InTakenBranch(k, i)
<1>1. /\ input' = input /\ Ops' = Ops /\ pc \in Nat
      /\ \A i \in 1..pc : steps'[i] = steps[i]
      /\ \A i \in 1..(pc + 1) : Before(i)' = Before(i)
  BY PastKept
<1>2. \A i : Depth(i)' = Depth(i)
  BY <1>1 DEF Depth, Opens, Closes
<1>3. \A k, i : OpenAt(k, i)' = OpenAt(k, i)
  BY <1>1, <1>2 DEF OpenAt
<1>4. \A k, i : Elses(k, i)' = Elses(k, i)
  BY <1>1, <1>2 DEF Elses
<1>5. \A k \in 1..pc : Condition(k)' = Condition(k)
  <2>1. \A k \in 1..pc : k \in 1..(pc + 1)
    BY <1>1
  <2>. QED BY <1>1, <2>1 DEF Condition
<1>6. \A k \in 1..pc : \A i : InTakenBranch(k, i)' = InTakenBranch(k, i)
  BY <1>4, <1>5 DEF InTakenBranch
<1>. QED BY <1>2, <1>3, <1>4, <1>6

\* The branch an operation puts the next one into.
LEMMA NewBranch ==
  ASSUME Between, [Next]_vars, Succeeded, NEW k, k = pc + 1
  PROVE  InTakenBranch(k, k + 1)' = (Executing /\ (cast_to_bool(Top(1)) # (Op = OP_NOTIF)))
<1>1. /\ Ops' = Ops /\ pc \in Nat
      /\ Before(k)' = Before(k)
      /\ steps'[k].executed = Executing
  BY PastKept, RecordedStep DEF Between, Succeeded
<1>2. status # "raised" /\ k \in Nat
  BY <1>1 DEF Succeeded, Recorded, InTurn
<1>3. Before(k)' = stack
  BY <1>1, <1>2 DEF Between, HistoryInv
<1>4. Ops'[k].opcode = Op
  BY <1>1 DEF Op, Ops
<1>5. Condition(k)' = (Executing /\ (cast_to_bool(Top(1)) # (Op = OP_NOTIF)))
  BY <1>1, <1>3, <1>4 DEF Condition, FromTop, Top
<1>6. Elses(k, k + 1)' = 0 /\ 0 % 2 # 1
  BY <1>2, BranchesKept, ElsesNone DEF Between
<1>7. InTakenBranch(k, k + 1)' = (Condition(k)' # (Elses(k, k + 1)' % 2 = 1))
  BY DEF InTakenBranch
<1>. QED BY <1>5, <1>6, <1>7

LEMMA SucceededBranches ==
  ASSUME Between, BranchInv, [Next]_vars, Succeeded
  PROVE  BranchInv'
<1> DEFINE n == Len(execStack)
<1>1. /\ pc \in Nat /\ Len(Ops) \in Nat /\ pc < Len(Ops) /\ pc' = pc + 1
      /\ execStack \in Seq(BOOLEAN) /\ n \in Nat /\ status # "raised"
      /\ n = Depth(pc)
  <2>1. Len(Ops) \in Nat /\ execStack \in Seq(BOOLEAN)
    BY InputType DEF Between, MachineInv, TypeInv, TypeOK
  <2>2. pc < Len(Ops) /\ status # "raised"
    BY DEF Succeeded, Recorded, InTurn
  <2>3. pc \in Nat /\ pc' = pc + 1
    BY SucceededForm DEF Between, TraceInv
  <2>. QED BY <2>1, <2>2, <2>3, LenProperties DEF Between, NestingInv, Depth
<1>2. /\ \A k \in 1..pc : OpenAt(k, pc + 1) =>
           Depth(k) \in 1..n /\ execStack[Depth(k)] = InTakenBranch(k, pc + 1)
      /\ \A d \in 1..n : \E k \in 1..pc : OpenAt(k, pc + 1) /\ Depth(k) = d
  BY <1>1 DEF BranchInv
<1>3. \A k \in 1..pc :
        /\ OpenAt(k, pc + 2) <=> OpenAt(k, pc + 1) /\ Depth(pc + 1) >= Depth(k)
        /\ ~(Op = OP_ELSE /\ Depth(pc + 1) = Depth(k)) =>
             InTakenBranch(k, pc + 2) = InTakenBranch(k, pc + 1)
        /\ Op = OP_ELSE /\ Depth(pc + 1) = Depth(k) =>
             InTakenBranch(k, pc + 2) = ~InTakenBranch(k, pc + 1)
  BY <1>1, OpenKept DEF Op, Ops
<1>4. Depth(pc + 1) = n + (IF Op \in Opened THEN 1 ELSE IF Op = OP_ENDIF THEN -1 ELSE 0)
  BY <1>1, DepthStep DEF Op, Ops
<1>5. OpenAt(pc + 1, pc + 2) <=> Op \in Opened
  <2>1. pc + 1 \in Nat /\ pc + 2 = pc + 1 + 1 /\ Depth(pc + 1) >= Depth(pc + 1)
    BY <1>1, <1>4
  <2>. QED BY <2>1, OpenNew DEF Op, Ops
<1>6. NestedBy(execStack')
  BY SucceededNests DEF Between, MachineInv
<1>7. \A k \in 1..(pc + 1) : k \in 1..pc \/ k = pc + 1
  BY <1>1
<1>8. \A k \in 1..pc : k \in 1..(pc + 1)
  BY <1>1
<1>9. pc + 1 \in 1..(pc + 1)
  BY <1>1
<1> DEFINE Taken(k) == IF k = pc + 1 THEN Executing /\ (cast_to_bool(Top(1)) # (Op = OP_NOTIF))
                       ELSE InTakenBranch(k, pc + 2)
<1> HIDE DEF n
<1>10. /\ \A k \in 1..(pc + 1) : OpenAt(k, pc + 2) =>
            Depth(k) \in 1..Len(execStack') /\ execStack'[Depth(k)] = Taken(k)
       /\ \A d \in 1..Len(execStack') : \E k \in 1..(pc + 1) : OpenAt(k, pc + 2) /\ Depth(k) = d
  <2>0. \A k \in 1..pc : k # pc + 1
    BY <1>1
  <2>1. CASE Op \in Opened
    <3>1. PICK c \in BOOLEAN : execStack' = Append(execStack, c) /\ c = Taken(pc + 1)
      BY <1>6, <2>1 DEF NestedBy
    <3>2. /\ Len(execStack') = n + 1 /\ execStack'[n + 1] = c
          /\ \A i \in 1..n : execStack'[i] = execStack[i]
      BY <1>1, <3>1, AppendProperties DEF n
    <3>3. Op # OP_ELSE /\ Depth(pc + 1) = n + 1
      BY <1>4, <2>1 DEF Opened, OP_IF, OP_NOTIF, OP_ELSE
    <3>4. \A i \in 1..n : i \in 1..(n + 1) /\ n + 1 >= i
      BY <1>1
    <3>5. n + 1 \in 1..(n + 1) /\ \A d \in 1..(n + 1) : d \in 1..n \/ d = n + 1
      BY <1>1
    <3>6. ASSUME NEW k \in 1..(pc + 1), OpenAt(k, pc + 2)
          PROVE  Depth(k) \in 1..Len(execStack') /\ execStack'[Depth(k)] = Taken(k)
      <4>1. CASE k = pc + 1
        BY <3>1, <3>2, <3>3, <3>5, <4>1
      <4>2. CASE k \in 1..pc
        <5>1. Depth(k) \in 1..n /\ execStack[Depth(k)] = InTakenBranch(k, pc + 1)
          BY <1>2, <1>3, <3>6, <4>2
        <5>2. Taken(k) = InTakenBranch(k, pc + 1)
          BY <1>3, <2>0, <3>3, <4>2
        <5>. QED BY <3>2, <3>4, <5>1, <5>2
      <4>. QED BY <1>7, <4>1, <4>2
    <3>7. ASSUME NEW d \in 1..(n + 1)
          PROVE  \E k \in 1..(pc + 1) : OpenAt(k, pc + 2) /\ Depth(k) = d
      <4>1. CASE d = n + 1
        BY <1>5, <1>9, <2>1, <3>3, <4>1
      <4>2. CASE d \in 1..n
        BY <1>2, <1>3, <1>8, <3>3, <3>4, <4>2
      <4>. QED BY <3>5, <4>1, <4>2
    <3>. QED BY <3>2, <3>6, <3>7
  <2>2. CASE Op = OP_ENDIF
    <3>1. Op \notin Opened /\ Op # OP_ELSE
      BY <2>2 DEF Opened, OP_IF, OP_NOTIF, OP_ENDIF, OP_ELSE
    <3>2. execStack # << >> /\ execStack' = Front(execStack)
      BY <1>6, <2>2, <3>1 DEF NestedBy
    <3>3. n \in Nat \ {0} /\ Len(execStack') = n - 1
          /\ \A i \in 1..(n - 1) : execStack'[i] = execStack[i]
      <4>1. n \in Nat \ {0}
        BY <1>1, <3>2, EmptySeq DEF n
      <4>2. 1 \in 0..n
        BY <4>1
      <4>. QED BY <1>1, <3>2, <4>1, <4>2, DropType DEF n, Front
    <3>4. Depth(pc + 1) = n - 1
      BY <1>4, <2>2, <3>1, <3>3
    <3>5. ASSUME NEW k \in 1..(pc + 1), OpenAt(k, pc + 2)
          PROVE  Depth(k) \in 1..Len(execStack') /\ execStack'[Depth(k)] = Taken(k)
      <4>1. k \in 1..pc
        BY <1>5, <1>7, <3>1, <3>5
      <4>2. Depth(k) \in 1..n /\ execStack[Depth(k)] = InTakenBranch(k, pc + 1) /\ n - 1 >= Depth(k)
        BY <1>2, <1>3, <3>4, <3>5, <4>1
      <4>3. Depth(k) \in 1..(n - 1)
        BY <3>3, <4>2
      <4>4. Taken(k) = InTakenBranch(k, pc + 1)
        BY <1>3, <2>0, <3>1, <4>1
      <4>. QED BY <3>3, <4>2, <4>3, <4>4
    <3>6. ASSUME NEW d \in 1..(n - 1)
          PROVE  \E k \in 1..(pc + 1) : OpenAt(k, pc + 2) /\ Depth(k) = d
      <4>1. d \in 1..n /\ n - 1 >= d
        BY <3>3
      <4>. QED BY <1>2, <1>3, <1>8, <3>4, <4>1
    <3>. QED BY <3>3, <3>5, <3>6
  <2>3. CASE Op = OP_ELSE
    <3>1. Op \notin Opened /\ Op # OP_ENDIF
      BY <2>3 DEF Opened, OP_IF, OP_NOTIF, OP_ENDIF, OP_ELSE
    <3>2. execStack # << >> /\ execStack' = [execStack EXCEPT ![n] = ~execStack[n]]
      BY <1>6, <2>3, <3>1 DEF NestedBy, n
    <3>3. n \in 1..n /\ Len(execStack') = n /\ execStack'[n] = ~execStack[n]
          /\ \A i \in 1..n : i # n => execStack'[i] = execStack[i]
      <4>1. n \in 1..n
        BY <1>1, <3>2, EmptySeq DEF n
      <4>2. (~execStack[n]) \in BOOLEAN
        OBVIOUS
      <4>. QED BY <1>1, <3>2, <4>1, <4>2, ExceptSeq DEF n
    <3>4. Depth(pc + 1) = n
      BY <1>1, <1>4, <3>1
    <3>5. \A i \in 1..n : n >= i
      BY <1>1
    <3>6. ASSUME NEW k \in 1..(pc + 1), OpenAt(k, pc + 2)
          PROVE  Depth(k) \in 1..Len(execStack') /\ execStack'[Depth(k)] = Taken(k)
      <4>1. k \in 1..pc
        BY <1>5, <1>7, <3>1, <3>6
      <4>2. Depth(k) \in 1..n /\ execStack[Depth(k)] = InTakenBranch(k, pc + 1)
        BY <1>2, <1>3, <3>6, <4>1
      <4>3. Taken(k) = IF Depth(k) = n THEN ~InTakenBranch(k, pc + 1)
                                       ELSE InTakenBranch(k, pc + 1)
        BY <1>3, <2>0, <2>3, <3>4, <4>1
      <4>. QED BY <3>3, <4>2, <4>3
    <3>7. ASSUME NEW d \in 1..n
          PROVE  \E k \in 1..(pc + 1) : OpenAt(k, pc + 2) /\ Depth(k) = d
      BY <1>2, <1>3, <1>8, <3>4, <3>5
    <3>. QED BY <3>3, <3>6, <3>7
  <2>4. CASE Op \notin Opened /\ Op # OP_ENDIF /\ Op # OP_ELSE
    <3>1. execStack' = execStack
      BY <1>6, <2>4 DEF NestedBy
    <3>2. Depth(pc + 1) = n
      BY <1>1, <1>4, <2>4
    <3>3. \A i \in 1..n : n >= i
      BY <1>1
    <3>4. \A k \in 1..pc : Taken(k) = InTakenBranch(k, pc + 1)
      BY <1>3, <2>0, <2>4
    <3>. QED BY <1>2, <1>3, <1>5, <1>7, <1>8, <2>4, <3>1, <3>2, <3>3, <3>4 DEF n
  <2>. QED BY <2>1, <2>2, <2>3, <2>4
<1>11. /\ \A k, i : OpenAt(k, i)' = OpenAt(k, i) /\ Depth(k)' = Depth(k)
       /\ \A k \in 1..pc : \A i : InTakenBranch(k, i)' = InTakenBranch(k, i)
       /\ \A k : k = pc + 1 => InTakenBranch(k, k + 1)' =
            (Executing /\ (cast_to_bool(Top(1)) # (Op = OP_NOTIF)))
  BY BranchesKept, NewBranch DEF Between
<1>12. \A i : i = pc + 2 => \A k \in 1..(pc + 1) : InTakenBranch(k, i)' = Taken(k)
  <2> SUFFICES ASSUME NEW i, i = pc + 2, NEW k \in 1..(pc + 1)
               PROVE  InTakenBranch(k, i)' = Taken(k)
    OBVIOUS
  <2>1. CASE k = pc + 1
    <3>1. i = k + 1
      BY <1>1, <2>1
    <3>. QED BY <1>11, <2>1, <3>1
  <2>2. CASE k \in 1..pc
    <3>1. k # pc + 1
      BY <1>1, <2>2
    <3>. QED BY <1>11, <2>2, <3>1
  <2>. QED BY <1>7, <2>1, <2>2
<1>13. pc' + 1 = pc + 2
  BY <1>1
<1>. HIDE DEF Taken
<1>. QED BY <1>1, <1>10, <1>11, <1>12, <1>13 DEF BranchInv

LEMMA StepBranches ==
  ASSUME Between, BranchInv, [Next]_vars
  PROVE  BranchInv'
<1>1. CASE status' = "raised"
  BY <1>1 DEF BranchInv
<1>2. CASE Silent
  <2>1. UNCHANGED <<pc, execStack>> /\ pc \in Nat /\ (status' # "raised" => status # "raised")
    BY <1>2 DEF Silent, InTurn, AtEnd, Between, TraceInv
  <2>2. /\ \A k, i : OpenAt(k, i)' = OpenAt(k, i) /\ Depth(k)' = Depth(k)
        /\ \A k \in 1..pc : \A i : InTakenBranch(k, i)' = InTakenBranch(k, i)
    BY BranchesKept DEF Between
  <2>. QED BY <2>1, <2>2 DEF BranchInv
<1>3. CASE Succeeded
  BY <1>3, SucceededBranches
<1>4. Ended => status' = "raised"
  BY DEF Ended, Terminal
<1>. QED BY <1>1, <1>2, <1>3, <1>4, StepRecords DEF Between, MachineInv, Succeeded

LEMMA StepExecuted ==
  ASSUME Between, BranchInv, ExecutedInTakenBranches, [Next]_vars
  PROVE  ExecutedInTakenBranches'
<1>1. /\ pc \in Nat
      /\ pc' = pc \/ (Recorded /\ pc' = pc + 1)
      /\ \A i \in 1..pc : steps'[i] = steps[i]
  BY PastKept DEF Between
<1>2. /\ \A k, i : OpenAt(k, i)' = OpenAt(k, i)
      /\ \A k \in 1..pc : \A i : InTakenBranch(k, i)' = InTakenBranch(k, i)
  BY BranchesKept DEF Between
<1>3. ASSUME NEW i \in 1..pc
      PROVE  steps'[i].executed <=>
               \A k \in 1..(i - 1) : OpenAt(k, i)' => InTakenBranch(k, i)'
  <2>1. \A k \in 1..(i - 1) : k \in 1..pc
    BY <1>1
  <2>. QED BY <1>1, <1>2, <2>1 DEF ExecutedInTakenBranches, OpSteps
<1>4. ASSUME NEW i, i = pc + 1, Recorded
      PROVE  steps'[i].executed <=>
               \A k \in 1..(i - 1) : OpenAt(k, i)' => InTakenBranch(k, i)'
  <2>1. steps'[i].executed = Executing
    BY <1>4, RecordedStep DEF Between
  <2>2. i - 1 = pc /\ status # "raised"
    BY <1>1, <1>4 DEF Recorded, InTurn
  <2>3. DOMAIN execStack = 1..Len(execStack)
    BY LenProperties DEF Between, MachineInv, TypeInv, TypeOK
  <2>4. Executing <=> \A k \in 1..pc : OpenAt(k, pc + 1) => InTakenBranch(k, pc + 1)
    BY <2>2, <2>3 DEF Executing, BranchInv
  <2>. QED BY <1>2, <1>4, <2>1, <2>2, <2>4
<1>5. \A i \in 1..pc' : i \in 1..pc \/ (Recorded /\ i = pc + 1)
  BY <1>1
<1>. QED BY <1>3, <1>4, <1>5 DEF ExecutedInTakenBranches, OpSteps

LEMMA InitBetween == Init => Between
BY InitMachine, InitNesting, InitTrace, InitHistory DEF Between

LEMMA StepBetween ==
  ASSUME DigestsAreItems, Between, [Next]_vars
  PROVE  Between'
BY StepMachine, StepNesting, StepTrace, StepHistory DEF Between

\* An operation runs exactly when every conditional around it is in its taken
\* branch, in every script and however the conditionals are nested.
THEOREM RunsInTakenBranches ==
  ASSUME DigestsAreItems
  PROVE  Spec => []ExecutedInTakenBranches
<1>1. Init => Between /\ BranchInv /\ ExecutedInTakenBranches
  BY InitBetween, EmptySeq DEF Init, Begin, BranchInv, ExecutedInTakenBranches, OpSteps
<1>2. /\ Between /\ BranchInv /\ ExecutedInTakenBranches /\ [Next]_vars
        => Between' /\ BranchInv' /\ ExecutedInTakenBranches'
  BY StepBetween, StepBranches, StepExecuted
<1>. QED BY <1>1, <1>2, PTL DEF Spec
------------------------------------------------------------------------------
(* The steps a trace has, one at a time.                                   *)

\* What the newest step of the trace says of the operation that left it.
LEMMA NewStep ==
  ASSUME TraceInv, HistoryInv, Recorded, [Next]_vars, NEW i, i = pc + 1
  PROVE  /\ Passed(i)' <=> Succeeded /\ Executing
         /\ Before(i)' = stack /\ Ops'[i].opcode = Op
         /\ steps'[i].executed = Executing /\ steps'[i].stack = stack'
         /\ \A s, a, x, n, sig, err :
              Finish(s, a, x, n, sig, err) => steps'[i].sigCheck = sig
         /\ status = "running"
<1>1. /\ Ops' = Ops /\ pc' = pc + 1 /\ pc \in Nat
      /\ steps'[i].executed = Executing /\ steps'[i].stack = stack'
      /\ steps'[i].error = error'
      /\ status' = IF error' = "OK" THEN "running" ELSE "raised"
      /\ \A s, a, x, n, sig, err :
           Finish(s, a, x, n, sig, err) => steps'[i].sigCheck = sig
  BY RecordedStep
<1>2. Before(i)' = Before(i)
  BY <1>1, PastKept
<1>3. status = "running" /\ Before(i) = stack
  BY DEF Recorded, InTurn, HistoryInv
<1>4. i \in OpSteps'
  BY <1>1 DEF OpSteps
<1>5. Ops'[i].opcode = Op
  BY <1>1 DEF Op, Ops
<1>. QED BY <1>1, <1>2, <1>3, <1>4, <1>5 DEF Passed, Succeeded

\* The steps that are already in the trace say what they said.
LEMMA OldStep ==
  ASSUME TraceInv, [Next]_vars, NEW i \in OpSteps
  PROVE  /\ Passed(i)' = Passed(i) /\ Before(i)' = Before(i) /\ steps'[i] = steps[i]
         /\ Ops'[i] = Ops[i] /\ input' = input
         /\ LastSeparator(i)' = LastSeparator(i) /\ LastSeparator(i - 1)' = LastSeparator(i - 1)
         /\ (i \in SignatureSteps)' = (i \in SignatureSteps)
         /\ (i \in MultisigSteps)' = (i \in MultisigSteps)
         /\ SignatureAt(i)' = SignatureAt(i)
<1>1. pc \in Nat /\ (pc' = pc \/ pc' = pc + 1)
  BY PastKept
<1>2. i \in 1..pc /\ i \in 1..(pc + 1) /\ i \in 0..pc /\ i - 1 \in 0..pc
  BY <1>1 DEF OpSteps
<1>3. i \in OpSteps'
  BY <1>1, <1>2 DEF OpSteps
<1>4. /\ Before(i)' = Before(i) /\ steps'[i] = steps[i] /\ Ops' = Ops /\ input' = input
      /\ LastSeparator(i)' = LastSeparator(i) /\ LastSeparator(i - 1)' = LastSeparator(i - 1)
  BY <1>2, PastKept
<1>5. Passed(i)' = Passed(i)
  BY <1>3, <1>4 DEF Passed
<1>. QED BY <1>3, <1>4, <1>5 DEF SignatureSteps, MultisigSteps, SignatureAt

\* A step of the trace is an old one, or the one that was just recorded.
LEMMA OldOrNew ==
  ASSUME TraceInv, [Next]_vars, NEW i \in OpSteps'
  PROVE  i \in OpSteps \/ (Recorded /\ i = pc + 1)
<1>1. pc \in Nat /\ (pc' = pc \/ (Recorded /\ pc' = pc + 1))
  BY PastKept
<1>. QED BY <1>1 DEF OpSteps

------------------------------------------------------------------------------
(* Deltas.                                                                 *)

\* Two sequences part at some place: CommonPrefix has something to choose.
LEMMA CommonPrefixExists ==
  ASSUME NEW pre \in Seq(Item), NEW post \in Seq(Item)
  PROVE  LET n == CommonPrefix(pre, post)
         IN  /\ n \in 0..Len(pre) /\ n <= Len(post)
             /\ \A i \in 1..n : pre[i] = post[i]
             /\ n < Len(pre) /\ n < Len(post) => pre[n + 1] # post[n + 1]
<1> DEFINE Parts(n) == n < Len(pre) /\ n < Len(post) => pre[n + 1] # post[n + 1]
           T == {n \in Nat : Parts(n)}
           Common(n) == /\ n <= Len(post)
                        /\ \A i \in 1..n : pre[i] = post[i]
                        /\ Parts(n)
<1>1. Len(pre) \in Nat /\ Len(post) \in Nat
  BY LenProperties
<1>2. Len(pre) \in T /\ Len(post) \in T
  BY <1>1
<1>3. PICK n \in T : \A k \in T : n <= k
  <2>1. T \in SUBSET Nat /\ T # {}
    BY <1>2
  <2>. HIDE DEF T
  <2>. QED BY <2>1, LeastOf
<1>4. n \in 0..Len(pre) /\ n <= Len(post)
  BY <1>1, <1>2, <1>3
<1>5. \A i \in 1..n : pre[i] = post[i]
  <2> SUFFICES ASSUME NEW i \in 1..n PROVE pre[i] = post[i]
    OBVIOUS
  <2>1. i - 1 \in Nat /\ ~(n <= i - 1) /\ i - 1 < Len(pre) /\ i - 1 < Len(post) /\ i - 1 + 1 = i
    BY <1>1, <1>4
  <2>2. ~Parts(i - 1)
    BY <1>3, <2>1
  <2>. QED BY <2>1, <2>2
<1>6. Common(n)
  BY <1>3, <1>4, <1>5
<1>. HIDE DEF Common, T, Parts
<1>7. \E k \in 0..Len(pre) : Common(k)
  BY <1>4, <1>6
<1>8. CommonPrefix(pre, post) = CHOOSE k \in 0..Len(pre) : Common(k)
  BY DEF CommonPrefix, Common, Parts
<1>9. CommonPrefix(pre, post) \in 0..Len(pre) /\ Common(CommonPrefix(pre, post))
  BY <1>7, <1>8
<1>. QED BY <1>9 DEF Common, Parts

\* What a delta tells of the two snapshots it is computed from.
Replays(pre, post, d) ==
  /\ d.popped <= Len(pre)
  /\ LET kept == Len(pre) - d.popped
     IN  /\ post = SubSeq(pre, 1, kept) \o d.pushed
         /\ d.popped > 0 /\ d.pushed # << >> => pre[kept + 1] # d.pushed[1]

LEMMA DeltaReplays ==
  ASSUME NEW pre \in Seq(Item), NEW post \in Seq(Item)
  PROVE  \E d \in Delta(pre, post) : Replays(pre, post, d)
<1>1. PICK n : n = CommonPrefix(pre, post)
  OBVIOUS
<1>2. /\ n \in 0..Len(pre) /\ n <= Len(post)
      /\ \A i \in 1..n : pre[i] = post[i]
      /\ n < Len(pre) /\ n < Len(post) => pre[n + 1] # post[n + 1]
  BY <1>1, CommonPrefixExists
<1>3. Len(pre) \in Nat /\ Len(post) \in Nat
  BY LenProperties
<1> DEFINE d == [popped |-> Len(pre) - n, pushed |-> SubSeq(post, n + 1, Len(post))]
           front == SubSeq(pre, 1, n)
<1>4. Delta(pre, post) = {d}
  BY <1>1 DEF Delta
<1>5. d.popped = Len(pre) - n /\ Len(pre) - d.popped = n /\ d.popped <= Len(pre)
  BY <1>2, <1>3
<1>6. /\ d.pushed \in Seq(Item) /\ Len(d.pushed) = Len(post) - n
      /\ \A i \in 1..(Len(post) - n) : d.pushed[i] = post[n + i]
  BY <1>2, <1>3
<1>7. /\ front \in Seq(Item) /\ Len(front) = n /\ \A i \in 1..n : front[i] = post[i]
  BY <1>2, <1>3
<1>8. post = front \o d.pushed
  <2>. HIDE DEF front, d
  <2>1. /\ front \o d.pushed \in Seq(Item) /\ Len(front \o d.pushed) = Len(post)
        /\ \A i \in 1..Len(post) :
             (front \o d.pushed)[i] = IF i <= n THEN front[i] ELSE d.pushed[i - n]
    BY <1>2, <1>3, <1>6, <1>7, ConcatProperties
  <2>2. \A i \in 1..Len(post) : post[i] = (front \o d.pushed)[i]
    <3> SUFFICES ASSUME NEW i \in 1..Len(post) PROVE post[i] = (front \o d.pushed)[i]
      OBVIOUS
    <3>1. CASE i <= n
      BY <1>2, <1>3, <1>7, <2>1, <3>1
    <3>2. CASE ~(i <= n)
      <4>1. i - n \in 1..(Len(post) - n) /\ n + (i - n) = i
        BY <1>2, <1>3, <3>2
      <4>. QED BY <1>6, <2>1, <3>2, <4>1
    <3>. QED BY <3>1, <3>2
  <2>. QED BY <2>1, <2>2, SeqEqual
<1>9. d.popped > 0 /\ d.pushed # << >> => pre[n + 1] # d.pushed[1]
  <2> SUFFICES ASSUME d.popped > 0, d.pushed # << >> PROVE pre[n + 1] # d.pushed[1]
    OBVIOUS
  <2>1. n < Len(pre)
    BY <1>2, <1>3
  <2>2. Len(d.pushed) # 0
    BY <1>6, EmptySeq
  <2>3. n < Len(post) /\ 1 \in 1..(Len(post) - n)
    BY <1>2, <1>3, <1>6, <2>2
  <2>. QED BY <1>2, <1>6, <2>1, <2>3
<1>. HIDE DEF d, front
<1>10. Replays(pre, post, d)
  <2>1. SubSeq(pre, 1, Len(pre) - d.popped) = front
    BY <1>5 DEF front
  <2>. QED BY <1>5, <1>8, <1>9, <2>1 DEF Replays
<1>. QED BY <1>4, <1>10

\* What a step of the trace that went well lets a viewer show.
DeltaTells(i) ==
  steps[i].error = "OK" =>
    IF steps[i].executed
      THEN \E d \in steps[i].delta : Replays(Before(i), steps[i].stack, d)
      ELSE /\ steps[i].delta = {}
           /\ steps[i].stack = Before(i)
           /\ steps[i].altstack = AltBefore(i)

LEMMA StepDeltas ==
  ASSUME Between, TypeInv', \A i \in OpSteps : DeltaTells(i), [Next]_vars
  PROVE  \A i \in OpSteps' : DeltaTells(i)'
<1>0. TraceInv /\ HistoryInv /\ LoopInTurn /\ TypeInv /\ pc \in Nat
  BY DEF Between, MachineInv, TraceInv
<1> SUFFICES ASSUME NEW i \in OpSteps' PROVE DeltaTells(i)'
  OBVIOUS
<1>1. CASE i \in OpSteps
  <2>1. i \in 1..pc /\ i \in 1..(pc + 1)
    BY <1>0, <1>1 DEF OpSteps
  <2>2. /\ steps'[i] = steps[i] /\ Before(i)' = Before(i) /\ AltBefore(i)' = AltBefore(i)
    BY <1>0, <2>1, PastKept
  <2>. QED BY <1>1, <2>2 DEF DeltaTells
<1>2. CASE Recorded /\ i = pc + 1
  <2>1. /\ steps'[i].executed = Executing /\ steps'[i].error = error'
        /\ steps'[i].stack = stack' /\ steps'[i].altstack = altstack'
        /\ steps'[i].delta = IF Executing /\ error' = "OK" THEN Delta(stack, stack') ELSE {}
        /\ status' = IF error' = "OK" THEN "running" ELSE "raised"
    BY <1>0, <1>2, RecordedStep
  <2>2. Before(i)' = stack /\ AltBefore(i)' = altstack
    <3>1. status # "raised" /\ i \in 1..(pc + 1)
      BY <1>0, <1>2 DEF Recorded, InTurn
    <3>. QED BY <1>0, <1>2, <3>1, PastKept DEF HistoryInv
  <2> SUFFICES ASSUME error' = "OK" PROVE DeltaTells(i)'
    BY <2>1 DEF DeltaTells
  <2>3. CASE Executing
    <3>1. stack \in Seq(Item) /\ stack' \in Seq(Item)
      BY <1>0 DEF TypeInv, TypeOK
    <3>2. \E d \in Delta(stack, stack') : Replays(stack, stack', d)
      BY <3>1, DeltaReplays
    <3>. QED BY <2>1, <2>2, <2>3, <3>2 DEF DeltaTells
  <2>4. CASE ~Executing
    <3>1. UNCHANGED <<stack, altstack>>
      BY <1>0, <1>2, <2>1, <2>4, SucceededKeeps DEF Succeeded
    <3>. QED BY <2>1, <2>2, <2>4, <3>1 DEF DeltaTells
  <2>. QED BY <2>3, <2>4
<1>. QED BY <1>0, <1>1, <1>2, OldOrNew

\* Whoever replays the deltas from the initial stack sees every stack the script
\* went through, and the delta of an operation is the least that tells it.
THEOREM DeltasTellTheStacks ==
  ASSUME DigestsAreItems
  PROVE  Spec => []DeltasReplay
<1> DEFINE Inv == \A i \in OpSteps : DeltaTells(i)
<1>1. Init => Inv
  BY DEF Init, Begin, OpSteps
<1>2. Between => TypeInv
  BY DEF Between, MachineInv
<1>3. Between /\ TypeInv' /\ Inv /\ [Next]_vars => Inv'
  BY StepDeltas
<1>4. Between /\ [Next]_vars => Between'
  BY StepBetween
<1>5. Inv => DeltasReplay
  BY DEF DeltaTells, Replays, DeltasReplay
<1>. QED BY <1>1, <1>2, <1>3, <1>4, <1>5, InitBetween, PTL DEF Spec

------------------------------------------------------------------------------
(* What a rearranging operation left.                                      *)

\* What OP_PICK and OP_ROLL leave of the items below their operand.
Reached(rest, at, rolled) ==
  Append(IF rolled THEN RemoveAt(rest, at) ELSE rest, rest[at])

LEMMA ReachedAgrees ==
  ASSUME NEW rest \in Seq(Item), NEW n \in 0..(Len(rest) - 1), NEW at, at = Len(rest) - n
  PROVE  /\ n = 0 => Reached(rest, at, FALSE) = Shuffled(OP_DUP, rest)
         /\ n = 1 => Reached(rest, at, FALSE) = Shuffled(OP_OVER, rest)
         /\ n = 0 => Reached(rest, at, TRUE) = rest
         /\ n = 1 => Reached(rest, at, TRUE) = Shuffled(OP_SWAP, rest)
         /\ n = 2 => Reached(rest, at, TRUE) = Shuffled(OP_ROT, rest)
         /\ Len(Reached(rest, at, TRUE)) = Len(rest)
<1>1. Len(rest) \in Nat /\ at \in 1..Len(rest) /\ n \in Nat /\ n < Len(rest)
  BY LenProperties
<1>2. CASE n = 0
  <2>1. PICK b \in Seq(Item), x \in Item : rest = Append(b, x) /\ Len(rest) = Len(b) + 1
    BY <1>1, <1>2, TakeLast
  <2>2. at = Len(b) + 1 /\ rest[at] = x /\ Len(b) \in Nat
    BY <1>1, <1>2, <2>1
  <2>3. RemoveAt(rest, at) = b
    <3>1. SubSeq(rest, 1, at - 1) = b
      BY <2>1, <2>2
    <3>2. SubSeq(rest, at + 1, Len(rest)) = << >>
      BY <2>1, <2>2
    <3>3. b \o << >> = b
      OBVIOUS
    <3>. QED BY <3>1, <3>2, <3>3 DEF RemoveAt
  <2>4. Shuffled(OP_DUP, rest) = Append(rest, x)
    BY <2>1, DupDoes DEF Put1, Put2
  <2>. QED BY <1>2, <2>1, <2>2, <2>3, <2>4 DEF Reached
<1>3. CASE n = 1
  <2>1. PICK b \in Seq(Item), x \in Item, y \in Item :
          rest = Put2(b, x, y) /\ Len(rest) = Len(b) + 2
    BY <1>1, <1>3, TakeTwo
  <2>2. at = Len(b) + 1 /\ rest[at] = x /\ Len(b) \in Nat
    BY <1>1, <1>3, <2>1 DEF Put2
  <2>3. RemoveAt(rest, at) = Append(b, y)
    <3>0. Len(rest) = at + 1 /\ rest[at + 1] = y /\ \A j \in 1..Len(b) : rest[j] = b[j]
      BY <2>1, <2>2 DEF Put2
    <3>a. SubSeq(rest, 1, at - 1) = b
      <4>. DEFINE s == SubSeq(rest, 1, at - 1)
      <4>1. s \in Seq(Item) /\ Len(s) = Len(b) /\ \A j \in 1..Len(b) : s[j] = rest[j]
        BY <1>1, <2>2
      <4>. QED BY <3>0, <4>1, SeqEqual
    <3>b. SubSeq(rest, at + 1, Len(rest)) = <<y>>
      <4>. DEFINE s == SubSeq(rest, at + 1, Len(rest))
      <4>1. s \in Seq(Item) /\ Len(s) = 1 /\ \A j \in 1..1 : s[j] = rest[at + j]
        BY <1>1, <2>2, <3>0
      <4>2. s[1] = y
        BY <3>0, <4>1
      <4>. HIDE DEF s
      <4>3. s = <<y>>
        BY <4>1, <4>2
      <4>. QED BY <4>3 DEF s
    <3>1. SubSeq(rest, 1, at - 1) = b /\ SubSeq(rest, at + 1, Len(rest)) = <<y>>
      BY <3>a, <3>b
    <3>2. b \o <<y>> = Append(b, y)
      OBVIOUS
    <3>. QED BY <3>1, <3>2 DEF RemoveAt
  <2>4. Shuffled(OP_OVER, rest) = Append(rest, x)
    BY <2>1, OverDoes DEF Put2, Put3
  <2>5. Shuffled(OP_SWAP, rest) = Append(Append(b, y), x)
    BY <2>1, SwapDoes DEF Put2
  <2>6. Len(Append(Append(b, y), x)) = Len(b) + 2
    OBVIOUS
  <2>. QED BY <1>3, <2>1, <2>2, <2>3, <2>4, <2>5, <2>6 DEF Reached
<1>4. CASE n = 2
  <2>1. PICK b \in Seq(Item), x \in Item, y \in Item, z \in Item :
          rest = Put3(b, x, y, z) /\ Len(rest) = Len(b) + 3
    BY <1>1, <1>4, TakeThree
  <2>2. at = Len(b) + 1 /\ rest[at] = x /\ Len(b) \in Nat
    BY <1>1, <1>4, <2>1 DEF Put2, Put3
  <2>3. RemoveAt(rest, at) = Put2(b, y, z)
    <3>0. Len(rest) = at + 2 /\ rest[at + 1] = y /\ rest[at + 2] = z /\ \A j \in 1..Len(b) : rest[j] = b[j]
      BY <2>1, <2>2 DEF Put2, Put3
    <3>a. SubSeq(rest, 1, at - 1) = b
      <4>. DEFINE s == SubSeq(rest, 1, at - 1)
      <4>1. s \in Seq(Item) /\ Len(s) = Len(b) /\ \A j \in 1..Len(b) : s[j] = rest[j]
        BY <1>1, <2>2
      <4>. QED BY <3>0, <4>1, SeqEqual
    <3>b. SubSeq(rest, at + 1, Len(rest)) = <<y, z>>
      <4>. DEFINE s == SubSeq(rest, at + 1, Len(rest))
      <4>1. s \in Seq(Item) /\ Len(s) = 2 /\ \A j \in 1..2 : s[j] = rest[at + j]
        BY <1>1, <2>2, <3>0
      <4>2. s[1] = y /\ s[2] = z
        BY <3>0, <4>1
      <4>. HIDE DEF s
      <4>3. s = <<y, z>>
        BY <4>1, <4>2
      <4>. QED BY <4>3 DEF s
    <3>1. SubSeq(rest, 1, at - 1) = b /\ SubSeq(rest, at + 1, Len(rest)) = <<y, z>>
      BY <3>a, <3>b
    <3>2. b \o <<y, z>> = Put2(b, y, z)
      BY DEF Put2
    <3>. QED BY <3>1, <3>2 DEF RemoveAt
  <2>4. Shuffled(OP_ROT, rest) = Append(Put2(b, y, z), x)
    BY <2>1, RotDoes DEF Put2, Put3
  <2>5. Len(Append(Put2(b, y, z), x)) = Len(b) + 3
    BY DEF Put2
  <2>. QED BY <1>4, <2>1, <2>2, <2>3, <2>4, <2>5 DEF Reached
<1>5. Len(Reached(rest, at, TRUE)) = Len(rest)
  <2>1. RemoveAt(rest, at) \in Seq(Item) /\ Len(RemoveAt(rest, at)) = Len(rest) - 1
    <3>1. RemoveAt(rest, at) \in Seq(Item)
      BY <1>1, RemoveAtType
    <3>2. /\ SubSeq(rest, 1, at - 1) \in Seq(Item) /\ Len(SubSeq(rest, 1, at - 1)) = at - 1
          /\ SubSeq(rest, at + 1, Len(rest)) \in Seq(Item)
          /\ Len(SubSeq(rest, at + 1, Len(rest))) = Len(rest) - at
      BY <1>1
    <3>3. PICK front, back :
            front = SubSeq(rest, 1, at - 1) /\ back = SubSeq(rest, at + 1, Len(rest))
      OBVIOUS
    <3>6. /\ front \in Seq(Item) /\ back \in Seq(Item)
          /\ Len(front) = at - 1 /\ Len(back) = Len(rest) - at
      BY <3>2, <3>3
    <3>4. Len(front \o back) = at - 1 + (Len(rest) - at)
      BY <1>1, <3>6, ConcatProperties
    <3>5. RemoveAt(rest, at) = front \o back
      BY <3>3 DEF RemoveAt
    <3>. QED BY <1>1, <3>1, <3>4, <3>5
  <2>. QED BY <1>1, <2>1 DEF Reached
<1>. QED BY <1>2, <1>3, <1>4, <1>5

\* What a step that picked or rolled an item tells.
PickTells(i) ==
  Passed(i) /\ Ops[i].opcode \in {OP_PICK, OP_ROLL} =>
    LET rest == SubSeq(Before(i), 1, Len(Before(i)) - 1)
        n == decode_num(FromTop(Before(i), 1))
    IN  /\ n \in 0..(Len(rest) - 1) /\ rest \in Seq(Item)
        /\ steps[i].stack = Reached(rest, Len(rest) - n, Ops[i].opcode = OP_ROLL)

LEMMA StepPicks ==
  ASSUME Between, \A i \in OpSteps : PickTells(i), [Next]_vars
  PROVE  \A i \in OpSteps' : PickTells(i)'
<1>0. TraceInv /\ HistoryInv /\ LoopInTurn /\ TypeInv
  BY DEF Between, MachineInv
<1> SUFFICES ASSUME NEW i \in OpSteps' PROVE PickTells(i)'
  OBVIOUS
<1>1. CASE i \in OpSteps
  <2>1. /\ Passed(i)' = Passed(i) /\ Before(i)' = Before(i) /\ steps'[i] = steps[i]
        /\ Ops'[i] = Ops[i]
    BY <1>0, <1>1, OldStep
  <2>. QED BY <1>1, <2>1 DEF PickTells
<1>2. CASE Recorded /\ i = pc + 1
  <2>1. /\ Passed(i)' <=> Succeeded /\ Executing
        /\ Before(i)' = stack /\ Ops'[i].opcode = Op /\ steps'[i].stack = stack'
    BY <1>0, <1>2, NewStep
  <2> SUFFICES ASSUME Succeeded, Executing, Op \in {OP_PICK, OP_ROLL} PROVE PickTells(i)'
    BY <2>1 DEF PickTells
  <2>2. OpPickRoll
    BY <1>0, SucceededSpecial
  <2>3. /\ Has(1) /\ Drop(1) \in Seq(Item)
    <3>1. Has(Arity(Op))
      BY <2>2 DEF OpPickRoll, Runs
    <3>2. Arity(Op) = 2
      BY PickArity
    <3>3. stack \in Seq(Item) /\ Len(stack) >= 2 /\ Len(stack) \in Nat
      BY <1>0, <3>1, <3>2, LenProperties DEF TypeInv, TypeOK, Has
    <3>4. 1 \in 0..Len(stack)
      BY <3>3
    <3>. QED BY <3>3, <3>4, DropType DEF Drop, Has
  <2>4. PICK rest, n : rest = Drop(1) /\ n = decode_num(Top(1))
    OBVIOUS
  <2>5. /\ n \in 0..(Len(rest) - 1)
        /\ Leave(Append(IF Op = OP_ROLL THEN RemoveAt(rest, Len(rest) - n) ELSE rest,
                        rest[Len(rest) - n]))
    BY <2>2, <2>4 DEF OpPickRoll, Raise, Plain, Finish, Succeeded
  <2>6. stack' = Reached(rest, Len(rest) - n, Op = OP_ROLL)
    BY <2>5 DEF Leave, Plain, Finish, Reached
  <2>7. /\ SubSeq(Before(i), 1, Len(Before(i)) - 1)' = rest
        /\ decode_num(FromTop(Before(i), 1))' = n
    BY <2>1, <2>4 DEF Drop, Top, FromTop
  <2>. QED BY <2>1, <2>3, <2>4, <2>5, <2>6, <2>7 DEF PickTells
<1>. QED BY <1>0, <1>1, <1>2, OldOrNew

\* The operations that only move items do what their names say, on every stack:
\* they compose as permutations, and OP_PICK and OP_ROLL agree with those of
\* fixed depth.
THEOREM RearrangingIsByName ==
  ASSUME DigestsAreItems
  PROVE  Spec => []RearrangingAgrees
<1> DEFINE Inv == \A i \in OpSteps : PickTells(i)
<1>1. Init => Inv
  BY DEF Init, Begin, OpSteps
<1>2. Between /\ Inv /\ [Next]_vars => Inv'
  BY StepPicks
<1>3. Between /\ [Next]_vars => Between'
  BY StepBetween
<1>4. ASSUME Between, Inv PROVE RearrangingAgrees
  <2>1. ShuffleLaws
    BY <1>4, Laws DEF Between, MachineInv, TypeInv
  <2>2. PickRollAgree
    <3> SUFFICES ASSUME NEW i \in OpSteps, Passed(i), Ops[i].opcode \in {OP_PICK, OP_ROLL},
                        NEW rest, rest = SubSeq(Before(i), 1, Len(Before(i)) - 1),
                        NEW n, n = decode_num(FromTop(Before(i), 1)),
                        NEW rolled, rolled = (Ops[i].opcode = OP_ROLL)
                 PROVE  /\ ~rolled /\ n = 0 => steps[i].stack = Shuffled(OP_DUP, rest)
                        /\ ~rolled /\ n = 1 => steps[i].stack = Shuffled(OP_OVER, rest)
                        /\ rolled /\ n = 0 => steps[i].stack = rest
                        /\ rolled /\ n = 1 => steps[i].stack = Shuffled(OP_SWAP, rest)
                        /\ rolled /\ n = 2 => steps[i].stack = Shuffled(OP_ROT, rest)
                        /\ rolled => Len(steps[i].stack) = Len(rest)
      BY DEF PickRollAgree
    <3>1. /\ n \in 0..(Len(rest) - 1) /\ rest \in Seq(Item)
          /\ steps[i].stack = Reached(rest, Len(rest) - n, rolled)
      BY <1>4 DEF PickTells
    <3>2. PICK at : at = Len(rest) - n
      OBVIOUS
    <3>3. /\ n = 0 => Reached(rest, at, FALSE) = Shuffled(OP_DUP, rest)
          /\ n = 1 => Reached(rest, at, FALSE) = Shuffled(OP_OVER, rest)
          /\ n = 0 => Reached(rest, at, TRUE) = rest
          /\ n = 1 => Reached(rest, at, TRUE) = Shuffled(OP_SWAP, rest)
          /\ n = 2 => Reached(rest, at, TRUE) = Shuffled(OP_ROT, rest)
          /\ Len(Reached(rest, at, TRUE)) = Len(rest)
      <4>1. PICK r \in Seq(Item) : r = rest
        BY <3>1
      <4>2. PICK m \in 0..(Len(r) - 1) : m = n
        BY <3>1, <4>1
      <4>3. at = Len(r) - m
        BY <3>2, <4>1, <4>2
      <4>4. /\ m = 0 => Reached(r, at, FALSE) = Shuffled(OP_DUP, r)
            /\ m = 1 => Reached(r, at, FALSE) = Shuffled(OP_OVER, r)
            /\ m = 0 => Reached(r, at, TRUE) = r
            /\ m = 1 => Reached(r, at, TRUE) = Shuffled(OP_SWAP, r)
            /\ m = 2 => Reached(r, at, TRUE) = Shuffled(OP_ROT, r)
            /\ Len(Reached(r, at, TRUE)) = Len(r)
        BY <4>3, ReachedAgrees
      <4>. QED BY <4>1, <4>2, <4>4
    <3>4. steps[i].stack = Reached(rest, at, rolled)
      BY <3>1, <3>2
    <3>5. rolled \in BOOLEAN
      OBVIOUS
    <3>6. CASE rolled = TRUE
      BY <3>3, <3>4, <3>6
    <3>7. CASE rolled = FALSE
      BY <3>3, <3>4, <3>7
    <3>. QED BY <3>5, <3>6, <3>7
  <2>. QED BY <2>1, <2>2 DEF RearrangingAgrees
<1>. QED BY <1>1, <1>2, <1>3, <1>4, InitBetween, PTL DEF Spec
==============================================================================
