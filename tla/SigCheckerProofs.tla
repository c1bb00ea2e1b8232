----------------------------- MODULE SigCheckerProofs -----------------------------
(***************************************************************************)
(* The midstates that a checker was given or keeps make no difference to   *)
(* what it answers, and what it takes for valid is what its hash type      *)
(* names, for every transaction, change on the way and sequence of checks. *)
(***************************************************************************)
EXTENDS SigChecker, SequenceTheorems, TLAPS

\* The midstates of a checker are none, empty, or those of its transaction:
\* computed without, or with, the outputs that the checker knows.
CheckerInv ==
  \A c \in checker :
    /\ c = [spent |-> c.spent, amount |-> c.amount, precomputed |-> c.precomputed]
    /\ c.spent \in {{}, {scene.spent}}
    /\ c.precomputed \in Midstates(c.spent)

\* An answer is that of a checker without midstates.
AnswerInv ==
  \A a \in answer, sig \in signature, c \in checker :
    a.result = IF a.scheme \in Ecdsa
                 THEN EcdsaAnswer(a.scheme, [c EXCEPT !.precomputed = {}], sig)
               ELSE SchnorrAnswer(a.scheme, [c EXCEPT !.precomputed = {}], sig)

\* Nothing is answered before there is a signature and a checker, and there is
\* at most one of each.
OrderInv ==
  /\ answer # {} => checker # {}
  /\ checker # {} => signature # {}
  /\ \A c, d \in checker : c = d
  /\ \A sig, other \in signature : sig = other

SigInv == CheckerInv /\ AnswerInv /\ OrderInv

\* A version 0 hash is the same with any of these midstates: those of taproot
\* are not looked at.
LEMMA SameBip143 ==
  ASSUME NEW tx, NEW i, NEW code, NEW amount, NEW hashtype, NEW p,
         p \in {{}, {NoMidstates}} \/ \E spent : p = {compute(tx, spent)}
  PROVE  bip143_sighash(tx, i, code, amount, hashtype, p)
           = bip143_sighash(tx, i, code, amount, hashtype, {})
<1> DEFINE m == Bip143Midstates(tx, p)
           n == Bip143Midstates(tx, {})
<1>1. n = compute(tx, {})
  BY DEF Bip143Midstates
<1>2. /\ m.hash_prevouts = n.hash_prevouts
      /\ m.hash_sequence = n.hash_sequence
      /\ m.hash_outputs = n.hash_outputs
  <2>1. CASE p = {}
    BY <2>1
  <2>2. CASE p = {NoMidstates}
    <3>1. ~NoMidstates.ready  BY DEF NoMidstates
    <3> QED  BY <1>1, <2>2, <3>1 DEF Bip143Midstates
  <2>3. CASE \E spent : p = {compute(tx, spent)}
    <3>1. PICK spent : p = {compute(tx, spent)}  BY <2>3
    <3>2. compute(tx, spent).ready  BY DEF compute
    <3>3. m = compute(tx, spent)  BY <3>1, <3>2 DEF Bip143Midstates
    <3> QED  BY <1>1, <3>3 DEF compute
  <2> QED  BY <2>1, <2>2, <2>3
<1> QED  BY <1>2 DEF bip143_sighash

\* Midstates with those of taproot are the ones that would be computed.
LEMMA SameTaproot ==
  ASSUME NEW c, NEW spent, spent \in {{}, {scene.spent}}, c.spent = spent,
         c.precomputed \in Midstates(spent)
  PROVE  _taproot_precomputed(c) = {compute(scene.tx, spent)}
<1>1. NoMidstates.sha_prevouts = {} /\ compute(scene.tx, {}).sha_prevouts = {}
  BY DEF NoMidstates, compute
<1> QED  BY <1>1 DEF Midstates, _taproot_precomputed

\* What a checker answers does not depend on its midstates.
LEMMA AnswersAlike ==
  ASSUME NEW c, NEW sig, NEW scheme \in Ecdsa \cup Schnorr,
         c = [spent |-> c.spent, amount |-> c.amount, precomputed |-> c.precomputed],
         c.spent \in {{}, {scene.spent}}, c.precomputed \in Midstates(c.spent)
  PROVE  LET new == [c EXCEPT !.precomputed = {}]
         IN  /\ scheme \in Ecdsa =>
                  EcdsaAnswer(scheme, c, sig) = EcdsaAnswer(scheme, new, sig)
             /\ scheme \in Schnorr =>
                  SchnorrAnswer(scheme, c, sig) = SchnorrAnswer(scheme, new, sig)
<1> DEFINE new == [c EXCEPT !.precomputed = {}]
<1>1. new.spent = c.spent /\ new.amount = c.amount /\ new.precomputed = {}
  OBVIOUS
<1>2. \A hashtype : Messages("v0", scene, c.spent, c.amount, hashtype, c.precomputed)
                      = Messages("v0", scene, c.spent, c.amount, hashtype, {})
  <2>1. ASSUME NEW hashtype
        PROVE  bip143_sighash(scene.tx, scene.index, scene.code, c.amount, hashtype, c.precomputed)
                 = bip143_sighash(scene.tx, scene.index, scene.code, c.amount, hashtype, {})
    <3>1. \/ c.precomputed \in {{}, {NoMidstates}}
          \/ \E spent : c.precomputed = {compute(scene.tx, spent)}
      BY DEF Midstates
    <3> QED  BY <3>1, SameBip143
  <2> QED  BY <2>1 DEF Messages
<1>3. \A hashtype, p, q : Messages("legacy", scene, c.spent, c.amount, hashtype, p)
                            = Messages("legacy", scene, c.spent, c.amount, hashtype, q)
  BY DEF Messages
<1>4. ASSUME scheme \in Ecdsa
      PROVE  EcdsaAnswer(scheme, c, sig) = EcdsaAnswer(scheme, new, sig)
  BY <1>1, <1>2, <1>3, <1>4 DEF EcdsaAnswer, Ecdsa
<1>5. _taproot_precomputed(c) = _taproot_precomputed(new)
  <2>1. {} \in Midstates(c.spent)  BY DEF Midstates
  <2> QED  BY <1>1, <2>1, SameTaproot
<1>6. SchnorrAnswer(scheme, c, sig) = SchnorrAnswer(scheme, new, sig)
  BY <1>1, <1>5 DEF SchnorrAnswer
<1> QED  BY <1>4, <1>6

\* The parts of the state that an answer reads.
LEMMA SameAnswers ==
  ASSUME UNCHANGED scene, NEW scheme, NEW c, NEW sig
  PROVE  /\ EcdsaAnswer(scheme, c, sig)' = EcdsaAnswer(scheme, c, sig)
         /\ SchnorrAnswer(scheme, c, sig)' = SchnorrAnswer(scheme, c, sig)
         /\ \A spent : Midstates(spent)' = Midstates(spent)
BY DEF EcdsaAnswer, SchnorrAnswer, _taproot_precomputed, Midstates

--------------------------------------------------------------------------------
LEMMA SigInitially ==
  ASSUME SigInit
  PROVE  SigInv
BY DEF SigInit, SigInv, CheckerInv, AnswerInv, OrderInv

\* A scheme has one message for a scene and its midstates.
LEMMA OneMessage ==
  ASSUME NEW scheme, NEW s, NEW spent, NEW amount, NEW hashtype, NEW p,
         NEW m \in Messages(scheme, s, spent, amount, hashtype, {p}),
         NEW n \in Messages(scheme, s, spent, amount, hashtype, {p})
  PROVE  m = n
<1>1. CASE scheme = "legacy"
  <2>1. Messages(scheme, s, spent, amount, hashtype, {p})
          = {legacy_sighash(s.tx, s.index, s.code, hashtype)}
    BY <1>1 DEF Messages
  <2> QED  BY <2>1
<1>2. CASE scheme \notin {"legacy", "v0"}
  <2>1. {m, n} \subseteq taproot_sighash(s.tx, s.index, spent, hashtype, p, ExtFlag(scheme), s.exec)
    BY <1>2 DEF Messages
  <2>2. \A a, b \in taproot_sighash(s.tx, s.index, spent, hashtype, p, ExtFlag(scheme), s.exec) :
          a = b
    BY Zenon DEF taproot_sighash
  <2> QED  BY <2>1, <2>2
<1>3. CASE scheme = "v0"
  <2>1. Messages(scheme, s, spent, amount, hashtype, {p})
          = {bip143_sighash(s.tx, s.index, s.code, amount, hashtype, {p})}
    BY <1>3 DEF Messages
  <2> QED  BY <2>1
<1> QED  BY <1>1, <1>2, <1>3

\* Before there is a checker, nothing is promised of it.
LEMMA NoCheckerYet ==
  ASSUME SigInv, checker = {}, UNCHANGED <<checker, answer>>,
         \A sig, other \in signature' : sig = other
  PROVE  SigInv'
BY DEF SigInv, CheckerInv, AnswerInv, OrderInv

LEMMA SignKeeps ==
  ASSUME SigInv, NEW scheme, NEW tag, Sign(scheme, tag)
  PROVE  SigInv'
<1>1. checker = {} /\ UNCHANGED <<checker, answer>>
  BY DEF SigInv, OrderInv, Sign
<1>2. \A sig, other \in signature' : sig = other
  <2> DEFINE messages == Messages(scheme, scene, {scene.spent}, Amount(scene), HashType(tag),
                                  {compute(scene.tx, {scene.spent})})
  <2>1. \A m, n \in messages : m = n  BY OneMessage
  <2>2. signature' = {[scheme |-> scheme, tag |-> tag, message |-> m, scene |-> scene,
                       signedAs |-> tag] : m \in messages}
    BY DEF Sign
  <2> QED  BY <2>1, <2>2
<1> QED  BY <1>1, <1>2, NoCheckerYet

LEMMA RetagKeeps ==
  ASSUME SigInv, NEW tag, Retag(tag)
  PROVE  SigInv'
<1>1. \A sig, other \in signature' : sig = other
  BY DEF Retag, SigInv, OrderInv
<1> QED  BY <1>1, NoCheckerYet DEF Retag

LEMMA NewCheckerKeeps ==
  ASSUME SigInv, NEW spent \in {{}, {scene.spent}}, NewChecker(spent)
  PROVE  SigInv'
<1>1. PICK precomputed \in Midstates(spent) :
        checker' = {[spent |-> spent,
                     amount |-> IF spent = {} THEN 0 ELSE Amount(scene),
                     precomputed |-> precomputed]}
  BY DEF NewChecker
<1>2. UNCHANGED <<scene, signature, answer>> /\ signature # {} /\ answer = {}
  BY DEF NewChecker, SigInv, OrderInv
<1>3. CheckerInv'
  BY <1>1, <1>2, SameAnswers DEF CheckerInv
<1> QED  BY <1>1, <1>2, <1>3 DEF SigInv, AnswerInv, OrderInv

\* A check answers what a checker without midstates would, and the midstates
\* that it keeps are those of the transaction.
LEMMA CheckEcdsaKeeps ==
  ASSUME SigInv, NEW scheme \in Ecdsa, CheckEcdsa(scheme)
  PROVE  SigInv'
<1>1. PICK c \in checker, sig \in signature :
        answer' = {[scheme |-> scheme, result |-> EcdsaAnswer(scheme, c, sig)]}
  BY DEF CheckEcdsa
<1>2. UNCHANGED <<scene, signature, checker>>
  BY DEF CheckEcdsa
<1>3. EcdsaAnswer(scheme, c, sig) = EcdsaAnswer(scheme, [c EXCEPT !.precomputed = {}], sig)
  BY AnswersAlike DEF SigInv, CheckerInv
<1>4. CheckerInv'
  BY <1>2, SameAnswers DEF SigInv, CheckerInv
<1>5. AnswerInv'
  <2> SUFFICES ASSUME NEW a \in answer', NEW s \in signature', NEW d \in checker'
               PROVE  (a.result = IF a.scheme \in Ecdsa
                         THEN EcdsaAnswer(a.scheme, [d EXCEPT !.precomputed = {}], s)
                       ELSE SchnorrAnswer(a.scheme, [d EXCEPT !.precomputed = {}], s))'
    BY DEF AnswerInv
  <2>1. s = sig /\ d = c  BY <1>2 DEF SigInv, OrderInv
  <2>2. a.scheme = scheme /\ a.result = EcdsaAnswer(scheme, c, sig)  BY <1>1
  <2> QED  BY <1>2, <1>3, <2>1, <2>2, SameAnswers
<1> QED  BY <1>1, <1>2, <1>4, <1>5 DEF SigInv, OrderInv

LEMMA CheckSchnorrKeeps ==
  ASSUME SigInv, NEW scheme \in Schnorr, CheckSchnorr(scheme)
  PROVE  SigInv'
<1>1. PICK c \in checker, sig \in signature :
        /\ answer' = {[scheme |-> scheme, result |-> SchnorrAnswer(scheme, c, sig)]}
        /\ checker' = IF sig.tag = {0} THEN checker
                      ELSE {[c EXCEPT !.precomputed = _taproot_precomputed(c)]}
  BY DEF CheckSchnorr
<1>2. UNCHANGED <<scene, signature>>
  BY DEF CheckSchnorr
<1>3. checker = {c}
  BY DEF SigInv, OrderInv
<1>4. /\ c = [spent |-> c.spent, amount |-> c.amount, precomputed |-> c.precomputed]
      /\ c.spent \in {{}, {scene.spent}} /\ c.precomputed \in Midstates(c.spent)
  BY DEF SigInv, CheckerInv
<1>5. SchnorrAnswer(scheme, c, sig) = SchnorrAnswer(scheme, [c EXCEPT !.precomputed = {}], sig)
  BY <1>4, AnswersAlike
<1>6. PICK kept \in Midstates(c.spent) : checker' = {[c EXCEPT !.precomputed = kept]}
  <2>1. CASE sig.tag = {0}
    <3>1. c = [c EXCEPT !.precomputed = c.precomputed]  BY <1>4
    <3> QED  BY <1>1, <1>3, <1>4, <2>1, <3>1
  <2>2. CASE sig.tag # {0}
    <3>1. _taproot_precomputed(c) \in Midstates(c.spent)
      BY <1>4, SameTaproot DEF Midstates
    <3> QED  BY <1>1, <2>2, <3>1
  <2> QED  BY <2>1, <2>2
<1>7. CheckerInv'
  BY <1>2, <1>4, <1>6, SameAnswers DEF CheckerInv
<1>8. AnswerInv'
  <2> SUFFICES ASSUME NEW a \in answer', NEW s \in signature', NEW d \in checker'
               PROVE  (a.result = IF a.scheme \in Ecdsa
                         THEN EcdsaAnswer(a.scheme, [d EXCEPT !.precomputed = {}], s)
                       ELSE SchnorrAnswer(a.scheme, [d EXCEPT !.precomputed = {}], s))'
    BY DEF AnswerInv
  <2>1. s = sig  BY <1>2 DEF SigInv, OrderInv
  <2>2. [d EXCEPT !.precomputed = {}] = [c EXCEPT !.precomputed = {}]
    BY <1>4, <1>6
  <2>3. a.scheme = scheme /\ a.result = SchnorrAnswer(scheme, c, sig)  BY <1>1
  <2>4. scheme \notin Ecdsa  BY DEF Ecdsa, Schnorr
  <2> QED  BY <1>2, <1>5, <2>1, <2>2, <2>3, <2>4, SameAnswers
<1> QED  BY <1>1, <1>2, <1>6, <1>7, <1>8 DEF SigInv, OrderInv

LEMMA SigStep ==
  ASSUME SigInv, [SigNext]_sigVars
  PROVE  SigInv'
<1>1. CASE \E scheme \in Ecdsa \cup Schnorr, tag \in Tags : Sign(scheme, tag)
  BY <1>1, SignKeeps
<1>2. CASE Amend
  BY <1>2, NoCheckerYet DEF Amend, SigInv, OrderInv
<1>3. CASE \E tag \in Tags : Retag(tag)
  BY <1>3, RetagKeeps
<1>4. CASE \E spent \in {{}, {scene.spent}} : NewChecker(spent)
  BY <1>4, NewCheckerKeeps
<1>5. CASE \E scheme \in Ecdsa : CheckEcdsa(scheme)
  BY <1>5, CheckEcdsaKeeps
<1>6. CASE \E scheme \in Schnorr : CheckSchnorr(scheme)
  BY <1>6, CheckSchnorrKeeps
<1>7. CASE UNCHANGED sigVars
  BY <1>7, SameAnswers DEF sigVars, SigInv, CheckerInv, AnswerInv, OrderInv
<1> QED  BY <1>1, <1>2, <1>3, <1>4, <1>5, <1>6, <1>7 DEF SigNext

\* Whatever midstates the caller had and whatever was checked before, a checker
\* answers like one that has computed nothing yet (_taproot_precomputed,
\* bip143_sighash).
THEOREM CacheIsInvisible == SigSpec => []CachedIsFresh
<1>1. SigInit => SigInv  BY SigInitially
<1>2. SigInv /\ [SigNext]_sigVars => SigInv'  BY SigStep
<1>3. SigInv => CachedIsFresh  BY DEF SigInv, AnswerInv, CachedIsFresh
<1> QED  BY <1>1, <1>2, <1>3, PTL DEF SigSpec

------------------------------------------------------------------------------
(* Scenes.                                                                 *)

Prevouts(s) == [k \in DOMAIN s.tx.vin |-> s.tx.vin[k].prevout]
Sequences(s) == [k \in DOMAIN s.tx.vin |-> s.tx.vin[k].sequence]

\* What is used of a scene.
LEMMA SceneIs ==
  ASSUME NEW s, IsScene(s)
  PROVE  /\ Len(s.tx.vin) \in Nat /\ DOMAIN s.tx.vin = 1..Len(s.tx.vin)
         /\ Len(s.tx.vout) \in Nat /\ DOMAIN s.tx.vout = 1..Len(s.tx.vout)
         /\ DOMAIN s.spent = DOMAIN s.tx.vin
         /\ s.index \in Nat \ {0} /\ s.index \in DOMAIN s.tx.vin
         /\ \A k \in DOMAIN s.tx.vin :
              s.tx.vin[k] = [prevout |-> s.tx.vin[k].prevout,
                             sequence |-> s.tx.vin[k].sequence]
         /\ \A k \in DOMAIN s.spent :
              s.spent[k] = [value |-> s.spent[k].value, script |-> s.spent[k].script]
         /\ \E S : s.tx.vin \in Seq(S)
         /\ \E S : s.tx.vout \in Seq(S)
         /\ \E S : s.spent \in Seq(S)
<1>1. /\ Len(s.tx.vin) \in Nat /\ DOMAIN s.tx.vin = 1..Len(s.tx.vin)
      /\ Len(s.tx.vout) \in Nat /\ DOMAIN s.tx.vout = 1..Len(s.tx.vout)
      /\ Len(s.spent) \in Nat /\ DOMAIN s.spent = 1..Len(s.spent)
  BY LenProperties DEF IsScene
<1>2. \A k \in DOMAIN s.tx.vin : s.tx.vin[k] \in Range(s.tx.vin)
  BY DEF Range
<1>3. \A k \in DOMAIN s.spent : s.spent[k] \in Range(s.spent)
  BY DEF Range
<1>. QED BY <1>1, <1>2, <1>3 DEF IsScene

------------------------------------------------------------------------------
(* Legacy messages.                                                        *)

LegacyInput(tx, i, code, base, k) ==
  [prevout |-> tx.vin[k].prevout, script |-> IF k = i THEN code ELSE << >>,
   sequence |-> SignedSequence(tx, i, k, base)]

LegacyInputs(tx, i, code, hashtype) ==
  IF AnyoneCanPay(hashtype) THEN <<LegacyInput(tx, i, code, hashtype % 32, i)>>
  ELSE [k \in DOMAIN tx.vin |-> LegacyInput(tx, i, code, hashtype % 32, k)]

LegacyOutputs(tx, i, base) ==
  CASE base = SIGHASH_NONE -> << >>
    [] base = SIGHASH_SINGLE -> Append([k \in 1..(i - 1) |-> BlankedOutput], tx.vout[i])
    [] OTHER -> tx.vout

LEMMA LegacyIs ==
  ASSUME NEW s, NEW h, ~SignsNothing("legacy", s, h)
  PROVE  legacy_sighash(s.tx, s.index, s.code, h)
           = [version |-> s.tx.version,
              inputs |-> LegacyInputs(s.tx, s.index, SignedOps(s), h),
              outputs |-> LegacyOutputs(s.tx, s.index, h % 32),
              locktime |-> s.tx.locktime, hashtype |-> h]
BY DEF legacy_sighash, SignsNothing, LegacyInputs, LegacyInput, LegacyOutputs, SignedOps, Separator

LEMMA LegacyOne ==
  ASSUME NEW s, NEW h, SignsNothing("legacy", s, h)
  PROVE  legacy_sighash(s.tx, s.index, s.code, h) = ONE
BY DEF legacy_sighash, SignsNothing

\* What t must have kept of s, with the script codes c and d.
SameInputs(s, t, c, d, h) ==
  /\ s.tx.vin[s.index] = t.tx.vin[t.index] /\ c = d
  /\ ~AnyoneCanPay(h) =>
       /\ Prevouts(s) = Prevouts(t) /\ s.index = t.index
       /\ Whole(h % 32) => Sequences(s) = Sequences(t)

SameOutputs(s, t, h) ==
  /\ Whole(h % 32) => s.tx.vout = t.tx.vout
  /\ h % 32 = SIGHASH_SINGLE =>
       Output(s.tx, s.index) = Output(t.tx, t.index) /\ s.index = t.index

\* The own input is told by its script code, the only one that is not empty.
LEMMA InputsAlike ==
  ASSUME NEW s, NEW t, IsScene(s), IsScene(t), NEW c, NEW d, c # << >>, d # << >>, NEW h
  PROVE  LegacyInputs(s.tx, s.index, c, h) = LegacyInputs(t.tx, t.index, d, h)
           <=> SameInputs(s, t, c, d, h)
<1> DEFINE v == s.tx.vin
           w == t.tx.vin
           i == s.index
           j == t.index
<1>0. /\ \A k \in DOMAIN v : v[k] = [prevout |-> v[k].prevout, sequence |-> v[k].sequence]
      /\ \A k \in DOMAIN w : w[k] = [prevout |-> w[k].prevout, sequence |-> w[k].sequence]
      /\ i \in DOMAIN v /\ j \in DOMAIN w
  BY SceneIs
<1>1. /\ Prevouts(s) = [k \in DOMAIN v |-> v[k].prevout]
      /\ Prevouts(t) = [k \in DOMAIN w |-> w[k].prevout]
      /\ Sequences(s) = [k \in DOMAIN v |-> v[k].sequence]
      /\ Sequences(t) = [k \in DOMAIN w |-> w[k].sequence]
  BY DEF Prevouts, Sequences
<1> DEFINE a(k) == LegacyInput(s.tx, i, c, h % 32, k)
           b(k) == LegacyInput(t.tx, j, d, h % 32, k)
<1>2. \A k, l : a(k) = b(l) <=>
        /\ v[k].prevout = w[l].prevout
        /\ (IF k = i THEN c ELSE << >>) = (IF l = j THEN d ELSE << >>)
        /\ SignedSequence(s.tx, i, k, h % 32) = SignedSequence(t.tx, j, l, h % 32)
  BY DEF LegacyInput
<1>3. a(i) = b(j) <=> v[i] = w[j] /\ c = d
  <2>1. a(i) = b(j) <=> v[i].prevout = w[j].prevout /\ c = d /\ v[i].sequence = w[j].sequence
    BY <1>2 DEF SignedSequence
  <2>2. v[i] = w[j] <=> v[i].prevout = w[j].prevout /\ v[i].sequence = w[j].sequence
    BY <1>0
  <2>. QED BY <2>1, <2>2
<1>4. CASE AnyoneCanPay(h)
  <2>1. /\ LegacyInputs(s.tx, i, c, h) = <<a(i)>>
        /\ LegacyInputs(t.tx, j, d, h) = <<b(j)>>
    BY <1>4 DEF LegacyInputs
  <2>2. <<a(i)>> = <<b(j)>> <=> a(i) = b(j)
    <3> HIDE DEF a, b
    <3>. QED OBVIOUS
  <2>. QED BY <1>3, <1>4, <2>1, <2>2 DEF SameInputs
<1>5. CASE ~AnyoneCanPay(h)
  <2>1. /\ LegacyInputs(s.tx, i, c, h) = [k \in DOMAIN v |-> a(k)]
        /\ LegacyInputs(t.tx, j, d, h) = [k \in DOMAIN w |-> b(k)]
    BY <1>5 DEF LegacyInputs
  <2>2. [k \in DOMAIN v |-> a(k)] = [k \in DOMAIN w |-> b(k)] <=>
          DOMAIN v = DOMAIN w /\ \A k \in DOMAIN v : a(k) = b(k)
    <3> HIDE DEF a, b, v, w
    <3>. QED OBVIOUS
  <2>3. Prevouts(s) = Prevouts(t) <=>
          DOMAIN v = DOMAIN w /\ \A k \in DOMAIN v : v[k].prevout = w[k].prevout
    <3> HIDE DEF v, w
    <3>. QED BY <1>1
  <2>4. Sequences(s) = Sequences(t) <=>
          DOMAIN v = DOMAIN w /\ \A k \in DOMAIN v : v[k].sequence = w[k].sequence
    <3> HIDE DEF v, w
    <3>. QED BY <1>1
  <2>5. ASSUME DOMAIN v = DOMAIN w, \A k \in DOMAIN v : a(k) = b(k)
        PROVE  /\ i = j /\ v[i] = w[j] /\ c = d
               /\ \A k \in DOMAIN v : v[k].prevout = w[k].prevout
               /\ Whole(h % 32) => \A k \in DOMAIN v : v[k].sequence = w[k].sequence
    <3>1. a(i) = b(i)
      BY <1>0, <2>5
    <3>2. i = j
      BY <1>2, <3>1
    <3>3. \A k \in DOMAIN v : v[k].prevout = w[k].prevout
      BY <1>2, <2>5
    <3>4. Whole(h % 32) => \A k \in DOMAIN v : v[k].sequence = w[k].sequence
      BY <1>2, <2>5 DEF SignedSequence
    <3>. QED BY <1>3, <3>1, <3>2, <3>3, <3>4
  <2>6. ASSUME DOMAIN v = DOMAIN w, i = j, v[i] = w[j], c = d,
               \A k \in DOMAIN v : v[k].prevout = w[k].prevout,
               Whole(h % 32) => \A k \in DOMAIN v : v[k].sequence = w[k].sequence
        PROVE  \A k \in DOMAIN v : a(k) = b(k)
    <3> TAKE k \in DOMAIN v
    <3>1. SignedSequence(s.tx, i, k, h % 32) = SignedSequence(t.tx, j, k, h % 32)
      BY <2>6 DEF SignedSequence
    <3>. QED BY <1>2, <2>6, <3>1
  <2>7. [k \in DOMAIN v |-> a(k)] = [k \in DOMAIN w |-> b(k)] <=>
          /\ v[i] = w[j] /\ c = d /\ Prevouts(s) = Prevouts(t) /\ i = j
          /\ Whole(h % 32) => Sequences(s) = Sequences(t)
    <3> HIDE DEF a, b, v, w, i, j
    <3>. QED BY <2>2, <2>3, <2>4, <2>5, <2>6
  <2>. QED BY <1>5, <2>1, <2>7 DEF SameInputs
<1>. QED BY <1>4, <1>5

\* The outputs before the own one are counted.
LEMMA OutputsAlike ==
  ASSUME NEW s, NEW t, IsScene(s), IsScene(t), NEW h,
         ~SignsNothing("legacy", s, h), ~SignsNothing("legacy", t, h)
  PROVE  LegacyOutputs(s.tx, s.index, h % 32) = LegacyOutputs(t.tx, t.index, h % 32)
           <=> SameOutputs(s, t, h)
<1>1. CASE h % 32 # SIGHASH_SINGLE
  BY <1>1 DEF LegacyOutputs, SameOutputs, Whole, SIGHASH_NONE, SIGHASH_SINGLE
<1>2. CASE h % 32 = SIGHASH_SINGLE
  <2> DEFINE Before(i) == [k \in 1..(i - 1) |-> BlankedOutput]
             Outs(u) == Append(Before(u.index), u.tx.vout[u.index])
  <2>1. /\ LegacyOutputs(s.tx, s.index, h % 32) = Outs(s)
        /\ LegacyOutputs(t.tx, t.index, h % 32) = Outs(t)
        /\ ~Whole(h % 32)
    <3>1. SIGHASH_SINGLE # SIGHASH_NONE
      BY DEF SIGHASH_NONE, SIGHASH_SINGLE
    <3>. QED BY Zenon, <1>2, <3>1 DEF LegacyOutputs, Whole
  <2>2. \A u \in {s, t} : /\ u.index \in DOMAIN u.tx.vout
                          /\ Output(u.tx, u.index) = {u.tx.vout[u.index]}
    BY <1>2 DEF SignsNothing, Output
  <2>3. ASSUME NEW u \in {s, t}
        PROVE  Len(Outs(u)) = u.index /\ Outs(u)[u.index] = u.tx.vout[u.index]
    <3>1. u.index \in Nat \ {0}
      BY SceneIs
    <3>2. PICK out : out = u.tx.vout[u.index]
      OBVIOUS
    <3>3. PICK n \in Nat : n = u.index - 1
      BY <3>1
    <3>4. Before(u.index) \in Seq({BlankedOutput, out}) /\ Len(Before(u.index)) = n
      BY <3>3
    <3>5. /\ Len(Append(Before(u.index), out)) = n + 1
          /\ Append(Before(u.index), out)[n + 1] = out
      <4> HIDE DEF Before
      <4>. QED BY <3>4, AppendProperties
    <3>. QED BY <3>1, <3>2, <3>3, <3>5
  <2>. HIDE DEF Outs
  <2>4. Outs(s) = Outs(t) => s.index = t.index /\ s.tx.vout[s.index] = t.tx.vout[t.index]
    BY <2>3
  <2>5. s.index = t.index /\ s.tx.vout[s.index] = t.tx.vout[t.index] => Outs(s) = Outs(t)
    BY DEF Outs
  <2>. QED BY <1>2, <2>1, <2>2, <2>4, <2>5 DEF SameOutputs
<1>. QED BY <1>1, <1>2

\* t, with the amount b, has what a signature of s with the amount a names.
SameNamed(scheme, s, t, a, b, h) ==
  \A part \in Named(scheme, h) : Parts(t, b)[part] = Parts(s, a)[part]

LEMMA PartsAre ==
  ASSUME NEW s, NEW a
  PROVE  /\ Parts(s, a).version = s.tx.version /\ Parts(s, a).locktime = s.tx.locktime
         /\ Parts(s, a).own_input = s.tx.vin[s.index]
         /\ Parts(s, a).prevouts = Prevouts(s) /\ Parts(s, a).sequences = Sequences(s)
         /\ Parts(s, a).index = s.index
         /\ Parts(s, a).outputs = s.tx.vout
         /\ Parts(s, a).own_output = Output(s.tx, s.index)
         /\ Parts(s, a).amount = a
         /\ Parts(s, a).own_spent = s.spent[s.index] /\ Parts(s, a).spent = s.spent
         /\ Parts(s, a).code = s.code
         /\ Parts(s, a).signed_ops = SignedOps(s)
         /\ Parts(s, a).annex = s.exec.annex
         /\ Parts(s, a).leaf = <<s.exec.leaf, s.exec.codesep>>
BY DEF Parts, Prevouts, Sequences

SamePart(s, t, a, b, part) == Parts(t, b)[part] = Parts(s, a)[part]

LEMMA SamePartsAre ==
  ASSUME NEW s, NEW t, NEW a, NEW b
  PROVE  /\ SamePart(s, t, a, b, "version") <=> s.tx.version = t.tx.version
         /\ SamePart(s, t, a, b, "locktime") <=> s.tx.locktime = t.tx.locktime
         /\ SamePart(s, t, a, b, "own_input") <=> s.tx.vin[s.index] = t.tx.vin[t.index]
         /\ SamePart(s, t, a, b, "prevouts") <=> Prevouts(s) = Prevouts(t)
         /\ SamePart(s, t, a, b, "sequences") <=> Sequences(s) = Sequences(t)
         /\ SamePart(s, t, a, b, "index") <=> s.index = t.index
         /\ SamePart(s, t, a, b, "outputs") <=> s.tx.vout = t.tx.vout
         /\ SamePart(s, t, a, b, "own_output") <=>
              Output(s.tx, s.index) = Output(t.tx, t.index)
         /\ SamePart(s, t, a, b, "amount") <=> a = b
         /\ SamePart(s, t, a, b, "own_spent") <=> s.spent[s.index] = t.spent[t.index]
         /\ SamePart(s, t, a, b, "spent") <=> s.spent = t.spent
         /\ SamePart(s, t, a, b, "code") <=> s.code = t.code
         /\ SamePart(s, t, a, b, "signed_ops") <=>
              SignedOps(s) = SignedOps(t)
         /\ SamePart(s, t, a, b, "annex") <=> s.exec.annex = t.exec.annex
         /\ SamePart(s, t, a, b, "leaf") <=>
              s.exec.leaf = t.exec.leaf /\ s.exec.codesep = t.exec.codesep
<1>1. /\ SamePart(s, t, a, b, "version") <=> s.tx.version = t.tx.version
      /\ SamePart(s, t, a, b, "locktime") <=> s.tx.locktime = t.tx.locktime
      /\ SamePart(s, t, a, b, "own_input") <=> s.tx.vin[s.index] = t.tx.vin[t.index]
      /\ SamePart(s, t, a, b, "prevouts") <=> Prevouts(s) = Prevouts(t)
      /\ SamePart(s, t, a, b, "sequences") <=> Sequences(s) = Sequences(t)
  BY PartsAre DEF SamePart
<1>2. /\ SamePart(s, t, a, b, "index") <=> s.index = t.index
      /\ SamePart(s, t, a, b, "outputs") <=> s.tx.vout = t.tx.vout
      /\ SamePart(s, t, a, b, "own_output") <=>
           Output(s.tx, s.index) = Output(t.tx, t.index)
      /\ SamePart(s, t, a, b, "amount") <=> a = b
      /\ SamePart(s, t, a, b, "own_spent") <=> s.spent[s.index] = t.spent[t.index]
  BY PartsAre DEF SamePart
<1>3. /\ SamePart(s, t, a, b, "spent") <=> s.spent = t.spent
      /\ SamePart(s, t, a, b, "code") <=> s.code = t.code
      /\ SamePart(s, t, a, b, "signed_ops") <=>
           SignedOps(s) = SignedOps(t)
      /\ SamePart(s, t, a, b, "annex") <=> s.exec.annex = t.exec.annex
  BY PartsAre DEF SamePart
<1>4. SamePart(s, t, a, b, "leaf") <=>
        s.exec.leaf = t.exec.leaf /\ s.exec.codesep = t.exec.codesep
  BY PartsAre DEF SamePart
<1>. QED BY <1>1, <1>2, <1>3, <1>4

\* What a legacy signature names, part by part.
LEMMA LegacyNames ==
  ASSUME NEW s, NEW t, NEW a, NEW b, NEW h
  PROVE  SameNamed("legacy", s, t, a, b, h) <=>
           /\ s.tx.version = t.tx.version /\ s.tx.locktime = t.tx.locktime
           /\ SameInputs(s, t, SignedOps(s),
                         SignedOps(t), h)
           /\ SameOutputs(s, t, h)
<1>1. \A part : part \in Named("legacy", h) <=>
        \/ part \in {"version", "locktime", "own_input", "signed_ops"}
        \/ Whole(h % 32) /\ part = "outputs"
        \/ h % 32 = SIGHASH_SINGLE /\ part \in {"own_output", "index"}
        \/ ~AnyoneCanPay(h) /\ part \in {"prevouts", "index"}
        \/ ~AnyoneCanPay(h) /\ Whole(h % 32) /\ part = "sequences"
  BY DEF Named, Schnorr, Whole, SIGHASH_SINGLE
<1>2. SameNamed("legacy", s, t, a, b, h) <=>
        \A part \in Named("legacy", h) : SamePart(s, t, a, b, part)
  BY DEF SameNamed, SamePart
<1>3. (\A part \in Named("legacy", h) : SamePart(s, t, a, b, part)) <=>
        /\ \A part \in {"version", "locktime", "own_input", "signed_ops"} :
             SamePart(s, t, a, b, part)
        /\ Whole(h % 32) => SamePart(s, t, a, b, "outputs")
        /\ h % 32 = SIGHASH_SINGLE =>
             SamePart(s, t, a, b, "own_output") /\ SamePart(s, t, a, b, "index")
        /\ ~AnyoneCanPay(h) =>
             SamePart(s, t, a, b, "prevouts") /\ SamePart(s, t, a, b, "index")
        /\ ~AnyoneCanPay(h) /\ Whole(h % 32) => SamePart(s, t, a, b, "sequences")
  BY <1>1
<1>4. /\ SamePart(s, t, a, b, "version") <=> s.tx.version = t.tx.version
      /\ SamePart(s, t, a, b, "locktime") <=> s.tx.locktime = t.tx.locktime
      /\ SamePart(s, t, a, b, "own_input") <=> s.tx.vin[s.index] = t.tx.vin[t.index]
      /\ SamePart(s, t, a, b, "prevouts") <=> Prevouts(s) = Prevouts(t)
      /\ SamePart(s, t, a, b, "sequences") <=> Sequences(s) = Sequences(t)
      /\ SamePart(s, t, a, b, "index") <=> s.index = t.index
      /\ SamePart(s, t, a, b, "outputs") <=> s.tx.vout = t.tx.vout
      /\ SamePart(s, t, a, b, "own_output") <=>
           Output(s.tx, s.index) = Output(t.tx, t.index)
      /\ SamePart(s, t, a, b, "signed_ops") <=>
           SignedOps(s) = SignedOps(t)
  BY SamePartsAre
<1>. QED BY <1>2, <1>3, <1>4 DEF SameInputs, SameOutputs

LEMMA LegacyAlike ==
  ASSUME NEW s, NEW t, IsScene(s), IsScene(t), NEW a, NEW b, NEW g, NEW h
  PROVE  legacy_sighash(s.tx, s.index, s.code, g) = legacy_sighash(t.tx, t.index, t.code, h)
           <=> IF SignsNothing("legacy", s, g) THEN SignsNothing("legacy", t, h)
               ELSE /\ g = h /\ ~SignsNothing("legacy", t, h)
                    /\ SameNamed("legacy", s, t, a, b, h)
<1> DEFINE M(u, k) == legacy_sighash(u.tx, u.index, u.code, k)
           Ins(u, k) == LegacyInputs(u.tx, u.index, SignedOps(u), k)
           Outs(u, k) == LegacyOutputs(u.tx, u.index, k % 32)
           Full(u, k) == [version |-> u.tx.version, inputs |-> Ins(u, k),
                          outputs |-> Outs(u, k), locktime |-> u.tx.locktime, hashtype |-> k]
<1>1. \A u, k : M(u, k) = IF SignsNothing("legacy", u, k) THEN ONE ELSE Full(u, k)
  BY LegacyIs, LegacyOne
<1>2. \A u, k : Full(u, k) # ONE
  <2> HIDE DEF Ins, Outs
  <2>. QED BY DEF ONE
<1>3. Full(s, g) = Full(t, h) <=>
        /\ g = h /\ s.tx.version = t.tx.version /\ s.tx.locktime = t.tx.locktime
        /\ Ins(s, g) = Ins(t, h) /\ Outs(s, g) = Outs(t, h)
  <2> HIDE DEF Ins, Outs
  <2>. QED OBVIOUS
<1>4. CASE SignsNothing("legacy", s, g) \/ SignsNothing("legacy", t, h)
  <2> HIDE DEF M, Full
  <2>1. M(s, g) = M(t, h) <=> SignsNothing("legacy", s, g) /\ SignsNothing("legacy", t, h)
    BY <1>1, <1>2, <1>4
  <2>. QED BY <1>4, <2>1 DEF M
<1>5. CASE ~SignsNothing("legacy", s, g) /\ ~SignsNothing("legacy", t, h) /\ g = h
  <2>1. SignedOps(s) # << >> /\ SignedOps(t) # << >>
    BY DEF IsScene
  <2>2. Ins(s, g) = Ins(t, g) <=> SameInputs(s, t, SignedOps(s), SignedOps(t), g)
    BY Zenon, <2>1, InputsAlike
  <2>3. Outs(s, g) = Outs(t, g) <=> SameOutputs(s, t, g)
    BY Zenon, <1>5, OutputsAlike
  <2>4. M(s, g) = M(t, g) <=> Full(s, g) = Full(t, g)
    <3> HIDE DEF M, Full
    <3>. QED BY <1>1, <1>5
  <2>5. SameNamed("legacy", s, t, a, b, g) <=>
           /\ s.tx.version = t.tx.version /\ s.tx.locktime = t.tx.locktime
           /\ Ins(s, g) = Ins(t, g) /\ Outs(s, g) = Outs(t, g)
    <3>1. SameNamed("legacy", s, t, a, b, g) <=>
           /\ s.tx.version = t.tx.version /\ s.tx.locktime = t.tx.locktime
           /\ SameInputs(s, t, SignedOps(s), SignedOps(t), g) /\ SameOutputs(s, t, g)
      BY Zenon, LegacyNames
    <3> HIDE DEF Ins, Outs
    <3>. QED BY <2>2, <2>3, <3>1
  <2>. QED BY <1>3, <1>5, <2>4, <2>5
<1>6. CASE ~SignsNothing("legacy", s, g) /\ ~SignsNothing("legacy", t, h) /\ g # h
  <2>1. M(s, g) # M(t, h)
    <3> HIDE DEF M, Full
    <3>. QED BY <1>1, <1>3, <1>6
  <2>. QED BY <1>6, <2>1
<1>. QED BY <1>4, <1>5, <1>6

------------------------------------------------------------------------------
(* Version 0 messages.                                                     *)

V0Prevouts(s, h) == IF AnyoneCanPay(h) THEN {} ELSE {Prevouts(s)}
V0Sequences(s, h) ==
  IF AnyoneCanPay(h) \/ ~Whole(h % 32) THEN {} ELSE {Sequences(s)}
V0Outputs(s, h) ==
  IF Whole(h % 32) THEN {s.tx.vout}
  ELSE IF h % 32 = SIGHASH_SINGLE THEN {<<o>> : o \in Output(s.tx, s.index)} ELSE {}

LEMMA V0Is ==
  ASSUME NEW s, NEW a, NEW h
  PROVE  bip143_sighash(s.tx, s.index, s.code, a, h, {})
           = [version |-> s.tx.version, hash_prevouts |-> V0Prevouts(s, h),
              hash_sequence |-> V0Sequences(s, h), prevout |-> s.tx.vin[s.index].prevout,
              script_code |-> s.code, amount |-> a,
              sequence |-> s.tx.vin[s.index].sequence,
              hash_outputs |-> V0Outputs(s, h), locktime |-> s.tx.locktime,
              hashtype |-> h]
<1>1. Bip143Midstates(s.tx, {}) = compute(s.tx, {})
  BY DEF Bip143Midstates
<1>2. PICK m : m = compute(s.tx, {})
  OBVIOUS
<1>3. /\ m.hash_prevouts = {Prevouts(s)} /\ m.hash_sequence = {Sequences(s)}
      /\ m.hash_outputs = {s.tx.vout}
  BY <1>2 DEF compute, Prevouts, Sequences
<1>. QED BY <1>1, <1>2, <1>3 DEF bip143_sighash, V0Prevouts, V0Sequences, V0Outputs

LEMMA V0Names ==
  ASSUME NEW s, NEW t, NEW a, NEW b, NEW h
  PROVE  SameNamed("v0", s, t, a, b, h) <=>
           /\ s.tx.version = t.tx.version /\ s.tx.locktime = t.tx.locktime
           /\ s.tx.vin[s.index] = t.tx.vin[t.index] /\ s.code = t.code /\ a = b
           /\ ~AnyoneCanPay(h) => Prevouts(s) = Prevouts(t)
           /\ ~AnyoneCanPay(h) /\ Whole(h % 32) => Sequences(s) = Sequences(t)
           /\ Whole(h % 32) => s.tx.vout = t.tx.vout
           /\ h % 32 = SIGHASH_SINGLE => Output(s.tx, s.index) = Output(t.tx, t.index)
<1>1. \A part : part \in Named("v0", h) <=>
        \/ part \in {"version", "locktime", "own_input", "code", "amount"}
        \/ Whole(h % 32) /\ part = "outputs"
        \/ h % 32 = SIGHASH_SINGLE /\ part = "own_output"
        \/ ~AnyoneCanPay(h) /\ part = "prevouts"
        \/ ~AnyoneCanPay(h) /\ Whole(h % 32) /\ part = "sequences"
  BY DEF Named, Schnorr, Whole, SIGHASH_SINGLE
<1>2. SameNamed("v0", s, t, a, b, h) <=>
        \A part \in Named("v0", h) : SamePart(s, t, a, b, part)
  BY DEF SameNamed, SamePart
<1>3. (\A part \in Named("v0", h) : SamePart(s, t, a, b, part)) <=>
        /\ \A part \in {"version", "locktime", "own_input", "code", "amount"} :
             SamePart(s, t, a, b, part)
        /\ Whole(h % 32) => SamePart(s, t, a, b, "outputs")
        /\ h % 32 = SIGHASH_SINGLE => SamePart(s, t, a, b, "own_output")
        /\ ~AnyoneCanPay(h) => SamePart(s, t, a, b, "prevouts")
        /\ ~AnyoneCanPay(h) /\ Whole(h % 32) => SamePart(s, t, a, b, "sequences")
  BY <1>1
<1>4. /\ SamePart(s, t, a, b, "version") <=> s.tx.version = t.tx.version
      /\ SamePart(s, t, a, b, "locktime") <=> s.tx.locktime = t.tx.locktime
      /\ SamePart(s, t, a, b, "own_input") <=> s.tx.vin[s.index] = t.tx.vin[t.index]
      /\ SamePart(s, t, a, b, "prevouts") <=> Prevouts(s) = Prevouts(t)
      /\ SamePart(s, t, a, b, "sequences") <=> Sequences(s) = Sequences(t)
      /\ SamePart(s, t, a, b, "outputs") <=> s.tx.vout = t.tx.vout
      /\ SamePart(s, t, a, b, "own_output") <=>
           Output(s.tx, s.index) = Output(t.tx, t.index)
      /\ SamePart(s, t, a, b, "code") <=> s.code = t.code
      /\ SamePart(s, t, a, b, "amount") <=> a = b
  BY SamePartsAre
<1>. QED BY <1>2, <1>3, <1>4

LEMMA OwnInputIs ==
  ASSUME NEW s, NEW t, IsScene(s), IsScene(t)
  PROVE  s.tx.vin[s.index] = t.tx.vin[t.index] <=>
           /\ s.tx.vin[s.index].prevout = t.tx.vin[t.index].prevout
           /\ s.tx.vin[s.index].sequence = t.tx.vin[t.index].sequence
<1>1. PICK v : v = s.tx.vin[s.index]
  OBVIOUS
<1>2. PICK w : w = t.tx.vin[t.index]
  OBVIOUS
<1>3. v = [prevout |-> v.prevout, sequence |-> v.sequence]
  BY <1>1, SceneIs
<1>4. w = [prevout |-> w.prevout, sequence |-> w.sequence]
  BY <1>2, SceneIs
<1>5. v = w <=> v.prevout = w.prevout /\ v.sequence = w.sequence
  BY <1>3, <1>4
<1>. QED BY <1>1, <1>2, <1>5

LEMMA V0Alike ==
  ASSUME NEW s, NEW t, IsScene(s), IsScene(t), NEW a, NEW b, NEW g, NEW h
  PROVE  bip143_sighash(s.tx, s.index, s.code, a, g, {})
             = bip143_sighash(t.tx, t.index, t.code, b, h, {})
           <=> g = h /\ SameNamed("v0", s, t, a, b, h)
<1>1. PICK x : x = bip143_sighash(s.tx, s.index, s.code, a, g, {})
  OBVIOUS
<1>2. PICK y : y = bip143_sighash(t.tx, t.index, t.code, b, h, {})
  OBVIOUS
<1>3. x = y <=>
        /\ s.tx.version = t.tx.version /\ V0Prevouts(s, g) = V0Prevouts(t, h)
        /\ V0Sequences(s, g) = V0Sequences(t, h)
        /\ s.tx.vin[s.index].prevout = t.tx.vin[t.index].prevout
        /\ s.code = t.code /\ a = b
        /\ s.tx.vin[s.index].sequence = t.tx.vin[t.index].sequence
        /\ V0Outputs(s, g) = V0Outputs(t, h) /\ s.tx.locktime = t.tx.locktime /\ g = h
  <2>1. x = [version |-> s.tx.version, hash_prevouts |-> V0Prevouts(s, g),
             hash_sequence |-> V0Sequences(s, g), prevout |-> s.tx.vin[s.index].prevout,
             script_code |-> s.code, amount |-> a,
             sequence |-> s.tx.vin[s.index].sequence,
             hash_outputs |-> V0Outputs(s, g), locktime |-> s.tx.locktime,
             hashtype |-> g]
    BY <1>1, V0Is
  <2>2. y = [version |-> t.tx.version, hash_prevouts |-> V0Prevouts(t, h),
             hash_sequence |-> V0Sequences(t, h), prevout |-> t.tx.vin[t.index].prevout,
             script_code |-> t.code, amount |-> b,
             sequence |-> t.tx.vin[t.index].sequence,
             hash_outputs |-> V0Outputs(t, h), locktime |-> t.tx.locktime,
             hashtype |-> h]
    BY <1>2, V0Is
  <2>. QED BY <2>1, <2>2
<1>4. s.tx.vin[s.index] = t.tx.vin[t.index] <=>
        /\ s.tx.vin[s.index].prevout = t.tx.vin[t.index].prevout
        /\ s.tx.vin[s.index].sequence = t.tx.vin[t.index].sequence
  BY OwnInputIs
<1>5. V0Prevouts(s, h) = V0Prevouts(t, h) <=> (~AnyoneCanPay(h) => Prevouts(s) = Prevouts(t))
  BY DEF V0Prevouts
<1>6. V0Sequences(s, h) = V0Sequences(t, h) <=>
        (~AnyoneCanPay(h) /\ Whole(h % 32) => Sequences(s) = Sequences(t))
  BY DEF V0Sequences
<1>7. V0Outputs(s, h) = V0Outputs(t, h) <=>
        /\ Whole(h % 32) => s.tx.vout = t.tx.vout
        /\ h % 32 = SIGHASH_SINGLE => Output(s.tx, s.index) = Output(t.tx, t.index)
  <2>1. CASE Whole(h % 32)
    <3>1. h % 32 # SIGHASH_SINGLE
      BY <2>1 DEF Whole
    <3>. QED BY <2>1, <3>1 DEF V0Outputs
  <2>2. CASE ~Whole(h % 32) /\ h % 32 # SIGHASH_SINGLE
    BY <2>2 DEF V0Outputs
  <2>3. CASE ~Whole(h % 32) /\ h % 32 = SIGHASH_SINGLE
    <3>1. PICK O : O = Output(s.tx, s.index)
      OBVIOUS
    <3>2. PICK P : P = Output(t.tx, t.index)
      OBVIOUS
    <3>3. {<<o>> : o \in O} = {<<o>> : o \in P} <=> O = P
      <4>1. ASSUME NEW A, NEW B, {<<o>> : o \in A} = {<<o>> : o \in B}, NEW o \in A
            PROVE  o \in B
        <5>1. <<o>> \in {<<q>> : q \in B}
          BY <4>1
        <5>2. PICK q \in B : <<o>> = <<q>>
          BY <5>1
        <5>. QED BY <5>2
      <4>2. {<<o>> : o \in O} = {<<o>> : o \in P} => O = P
        <5> SUFFICES ASSUME {<<o>> : o \in O} = {<<o>> : o \in P}
                     PROVE  O = P
          OBVIOUS
        <5>1. \A o \in O : o \in P
          BY <4>1
        <5>2. \A o \in P : o \in O
          BY <4>1
        <5>. QED BY <5>1, <5>2 DEF Output
      <4>. QED BY <4>2
    <3>4. /\ V0Outputs(s, h) = {<<o>> : o \in O}
          /\ V0Outputs(t, h) = {<<o>> : o \in P}
      BY Zenon, <2>3, <3>1, <3>2 DEF V0Outputs
    <3>. QED BY <2>3, <3>1, <3>2, <3>3, <3>4
  <2>. QED BY <2>1, <2>2, <2>3
<1>8. SameNamed("v0", s, t, a, b, h) <=>
           /\ s.tx.version = t.tx.version /\ s.tx.locktime = t.tx.locktime
           /\ s.tx.vin[s.index] = t.tx.vin[t.index] /\ s.code = t.code /\ a = b
           /\ ~AnyoneCanPay(h) => Prevouts(s) = Prevouts(t)
           /\ ~AnyoneCanPay(h) /\ Whole(h % 32) => Sequences(s) = Sequences(t)
           /\ Whole(h % 32) => s.tx.vout = t.tx.vout
           /\ h % 32 = SIGHASH_SINGLE => Output(s.tx, s.index) = Output(t.tx, t.index)
  BY V0Names
<1>9. CASE g # h
  BY <1>1, <1>2, <1>3, <1>9
<1>10. CASE g = h
  BY <1>1, <1>2, <1>3, <1>4, <1>5, <1>6, <1>7, <1>8, <1>10
<1>. QED BY <1>9, <1>10

------------------------------------------------------------------------------
(* Taproot messages.                                                       *)

Values(s) == [k \in DOMAIN s.spent |-> s.spent[k].value]
Scripts(s) == [k \in DOMAIN s.spent |-> s.spent[k].script]

TapInputs(s, h) ==
  IF AnyoneCanPay(h) THEN << >>
  ELSE <<{Prevouts(s)}, {Values(s)}, {Scripts(s)}, {Sequences(s)}, s.index>>
TapOutputs(s, h) == IF Whole(h % 4) THEN {s.tx.vout} ELSE {}
TapOwnInput(s, h) ==
  IF AnyoneCanPay(h) THEN {<<s.tx.vin[s.index], s.spent[s.index]>>} ELSE {}
TapOwnOutput(s, h) == IF h % 4 = SIGHASH_SINGLE THEN Output(s.tx, s.index) ELSE {}
TapLeaf(s, flag) == IF flag = 1 THEN <<s.exec.leaf, s.exec.codesep>> ELSE << >>

TapMessage(s, h, flag) ==
  [hash_type |-> h, version |-> s.tx.version, locktime |-> s.tx.locktime,
   all_inputs |-> TapInputs(s, h), all_outputs |-> TapOutputs(s, h),
   ext_flag |-> flag, annex |-> s.exec.annex, own_input |-> TapOwnInput(s, h),
   own_output |-> TapOwnOutput(s, h), tapscript |-> TapLeaf(s, flag)]

LEMMA TapIs ==
  ASSUME NEW s, NEW h, NEW flag
  PROVE  taproot_sighash(s.tx, s.index, {s.spent}, h, compute(s.tx, {s.spent}), flag, s.exec)
           = {m \in {TapMessage(s, h, flag)} :
                h % 4 = SIGHASH_SINGLE => Output(s.tx, s.index) # {}}
<1>1. PICK p : p = compute(s.tx, {s.spent})
  OBVIOUS
<1>2. /\ p.sha_prevouts = {Prevouts(s)} /\ p.sha_sequences = {Sequences(s)}
      /\ p.sha_outputs = {s.tx.vout}
      /\ p.sha_amounts = {Values(s)} /\ p.sha_scriptpubkeys = {Scripts(s)}
  BY <1>1 DEF compute, Prevouts, Sequences, Values, Scripts
<1>3. /\ TapInputs(s, h) = IF AnyoneCanPay(h) THEN << >>
                           ELSE <<p.sha_prevouts, p.sha_amounts, p.sha_scriptpubkeys,
                                  p.sha_sequences, s.index>>
      /\ TapOutputs(s, h) = IF Whole(h % 4) THEN p.sha_outputs ELSE {}
      /\ TapOwnInput(s, h) = IF AnyoneCanPay(h)
                               THEN {<<s.tx.vin[s.index], o[s.index]>> : o \in {s.spent}}
                             ELSE {}
  BY <1>2 DEF TapInputs, TapOutputs, TapOwnInput
<1>4. taproot_sighash(s.tx, s.index, {s.spent}, h, p, flag, s.exec)
        = {m \in {TapMessage(s, h, flag)} :
             /\ h % 4 = SIGHASH_SINGLE => Output(s.tx, s.index) # {}
             /\ AnyoneCanPay(h) => {s.spent} # {}}
  BY Zenon, <1>3 DEF taproot_sighash, TapMessage, TapOwnOutput, TapLeaf
<1>5. {s.spent} # {}
  OBVIOUS
<1>. QED BY <1>1, <1>4, <1>5

\* Without the spent outputs nothing is signed that a signature has signed.
LEMMA TapUnknown ==
  ASSUME NEW s, NEW t, NEW g, NEW h, NEW e, NEW flag
  PROVE  TapMessage(s, g, e) \notin
           taproot_sighash(t.tx, t.index, {}, h, compute(t.tx, {}), flag, t.exec)
<1>1. PICK p : p = compute(t.tx, {})
  OBVIOUS
<1>2. p.sha_prevouts = {}
  BY <1>1 DEF compute
<1> SUFFICES ASSUME NEW m \in taproot_sighash(t.tx, t.index, {}, h, p, flag, t.exec),
                    m = TapMessage(s, g, e)
             PROVE  FALSE
  BY <1>1
<1>3. ~AnyoneCanPay(h) /\ m.hash_type = h /\ m.all_inputs[1] = {}
  BY <1>2 DEF taproot_sighash
<1>4. m.hash_type = g /\ m.all_inputs = TapInputs(s, g)
  BY DEF TapMessage
<1>5. TapInputs(s, h)[1] # {}
  BY <1>3 DEF TapInputs
<1>. QED BY <1>3, <1>4, <1>5

LEMMA TapNames ==
  ASSUME NEW s, NEW t, NEW a, NEW b, NEW h, NEW scheme \in Schnorr
  PROVE  SameNamed(scheme, s, t, a, b, h) <=>
           /\ s.tx.version = t.tx.version /\ s.tx.locktime = t.tx.locktime
           /\ s.tx.vin[s.index] = t.tx.vin[t.index]
           /\ s.exec.annex = t.exec.annex
           /\ ~AnyoneCanPay(h) =>
                /\ Prevouts(s) = Prevouts(t) /\ Sequences(s) = Sequences(t)
                /\ s.index = t.index /\ s.spent = t.spent
           /\ AnyoneCanPay(h) => s.spent[s.index] = t.spent[t.index]
           /\ Whole(h % 4) => s.tx.vout = t.tx.vout
           /\ h % 4 = SIGHASH_SINGLE => Output(s.tx, s.index) = Output(t.tx, t.index)
           /\ scheme = "tapscript" =>
                s.exec.leaf = t.exec.leaf /\ s.exec.codesep = t.exec.codesep
<1>1. \A part : part \in Named(scheme, h) <=>
        \/ part \in {"version", "locktime", "own_input", "annex"}
        \/ Whole(h % 4) /\ part = "outputs"
        \/ h % 4 = SIGHASH_SINGLE /\ part = "own_output"
        \/ ~AnyoneCanPay(h) /\ part \in {"prevouts", "index", "sequences", "spent"}
        \/ AnyoneCanPay(h) /\ part = "own_spent"
        \/ scheme = "tapscript" /\ part = "leaf"
  BY DEF Named, Schnorr, Whole, SIGHASH_SINGLE
<1>2. SameNamed(scheme, s, t, a, b, h) <=>
        \A part \in Named(scheme, h) : SamePart(s, t, a, b, part)
  BY DEF SameNamed, SamePart
<1>3. (\A part \in Named(scheme, h) : SamePart(s, t, a, b, part)) <=>
        /\ \A part \in {"version", "locktime", "own_input", "annex"} :
             SamePart(s, t, a, b, part)
        /\ Whole(h % 4) => SamePart(s, t, a, b, "outputs")
        /\ h % 4 = SIGHASH_SINGLE => SamePart(s, t, a, b, "own_output")
        /\ ~AnyoneCanPay(h) => \A part \in {"prevouts", "index", "sequences", "spent"} :
                                 SamePart(s, t, a, b, part)
        /\ AnyoneCanPay(h) => SamePart(s, t, a, b, "own_spent")
        /\ scheme = "tapscript" => SamePart(s, t, a, b, "leaf")
  BY <1>1
<1>4. /\ SamePart(s, t, a, b, "version") <=> s.tx.version = t.tx.version
      /\ SamePart(s, t, a, b, "locktime") <=> s.tx.locktime = t.tx.locktime
      /\ SamePart(s, t, a, b, "own_input") <=> s.tx.vin[s.index] = t.tx.vin[t.index]
      /\ SamePart(s, t, a, b, "prevouts") <=> Prevouts(s) = Prevouts(t)
      /\ SamePart(s, t, a, b, "sequences") <=> Sequences(s) = Sequences(t)
      /\ SamePart(s, t, a, b, "index") <=> s.index = t.index
      /\ SamePart(s, t, a, b, "outputs") <=> s.tx.vout = t.tx.vout
      /\ SamePart(s, t, a, b, "own_output") <=>
           Output(s.tx, s.index) = Output(t.tx, t.index)
  BY SamePartsAre
<1>5. /\ SamePart(s, t, a, b, "own_spent") <=> s.spent[s.index] = t.spent[t.index]
      /\ SamePart(s, t, a, b, "spent") <=> s.spent = t.spent
      /\ SamePart(s, t, a, b, "annex") <=> s.exec.annex = t.exec.annex
      /\ SamePart(s, t, a, b, "leaf") <=>
           s.exec.leaf = t.exec.leaf /\ s.exec.codesep = t.exec.codesep
  BY SamePartsAre
<1>. QED BY <1>2, <1>3, <1>4, <1>5

LEMMA SpentAlike ==
  ASSUME NEW s, NEW t, IsScene(s), IsScene(t)
  PROVE  s.spent = t.spent <=> Values(s) = Values(t) /\ Scripts(s) = Scripts(t)
<1>1. PICK v : v = s.spent
  OBVIOUS
<1>2. PICK w : w = t.spent
  OBVIOUS
<1>3. /\ \A k \in DOMAIN v : v[k] = [value |-> v[k].value, script |-> v[k].script]
      /\ \A k \in DOMAIN w : w[k] = [value |-> w[k].value, script |-> w[k].script]
  BY <1>1, <1>2, SceneIs
<1>4. v = [k \in DOMAIN v |-> v[k]] /\ w = [k \in DOMAIN w |-> w[k]]
  <2>1. \E S : v \in Seq(S)
    BY <1>1, SceneIs
  <2>2. \E S : w \in Seq(S)
    BY <1>2, SceneIs
  <2>. QED BY <2>1, <2>2
<1>5. /\ Values(s) = [k \in DOMAIN v |-> v[k].value]
      /\ Values(t) = [k \in DOMAIN w |-> w[k].value]
      /\ Scripts(s) = [k \in DOMAIN v |-> v[k].script]
      /\ Scripts(t) = [k \in DOMAIN w |-> w[k].script]
  BY <1>1, <1>2 DEF Values, Scripts
<1>6. ASSUME Values(s) = Values(t), Scripts(s) = Scripts(t)
      PROVE  v = w
  <2>1. DOMAIN v = DOMAIN w
    BY <1>5, <1>6
  <2>2. \A k \in DOMAIN v : v[k].value = w[k].value /\ v[k].script = w[k].script
    BY <1>5, <1>6
  <2>3. \A k \in DOMAIN v : v[k] = w[k]
    BY <1>3, <2>1, <2>2
  <2>. QED BY <1>4, <2>1, <2>3
<1>7. v = w => Values(s) = Values(t) /\ Scripts(s) = Scripts(t)
  BY <1>5
<1>. QED BY <1>1, <1>2, <1>6, <1>7

LEMMA TapAlike ==
  ASSUME NEW s, NEW t, IsScene(s), IsScene(t), NEW a, NEW b, NEW g, NEW h,
         NEW scheme \in Schnorr
  PROVE  TapMessage(s, g, ExtFlag(scheme)) = TapMessage(t, h, ExtFlag(scheme))
           <=> g = h /\ SameNamed(scheme, s, t, a, b, h)
<1> DEFINE flag == ExtFlag(scheme)
<1>1. PICK x : x = TapMessage(s, g, flag)
  OBVIOUS
<1>2. PICK y : y = TapMessage(t, h, flag)
  OBVIOUS
<1>3. x = y <=>
        /\ g = h /\ s.tx.version = t.tx.version /\ s.tx.locktime = t.tx.locktime
        /\ TapInputs(s, g) = TapInputs(t, h) /\ TapOutputs(s, g) = TapOutputs(t, h)
        /\ s.exec.annex = t.exec.annex /\ TapOwnInput(s, g) = TapOwnInput(t, h)
        /\ TapOwnOutput(s, g) = TapOwnOutput(t, h) /\ TapLeaf(s, flag) = TapLeaf(t, flag)
  BY <1>1, <1>2 DEF TapMessage
<1>4. TapInputs(s, h) = TapInputs(t, h) <=>
        (~AnyoneCanPay(h) =>
           /\ Prevouts(s) = Prevouts(t) /\ Sequences(s) = Sequences(t)
           /\ s.index = t.index /\ s.spent = t.spent)
  BY SpentAlike DEF TapInputs
<1>5. TapOutputs(s, h) = TapOutputs(t, h) <=> (Whole(h % 4) => s.tx.vout = t.tx.vout)
  BY DEF TapOutputs
<1>6. TapOwnInput(s, h) = TapOwnInput(t, h) <=>
        (AnyoneCanPay(h) => /\ s.tx.vin[s.index] = t.tx.vin[t.index]
                            /\ s.spent[s.index] = t.spent[t.index])
  <2>1. PICK p, q : p = s.tx.vin[s.index] /\ q = s.spent[s.index]
    OBVIOUS
  <2>2. PICK v, w : v = t.tx.vin[t.index] /\ w = t.spent[t.index]
    OBVIOUS
  <2>3. {<<p, q>>} = {<<v, w>>} <=> p = v /\ q = w
    <3>1. ASSUME NEW c, NEW d
          PROVE  {c} = {d} <=> c = d
      OBVIOUS
    <3>2. <<p, q>> = <<v, w>> <=> p = v /\ q = w
      OBVIOUS
    <3>. QED BY Zenon, <3>1, <3>2
  <2>4. CASE AnyoneCanPay(h)
    <3>1. TapOwnInput(s, h) = {<<p, q>>} /\ TapOwnInput(t, h) = {<<v, w>>}
      BY <2>1, <2>2, <2>4 DEF TapOwnInput
    <3>. QED BY <2>1, <2>2, <2>3, <2>4, <3>1
  <2>5. CASE ~AnyoneCanPay(h)
    BY <2>5 DEF TapOwnInput
  <2>. QED BY <2>4, <2>5
<1>7. TapOwnOutput(s, h) = TapOwnOutput(t, h) <=>
        (h % 4 = SIGHASH_SINGLE => Output(s.tx, s.index) = Output(t.tx, t.index))
  BY DEF TapOwnOutput
<1>8. TapLeaf(s, flag) = TapLeaf(t, flag) <=>
        (scheme = "tapscript" => s.exec.leaf = t.exec.leaf /\ s.exec.codesep = t.exec.codesep)
  BY DEF TapLeaf, ExtFlag
<1>9. Prevouts(s) = Prevouts(t) /\ Sequences(s) = Sequences(t) /\ s.index = t.index
        => s.tx.vin[s.index] = t.tx.vin[t.index]
  <2>1. Prevouts(s)[s.index] = s.tx.vin[s.index].prevout
        /\ Prevouts(t)[t.index] = t.tx.vin[t.index].prevout
        /\ Sequences(s)[s.index] = s.tx.vin[s.index].sequence
        /\ Sequences(t)[t.index] = t.tx.vin[t.index].sequence
    BY SceneIs DEF Prevouts, Sequences
  <2>. QED BY <2>1, OwnInputIs
<1> HIDE DEF flag
<1>10. SameNamed(scheme, s, t, a, b, h) <=>
           /\ s.tx.version = t.tx.version /\ s.tx.locktime = t.tx.locktime
           /\ s.tx.vin[s.index] = t.tx.vin[t.index]
           /\ s.exec.annex = t.exec.annex
           /\ ~AnyoneCanPay(h) =>
                /\ Prevouts(s) = Prevouts(t) /\ Sequences(s) = Sequences(t)
                /\ s.index = t.index /\ s.spent = t.spent
           /\ AnyoneCanPay(h) => s.spent[s.index] = t.spent[t.index]
           /\ Whole(h % 4) => s.tx.vout = t.tx.vout
           /\ h % 4 = SIGHASH_SINGLE => Output(s.tx, s.index) = Output(t.tx, t.index)
           /\ scheme = "tapscript" =>
                s.exec.leaf = t.exec.leaf /\ s.exec.codesep = t.exec.codesep
  BY TapNames
<1>11. CASE g # h
  BY <1>1, <1>2, <1>3, <1>11 DEF flag
<1>12. CASE g = h
  <2>1. x = y <=> SameNamed(scheme, s, t, a, b, h)
    BY <1>3, <1>4, <1>5, <1>6, <1>7, <1>8, <1>9, <1>10, <1>12
  <2>. QED BY <1>1, <1>2, <1>12, <2>1 DEF flag
<1>. QED BY <1>11, <1>12

------------------------------------------------------------------------------
(* Messages of different schemes.                                          *)

\* The fields tell a message's scheme, and the flag that of a taproot message.
LEMMA SchemesDiffer ==
  ASSUME NEW s, NEW t, NEW a, NEW b, NEW g, NEW h, NEW e, NEW f
  PROVE  /\ legacy_sighash(s.tx, s.index, s.code, g)
              # bip143_sighash(t.tx, t.index, t.code, b, h, {})
         /\ legacy_sighash(s.tx, s.index, s.code, g) # TapMessage(t, h, f)
         /\ bip143_sighash(s.tx, s.index, s.code, a, g, {}) # TapMessage(t, h, f)
         /\ e # f => TapMessage(s, g, e) # TapMessage(t, h, f)
<1>1. PICK x : x = legacy_sighash(s.tx, s.index, s.code, g)
  OBVIOUS
<1>2. PICK y : y = bip143_sighash(t.tx, t.index, t.code, b, h, {})
  OBVIOUS
<1>3. PICK u : u = bip143_sighash(s.tx, s.index, s.code, a, g, {})
  OBVIOUS
<1>4. PICK z : z = TapMessage(t, h, f)
  OBVIOUS
<1>5. "amount" \notin DOMAIN x /\ "ext_flag" \notin DOMAIN x
  <2>1. CASE SignsNothing("legacy", s, g)
    <3>1. x = [one |-> 1]
      BY <1>1, <2>1, LegacyOne DEF ONE
    <3>. QED BY <3>1
  <2>2. CASE ~SignsNothing("legacy", s, g)
    <3>1. x = [version |-> s.tx.version, inputs |-> LegacyInputs(s.tx, s.index, SignedOps(s), g),
               outputs |-> LegacyOutputs(s.tx, s.index, g % 32),
               locktime |-> s.tx.locktime, hashtype |-> g]
      BY <1>1, <2>2, LegacyIs
    <3>. QED BY <3>1
  <2>. QED BY <2>1, <2>2
<1>6. "amount" \in DOMAIN y /\ "amount" \in DOMAIN u
  <2>1. ASSUME NEW v, NEW c, NEW k
        PROVE  "amount" \in DOMAIN bip143_sighash(v.tx, v.index, v.code, c, k, {})
    BY DEF bip143_sighash
  <2>. QED BY <1>2, <1>3, <2>1
<1>7. "ext_flag" \in DOMAIN z /\ "amount" \notin DOMAIN z
  BY <1>4 DEF TapMessage
<1>8. ASSUME TapMessage(s, g, e) = TapMessage(t, h, f)
      PROVE  e = f
  <2>1. TapMessage(s, g, e).ext_flag = e /\ TapMessage(t, h, f).ext_flag = f
    BY DEF TapMessage
  <2>. QED BY <1>8, <2>1
<1>. QED BY <1>1, <1>2, <1>3, <1>4, <1>5, <1>6, <1>7, <1>8

\* The message that a signature signs.
MessageOf(scheme, s, amount, h) ==
  CASE scheme = "legacy" -> legacy_sighash(s.tx, s.index, s.code, h)
    [] scheme = "v0" -> bip143_sighash(s.tx, s.index, s.code, amount, h, {})
    [] OTHER -> TapMessage(s, h, ExtFlag(scheme))

Schemes == Ecdsa \cup Schnorr

\* t, under the hash type h, keeps what the signature of s under g names.
Alike(e, s, t, a, b, g, h) ==
  IF SignsNothing(e, s, g) THEN SignsNothing(e, t, h)
  ELSE g = h /\ ~SignsNothing(e, t, h) /\ SameNamed(e, s, t, a, b, h)

LEMMA MessagesAlike ==
  ASSUME NEW s, NEW t, IsScene(s), IsScene(t), NEW a, NEW b, NEW g, NEW h,
         NEW e \in Schemes, NEW f \in Schemes
  PROVE  MessageOf(e, s, a, g) = MessageOf(f, t, b, h) <=>
           e = f /\ Alike(e, s, t, a, b, g, h)
<1>1. CASE e = "legacy" /\ f = "legacy"
  <2>1. MessageOf(e, s, a, g) = legacy_sighash(s.tx, s.index, s.code, g)
        /\ MessageOf(f, t, b, h) = legacy_sighash(t.tx, t.index, t.code, h)
    BY <1>1 DEF MessageOf
  <2>2. legacy_sighash(s.tx, s.index, s.code, g) = legacy_sighash(t.tx, t.index, t.code, h)
          <=> Alike("legacy", s, t, a, b, g, h)
    BY LegacyAlike DEF Alike
  <2>. QED BY <1>1, <2>1, <2>2
<1>2. CASE e = "v0" /\ f = "v0"
  <2>1. MessageOf(e, s, a, g) = bip143_sighash(s.tx, s.index, s.code, a, g, {})
        /\ MessageOf(f, t, b, h) = bip143_sighash(t.tx, t.index, t.code, b, h, {})
    BY <1>2 DEF MessageOf
  <2>2. ~SignsNothing("v0", s, g) /\ ~SignsNothing("v0", t, h)
    BY DEF SignsNothing
  <2>3. bip143_sighash(s.tx, s.index, s.code, a, g, {})
            = bip143_sighash(t.tx, t.index, t.code, b, h, {}) <=> Alike("v0", s, t, a, b, g, h)
    BY <2>2, V0Alike DEF Alike
  <2>. QED BY <1>2, <2>1, <2>3
<1>3. CASE e \in Schnorr /\ f = e
  <2>1. MessageOf(e, s, a, g) = TapMessage(s, g, ExtFlag(e))
        /\ MessageOf(f, t, b, h) = TapMessage(t, h, ExtFlag(e))
    BY <1>3 DEF MessageOf, Schnorr
  <2>2. ~SignsNothing(e, s, g) /\ ~SignsNothing(e, t, h)
    BY <1>3 DEF SignsNothing, Schnorr
  <2>3. TapMessage(s, g, ExtFlag(e)) = TapMessage(t, h, ExtFlag(e)) <=> Alike(e, s, t, a, b, g, h)
    BY <1>3, <2>2, TapAlike DEF Alike
  <2>. QED BY <1>3, <2>1, <2>3
<1>4. CASE e # f
  <2>1. MessageOf(e, s, a, g) # MessageOf(f, t, b, h)
    <3>1. /\ MessageOf("legacy", s, a, g) # MessageOf("v0", t, b, h)
          /\ MessageOf("v0", s, a, g) # MessageOf("legacy", t, b, h)
      BY SchemesDiffer DEF MessageOf
    <3>2. ASSUME NEW v \in Schnorr
          PROVE  /\ MessageOf("legacy", s, a, g) # MessageOf(v, t, b, h)
                 /\ MessageOf("v0", s, a, g) # MessageOf(v, t, b, h)
                 /\ MessageOf(v, s, a, g) # MessageOf("legacy", t, b, h)
                 /\ MessageOf(v, s, a, g) # MessageOf("v0", t, b, h)
      BY SchemesDiffer DEF MessageOf, Schnorr
    <3>3. ASSUME e \in Schnorr, f \in Schnorr
          PROVE  MessageOf(e, s, a, g) # MessageOf(f, t, b, h)
      <4>1. ExtFlag(e) # ExtFlag(f)
        BY <1>4, <3>3 DEF ExtFlag, Schnorr
      <4>2. MessageOf(e, s, a, g) = TapMessage(s, g, ExtFlag(e))
            /\ MessageOf(f, t, b, h) = TapMessage(t, h, ExtFlag(f))
        BY <3>3 DEF MessageOf, Schnorr
      <4>. QED BY <4>1, <4>2, SchemesDiffer
    <3>. QED BY <1>4, <3>1, <3>2, <3>3 DEF Schemes, Ecdsa
  <2>. QED BY <1>4, <2>1
<1>. QED BY <1>1, <1>2, <1>3, <1>4 DEF Schemes, Ecdsa

\* A taproot message of a SINGLE has an output to sign.
Signable(scheme, s, h) ==
  scheme \in Schnorr /\ h % 4 = SIGHASH_SINGLE => Output(s.tx, s.index) # {}

\* What Messages gives an owner, and a checker that knows the spent outputs.
LEMMA KnownMessages ==
  ASSUME NEW s, NEW a, NEW h, NEW scheme \in Schemes, NEW m
  PROVE  m \in Messages(scheme, s, {s.spent}, a, h, {compute(s.tx, {s.spent})}) <=>
           m = MessageOf(scheme, s, a, h) /\ Signable(scheme, s, h)
<1> DEFINE p == compute(s.tx, {s.spent})
<1>1. CASE scheme = "legacy"
  BY <1>1 DEF Messages, MessageOf, Signable, Schnorr
<1>2. CASE scheme = "v0"
  <2>1. bip143_sighash(s.tx, s.index, s.code, a, h, {p})
          = bip143_sighash(s.tx, s.index, s.code, a, h, {})
    BY SameBip143
  <2>2. Messages(scheme, s, {s.spent}, a, h, {p}) = {MessageOf(scheme, s, a, h)}
    BY <1>2, <2>1 DEF Messages, MessageOf
  <2>3. scheme \notin Schnorr
    BY <1>2 DEF Schnorr
  <2>. QED BY <2>2, <2>3 DEF Signable
<1>3. CASE scheme \in Schnorr
  <2>1. scheme \notin {"legacy", "v0"}
    BY <1>3 DEF Schnorr
  <2>2. Messages(scheme, s, {s.spent}, a, h, {p})
          = taproot_sighash(s.tx, s.index, {s.spent}, h, p, ExtFlag(scheme), s.exec)
    <3> HIDE DEF p
    <3>. QED BY <2>1 DEF Messages
  <2>3. MessageOf(scheme, s, a, h) = TapMessage(s, h, ExtFlag(scheme))
    BY <2>1 DEF MessageOf
  <2>4. taproot_sighash(s.tx, s.index, {s.spent}, h, p, ExtFlag(scheme), s.exec)
          = {n \in {MessageOf(scheme, s, a, h)} :
               h % 4 = SIGHASH_SINGLE => Output(s.tx, s.index) # {}}
    BY <2>3, TapIs
  <2> HIDE DEF p
  <2>5. m \in Messages(scheme, s, {s.spent}, a, h, {p}) <=>
           /\ m = MessageOf(scheme, s, a, h)
           /\ h % 4 = SIGHASH_SINGLE => Output(s.tx, s.index) # {}
    BY <2>2, <2>4
  <2>. QED BY <1>3, <2>5 DEF p, Signable
<1>. QED BY <1>1, <1>2, <1>3 DEF Schemes, Ecdsa

\* Without the spent outputs nothing is checked that a signature has signed.
LEMMA UnknownMessages ==
  ASSUME NEW s, NEW t, NEW a, NEW b, NEW g, NEW h, NEW e \in Schemes,
         NEW scheme \in Schnorr
  PROVE  MessageOf(e, s, a, g) \notin Messages(scheme, t, {}, b, h, {compute(t.tx, {})})
<1>1. Messages(scheme, t, {}, b, h, {compute(t.tx, {})})
        = taproot_sighash(t.tx, t.index, {}, h, compute(t.tx, {}), ExtFlag(scheme), t.exec)
  <2>1. PICK p : p = compute(t.tx, {})
    OBVIOUS
  <2>2. scheme \notin {"legacy", "v0"}
    BY DEF Schnorr
  <2>. QED BY <2>1, <2>2 DEF Messages
<1>2. CASE e \in Schnorr
  <2>1. MessageOf(e, s, a, g) = TapMessage(s, g, ExtFlag(e))
    BY <1>2 DEF MessageOf, Schnorr
  <2>. QED BY <1>1, <2>1, TapUnknown
<1>3. CASE e \in Ecdsa
  <2>1. PICK p : p = compute(t.tx, {})
    OBVIOUS
  <2>2. \A m \in taproot_sighash(t.tx, t.index, {}, h, p, ExtFlag(scheme), t.exec) :
          "ext_flag" \in DOMAIN m
    BY DEF taproot_sighash
  <2>3. "ext_flag" \notin DOMAIN MessageOf(e, s, a, g)
    <3>1. CASE e = "legacy" /\ SignsNothing("legacy", s, g)
      <4>1. MessageOf(e, s, a, g) = [one |-> 1]
        BY <3>1, LegacyOne DEF ONE, MessageOf
      <4>. QED BY <4>1
    <3>2. CASE e = "legacy" /\ ~SignsNothing("legacy", s, g)
      <4>1. MessageOf(e, s, a, g)
              = [version |-> s.tx.version,
                 inputs |-> LegacyInputs(s.tx, s.index, SignedOps(s), g),
                 outputs |-> LegacyOutputs(s.tx, s.index, g % 32),
                 locktime |-> s.tx.locktime, hashtype |-> g]
        BY <3>2, LegacyIs DEF MessageOf
      <4>. QED BY <4>1
    <3>3. CASE e = "v0"
      <4>1. "ext_flag" \notin DOMAIN bip143_sighash(s.tx, s.index, s.code, a, g, {})
        BY DEF bip143_sighash
      <4>. QED BY <3>3, <4>1 DEF MessageOf
    <3>. QED BY <1>3, <3>1, <3>2, <3>3 DEF Ecdsa
  <2>. QED BY <1>1, <2>1, <2>2, <2>3
<1>. QED BY <1>2, <1>3 DEF Schemes

------------------------------------------------------------------------------
(* What is signed.                                                         *)

\* A signature is that of an original, and the scene at hand is that original or
\* what it was changed into; a checker has its amount if it knows its spent
\* outputs.
IsSigned(sig) ==
  /\ sig = [scheme |-> sig.scheme, tag |-> sig.tag, message |-> sig.message,
            scene |-> sig.scene, signedAs |-> sig.signedAs]
  /\ sig.scheme \in Schemes /\ sig.tag \in Tags /\ sig.signedAs \in Tags
  /\ sig.scheme \in Ecdsa => sig.tag # {} /\ sig.signedAs # {}
  /\ sig.scheme \in Schnorr => sig.signedAs # {0}
  /\ sig.scene \in Originals
  /\ sig.message \in Messages(sig.scheme, sig.scene, {sig.scene.spent}, Amount(sig.scene),
                              HashType(sig.signedAs),
                              {compute(sig.scene.tx, {sig.scene.spent})})

SignedInv ==
  /\ signature = {} => scene \in Originals
  /\ \A sig \in signature :
       IsSigned(sig) /\ (scene = sig.scene \/ scene \in Amended(sig.scene))
  /\ \A c \in checker : c.amount = IF c.spent = {} THEN 0 ELSE Amount(scene)
  /\ \A a \in answer : a.scheme \in Schemes

LEMMA SignedInitially ==
  ASSUME SigInit
  PROVE  SignedInv
BY DEF SigInit, SignedInv

LEMMA SignedStep ==
  ASSUME SigInv, SignedInv, [SigNext]_sigVars
  PROVE  SignedInv'
<1>1. ASSUME NEW scheme \in Schemes, NEW tag \in Tags, Sign(scheme, tag)
      PROVE  SignedInv'
  <2>1. /\ signature = {} /\ scene \in Originals /\ UNCHANGED <<scene, checker, answer>>
        /\ scheme \in Ecdsa => tag # {}
        /\ scheme \in Schnorr => tag # {0}
    BY <1>1 DEF Sign, SignedInv
  <2> DEFINE messages == Messages(scheme, scene, {scene.spent}, Amount(scene), HashType(tag),
                                  {compute(scene.tx, {scene.spent})})
  <2>2. signature' = {[scheme |-> scheme, tag |-> tag, message |-> m, scene |-> scene,
                       signedAs |-> tag] : m \in messages}
    BY <1>1 DEF Sign
  <2>3. ASSUME NEW sig \in signature'
        PROVE  IsSigned(sig) /\ sig.scene = scene
    <3>1. PICK m \in messages : sig = [scheme |-> scheme, tag |-> tag, message |-> m,
                                       scene |-> scene, signedAs |-> tag]
      <4> HIDE DEF messages
      <4>. QED BY <2>2
    <3>2. /\ sig.scheme = scheme /\ sig.tag = tag /\ sig.message = m /\ sig.scene = scene
          /\ sig.signedAs = tag
      BY <3>1
    <3>. QED BY <2>1, <3>1, <3>2 DEF IsSigned
  <2>. QED BY <2>1, <2>3 DEF SignedInv
<1>2. ASSUME Amend
      PROVE  SignedInv'
  <2>1. PICK sig \in signature : sig.scene = scene /\ scene' \in Amended(scene)
    BY <1>2 DEF Amend
  <2>2. checker = {} /\ UNCHANGED <<signature, checker, answer>>
    BY <1>2 DEF Amend
  <2>3. \A other \in signature : other = sig
    BY <2>1 DEF SigInv, OrderInv
  <2>. QED BY <2>1, <2>2, <2>3 DEF SignedInv
<1>3. ASSUME NEW tag \in Tags, Retag(tag)
      PROVE  SignedInv'
  <2>1. /\ UNCHANGED <<scene, checker, answer>>
        /\ signature' = {[sig EXCEPT !.tag = tag] : sig \in signature}
    BY <1>3 DEF Retag
  <2>2. PICK old \in signature : old.scheme \in Ecdsa => tag # {}
    BY <1>3 DEF Retag
  <2>3. \A other \in signature : other = old
    BY DEF SigInv, OrderInv
  <2>4. ASSUME NEW sig \in signature'
        PROVE  IsSigned(sig) /\ sig.scene = old.scene
    <3>1. sig = [old EXCEPT !.tag = tag]
      BY <2>1, <2>3
    <3>2. IsSigned(old)
      BY DEF SignedInv
    <3>3. sig = [scheme |-> old.scheme, tag |-> tag, message |-> old.message,
                 scene |-> old.scene, signedAs |-> old.signedAs]
      BY <3>1, <3>2 DEF IsSigned
    <3>4. /\ sig.scheme = old.scheme /\ sig.tag = tag /\ sig.message = old.message
          /\ sig.scene = old.scene /\ sig.signedAs = old.signedAs
      BY <3>3
    <3>. QED BY <2>2, <3>2, <3>3, <3>4 DEF IsSigned
  <2>5. scene = old.scene \/ scene \in Amended(old.scene)
    BY DEF SignedInv
  <2>. QED BY <2>1, <2>2, <2>4, <2>5 DEF SignedInv
<1>4. ASSUME NEW spent \in {{}, {scene.spent}}, NewChecker(spent)
      PROVE  SignedInv'
  <2>1. UNCHANGED <<scene, signature, answer>>
    BY <1>4 DEF NewChecker
  <2>2. \A c \in checker' : c.spent = spent /\ c.amount = IF spent = {} THEN 0 ELSE Amount(scene)
    BY <1>4 DEF NewChecker
  <2>. QED BY <2>1, <2>2 DEF SignedInv
<1>5. ASSUME NEW scheme \in Ecdsa, CheckEcdsa(scheme)
      PROVE  SignedInv'
  BY <1>5 DEF CheckEcdsa, SignedInv, Schemes
<1>6. ASSUME NEW scheme \in Schnorr, CheckSchnorr(scheme)
      PROVE  SignedInv'
  <2>1. PICK c \in checker, sig \in signature :
          /\ answer' = {[scheme |-> scheme, result |-> SchnorrAnswer(scheme, c, sig)]}
          /\ checker' = IF sig.tag = {0} THEN checker
                        ELSE {[c EXCEPT !.precomputed = _taproot_precomputed(c)]}
    BY <1>6 DEF CheckSchnorr
  <2>2. UNCHANGED <<scene, signature>>
    BY <1>6 DEF CheckSchnorr
  <2>3. c = [spent |-> c.spent, amount |-> c.amount, precomputed |-> c.precomputed]
    BY DEF SigInv, CheckerInv
  <2>4. \A d \in checker' : d \in checker \/ (d.spent = c.spent /\ d.amount = c.amount)
    BY <2>1, <2>3
  <2>5. \A a \in answer' : a.scheme \in Schemes
    BY <2>1 DEF Schemes
  <2>. QED BY <2>2, <2>4, <2>5 DEF SignedInv
<1>7. CASE UNCHANGED sigVars
  BY <1>7 DEF sigVars, SignedInv
<1>. QED BY <1>1, <1>2, <1>3, <1>4, <1>5, <1>6, <1>7 DEF SigNext, Schemes

------------------------------------------------------------------------------
(* What is named.                                                          *)

\* The hash type tells the tag, but for a Schnorr signature's 0.
LEMMA TagIs ==
  ASSUME NEW x \in Tags, NEW y \in Tags, (x # {} /\ y # {}) \/ (x # {0} /\ y # {0})
  PROVE  HashType(x) = HashType(y) <=> x = y
<1>1. \A h : HashType({h}) = h
  BY DEF HashType
<1>2. HashType({}) = 0
  BY DEF HashType
<1>. QED BY <1>1, <1>2 DEF Tags

LEMMA Valid ==
  ASSUME NEW messages, NEW sig
  PROVE  Verdict(messages, sig) = "valid" <=> sig.message \in messages
BY DEF Verdict

\* What a checker with these outputs and amount takes for valid.
LEMMA AnswerIs ==
  ASSUME SigInv, SignedInv, NEW a \in answer, NEW sig \in signature, NEW c \in checker
  PROVE  a.result = "valid" <=>
           /\ c.spent = {} => a.scheme \in Ecdsa
           /\ a.scheme \in Schnorr => sig.tag # {0}
           /\ sig.message = MessageOf(a.scheme, scene, IF c.spent = {} THEN 0 ELSE Amount(scene),
                                      HashType(sig.tag))
           /\ Signable(a.scheme, scene, HashType(sig.tag))
<1> DEFINE new == [c EXCEPT !.precomputed = {}]
           h == HashType(sig.tag)
           b == IF c.spent = {} THEN 0 ELSE Amount(scene)
<1>1. /\ c = [spent |-> c.spent, amount |-> c.amount, precomputed |-> c.precomputed]
      /\ c.spent \in {{}, {scene.spent}} /\ c.amount = b
      /\ a.scheme \in Schemes /\ IsSigned(sig)
  BY DEF SigInv, CheckerInv, SignedInv
<1>2. new.spent = c.spent /\ new.amount = b /\ new.precomputed = {}
  BY <1>1
<1>3. a.result = IF a.scheme \in Ecdsa THEN EcdsaAnswer(a.scheme, new, sig)
                 ELSE SchnorrAnswer(a.scheme, new, sig)
  BY DEF SigInv, AnswerInv
<1>4. Ecdsa \cap Schnorr = {}
  BY DEF Ecdsa, Schnorr
<1> HIDE DEF new, h, b
<1>5. CASE a.scheme \in Ecdsa
  <2>1. Messages(a.scheme, scene, c.spent, b, h, {}) = {MessageOf(a.scheme, scene, b, h)}
    BY <1>5 DEF Messages, MessageOf, Ecdsa
  <2>2. a.result = Verdict(Messages(a.scheme, scene, c.spent, b, h, {}), sig)
    BY <1>2, <1>3, <1>5 DEF EcdsaAnswer, h
  <2>3. a.result = "valid" <=> sig.message \in {MessageOf(a.scheme, scene, b, h)}
    BY <2>1, <2>2, Valid
  <2>4. a.result = "valid" <=> sig.message = MessageOf(a.scheme, scene, b, h)
    BY <2>3
  <2>. QED BY <1>4, <1>5, <2>4 DEF b, h, Signable
<1>6. CASE a.scheme \in Schnorr /\ sig.tag = {0}
  <2>1. a.result = "invalid"
    BY <1>3, <1>4, <1>6 DEF SchnorrAnswer
  <2>. QED BY <1>6, <2>1
<1>7. CASE a.scheme \in Schnorr /\ sig.tag # {0}
  <2>1. _taproot_precomputed(new) = {compute(scene.tx, c.spent)}
    <3>1. new.precomputed \in Midstates(c.spent)
      BY <1>2 DEF Midstates
    <3>. QED BY <1>1, <1>2, <3>1, SameTaproot
  <2>2. a.result = Verdict(Messages(a.scheme, scene, c.spent, b, h, {compute(scene.tx, c.spent)}),
                           sig)
    BY <1>2, <1>3, <1>4, <1>7, <2>1 DEF SchnorrAnswer, h
  <2>3. a.result = "valid" <=>
          sig.message \in Messages(a.scheme, scene, c.spent, b, h, {compute(scene.tx, c.spent)})
    BY <2>2, Valid
  <2>4. CASE c.spent = {}
    <3>1. sig.message = MessageOf(sig.scheme, sig.scene, Amount(sig.scene), HashType(sig.signedAs))
      <4>1. /\ sig.scheme \in Schemes
            /\ sig.message \in Messages(sig.scheme, sig.scene, {sig.scene.spent},
                                       Amount(sig.scene), HashType(sig.signedAs),
                                       {compute(sig.scene.tx, {sig.scene.spent})})
        BY <1>1 DEF IsSigned
      <4>. QED BY Zenon, <4>1, KnownMessages
    <3>2. sig.message \notin Messages(a.scheme, scene, {}, b, h, {compute(scene.tx, {})})
      BY <1>1, <1>7, <3>1, UnknownMessages DEF IsSigned
    <3>. QED BY <1>4, <1>7, <2>3, <2>4, <3>2
  <2>5. CASE c.spent = {scene.spent}
    <3>1. sig.message \in Messages(a.scheme, scene, {scene.spent}, b, h,
                                   {compute(scene.tx, {scene.spent})}) <=>
            sig.message = MessageOf(a.scheme, scene, b, h) /\ Signable(a.scheme, scene, h)
      <4>1. PICK t : t = scene
        OBVIOUS
      <4>2. sig.message \in Messages(a.scheme, t, {t.spent}, b, h, {compute(t.tx, {t.spent})}) <=>
              sig.message = MessageOf(a.scheme, t, b, h) /\ Signable(a.scheme, t, h)
        <5>1. PICK x, k : x = b /\ k = h
          OBVIOUS
        <5>2. sig.message \in Messages(a.scheme, t, {t.spent}, x, k, {compute(t.tx, {t.spent})}) <=>
                sig.message = MessageOf(a.scheme, t, x, k) /\ Signable(a.scheme, t, k)
          BY <1>1, KnownMessages
        <5>. QED BY <5>1, <5>2
      <4>. QED BY <4>1, <4>2
    <3>2. a.result = "valid" <=>
            sig.message = MessageOf(a.scheme, scene, b, h) /\ Signable(a.scheme, scene, h)
      BY <2>3, <2>5, <3>1
    <3>3. c.spent # {}
      BY <2>5
    <3>. QED BY <1>7, <3>2, <3>3 DEF b, h
  <2>. QED BY <1>1, <2>4, <2>5
<1>. QED BY <1>1, <1>5, <1>6, <1>7 DEF Schemes

LEMMA NamesAreSigned ==
  ASSUME SigInv, SignedInv
  PROVE  SignsWhatItNames
<1> SUFFICES ASSUME NEW a \in answer, NEW sig \in signature, NEW c \in checker
             PROVE  a.result = "valid" <=>
                      /\ a.scheme = sig.scheme
                      /\ c.spent = {} => a.scheme \in Ecdsa
                      /\ Keeps(a.scheme, sig, IF c.spent = {} THEN 0 ELSE Amount(scene))
  BY DEF SignsWhatItNames
<1>1. PICK s, t, g, h, b :
        /\ s = sig.scene /\ t = scene /\ g = HashType(sig.signedAs) /\ h = HashType(sig.tag)
        /\ b = IF c.spent = {} THEN 0 ELSE Amount(scene)
  OBVIOUS
<1>2. IsSigned(sig) /\ a.scheme \in Schemes
  BY DEF SignedInv
<1>3. IsScene(s) /\ IsScene(t)
  BY <1>1, <1>2, ScenesAssumption DEF SignedInv, IsSigned
<1>4. /\ sig.message = MessageOf(sig.scheme, s, Amount(s), g)
      /\ Signable(sig.scheme, s, g)
  BY <1>1, <1>2, KnownMessages DEF IsSigned
<1> DEFINE e == sig.scheme
           Kept == Alike(e, s, t, Amount(s), b, g, h)
<1>5. MessageOf(e, s, Amount(s), g) = MessageOf(a.scheme, t, b, h) <=> a.scheme = e /\ Kept
  <2>1. e \in Schemes
    BY <1>2 DEF IsSigned
  <2>2. PICK x, y, z : x = e /\ y = a.scheme /\ z = Amount(s)
    OBVIOUS
  <2>3. MessageOf(x, s, z, g) = MessageOf(y, t, b, h) <=> x = y /\ Alike(x, s, t, z, b, g, h)
    <3>1. x \in Schemes /\ y \in Schemes
      BY <1>2, <2>1, <2>2
    <3>. QED BY ONLY <1>3, <3>1, MessagesAlike
  <2>. QED BY <2>2, <2>3
<1>6. a.result = "valid" <=>
        /\ c.spent = {} => a.scheme \in Ecdsa
        /\ a.scheme \in Schnorr => sig.tag # {0}
        /\ a.scheme = e /\ Kept
        /\ Signable(a.scheme, t, h)
  BY <1>1, <1>4, <1>5, AnswerIs
<1>7. Keeps(e, sig, b) <=>
        IF SignsNothing(e, s, g) THEN SignsNothing(e, t, h)
        ELSE /\ sig.tag = sig.signedAs /\ ~SignsNothing(e, t, h)
             /\ SameNamed(e, s, t, Amount(s), b, h)
  BY Zenon, <1>1 DEF Keeps, SameNamed
<1>8. e \in Ecdsa \/ sig.tag # {0} => (g = h <=> sig.tag = sig.signedAs)
  BY <1>1, <1>2, TagIs DEF IsSigned, Schemes
<1>9. CASE e \in Ecdsa
  <2>1. e \notin Schnorr
    BY <1>9 DEF Ecdsa, Schnorr
  <2>2. Keeps(e, sig, b) <=> Kept
    BY <1>7, <1>8, <1>9 DEF Alike
  <2>. QED BY <1>1, <1>6, <2>1, <2>2 DEF Signable
<1>10. CASE e \in Schnorr
  <2>1. ~SignsNothing(e, s, g) /\ ~SignsNothing(e, t, h)
    BY <1>10 DEF SignsNothing, Schnorr
  <2>2. Kept => Signable(e, t, h)
    <3>1. SUFFICES ASSUME SameNamed(e, s, t, Amount(s), b, h), g = h, h % 4 = SIGHASH_SINGLE
                   PROVE  Output(t.tx, t.index) = Output(s.tx, s.index)
      BY <1>4, <1>10, <2>1 DEF Alike, Signable
    <3>. QED BY <1>10, <3>1, TapNames
  <2>3. Keeps(e, sig, b) => sig.tag # {0}
    BY <1>2, <1>7, <1>10, <2>1 DEF IsSigned
  <2>4. sig.tag # {0} => (Keeps(e, sig, b) <=> Kept)
    BY <1>7, <1>8, <2>1 DEF Alike
  <2> HIDE DEF Kept
  <2>. QED BY <1>1, <1>6, <1>10, <2>2, <2>3, <2>4
<1>. QED BY <1>2, <1>9, <1>10 DEF IsSigned, Schemes

\* For every transaction, change on the way and order of checks, a signature is
\* valid exactly when what its scheme and hash type name is as its owner signed it
\* (legacy_sighash, bip143_sighash, taproot_sighash, check_ecdsa_signature,
\* check_schnorr_signature).
THEOREM ValidIsUnchanged == SigSpec => []SignsWhatItNames
<1>1. SigInit => SigInv /\ SignedInv
  BY SigInitially, SignedInitially
<1>2. SigInv /\ SignedInv /\ [SigNext]_sigVars => SigInv' /\ SignedInv'
  BY SigStep, SignedStep
<1>3. SigInv /\ SignedInv => SignsWhatItNames
  BY NamesAreSigned
<1>. QED BY <1>1, <1>2, <1>3, PTL DEF SigSpec
==============================================================================
