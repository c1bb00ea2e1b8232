-------------------------------- MODULE SigChecker --------------------------------
(***************************************************************************)
(* TransactionSignatureChecker between the owner of a coin, who signs one  *)
(* input of a transaction, and whoever changes the transaction or the      *)
(* signature on its way.  A checker is built for the transaction as it     *)
(* came, with the midstates that its caller has, and may check several     *)
(* times.  A signature is valid when its message is the one it signed:     *)
(* forging and the curve are outside the model.                            *)
(*                                                                         *)
(* A scene is a transaction with what the checks of one input read beside  *)
(* it: the outputs that it spends, the input's index and script code, the  *)
(* annex, the tapleaf and the last separator.                              *)
(***************************************************************************)
EXTENDS SigHash

CONSTANTS
  Originals,      \* the scenes that are signed
  Amended(_),     \* the scenes that an original is changed into
  HashTypes

VARIABLES
  scene,
  signature,      \* {}, or the one signature
  checker,        \* {}, or the checker
  answer          \* {}, or its last answer

sigVars == <<scene, signature, checker, answer>>

Ecdsa == {"legacy", "v0"}
Schnorr == {"keypath", "tapscript"}

ASSUME HashTypesAssumption == HashTypes \subseteq 0..255

\* A scene as a spend has them: every input spends an output, and the script code
\* holds the operation that asks for the signature, whatever separators are in it.
Separator == [opcode |-> OP_CODESEPARATOR, data |-> << >>]

SignedOps(s) == find_and_delete(s.code, {Separator})

IsScene(s) ==
  /\ s.tx.vin \in Seq(Range(s.tx.vin)) /\ s.tx.vout \in Seq(Range(s.tx.vout))
  /\ \A txin \in Range(s.tx.vin) :
       txin = [prevout |-> txin.prevout, sequence |-> txin.sequence]
  /\ s.spent \in Seq(Range(s.spent)) /\ Len(s.spent) = Len(s.tx.vin)
  /\ \A out \in Range(s.spent) : out = [value |-> out.value, script |-> out.script]
  /\ s.index \in DOMAIN s.tx.vin
  /\ SignedOps(s) # << >>

ASSUME ScenesAssumption ==
  \A s \in Originals : IsScene(s) /\ \A t \in Amended(s) : IsScene(t)

ExtFlag(scheme) == IF scheme = "tapscript" THEN 1 ELSE 0

\* The messages of a scene, with the midstates given: one, or none when the
\* computation raises.
Messages(scheme, s, spent, amount, hashtype, precomputed) ==
  CASE scheme = "legacy" -> {legacy_sighash(s.tx, s.index, s.code, hashtype)}
    [] scheme = "v0" ->
         {bip143_sighash(s.tx, s.index, s.code, amount, hashtype, precomputed)}
    [] OTHER ->
         UNION {taproot_sighash(s.tx, s.index, spent, hashtype, p, ExtFlag(scheme), s.exec) :
                  p \in precomputed}

Amount(s) == s.spent[s.index].value

\* A signature ends with its hash type (tag), but for a Schnorr signature of 64
\* bytes, which has none: its hash type is 0, and no owner writes that one out.
HashType(tag) == IF tag = {} THEN 0 ELSE CHOOSE h \in tag : TRUE
Tags == {{}} \cup {{h} : h \in HashTypes}

Sign(scheme, tag) ==
  /\ signature = {}
  /\ scheme \in Ecdsa => tag # {}
  /\ scheme \in Schnorr => tag # {0}
  /\ signature' =
       {[scheme |-> scheme, tag |-> tag, message |-> m, scene |-> scene, signedAs |-> tag] :
          m \in Messages(scheme, scene, {scene.spent}, Amount(scene), HashType(tag),
                         {compute(scene.tx, {scene.spent})})}
  /\ UNCHANGED <<scene, checker, answer>>

Amend ==
  /\ checker = {}
  /\ \E sig \in signature : sig.scene = scene /\ scene' \in Amended(scene)
  /\ UNCHANGED <<signature, checker, answer>>

Retag(tag) ==
  /\ checker = {}
  /\ \E sig \in signature : sig.scheme \in Ecdsa => tag # {}
  /\ signature' = {[sig EXCEPT !.tag = tag] : sig \in signature}
  /\ UNCHANGED <<scene, checker, answer>>

\* The midstates of a caller: none, an object that was never filled in, and
\* those computed without and with the spent outputs that it knows.
Midstates(spent) ==
  {{}, {NoMidstates}, {compute(scene.tx, {})}, {compute(scene.tx, spent)}}

\* The caller may not know the outputs that are spent; the amount is then 0.
NewChecker(spent) ==
  /\ signature # {} /\ checker = {}
  /\ \E precomputed \in Midstates(spent) :
       checker' = {[spent |-> spent,
                    amount |-> IF spent = {} THEN 0 ELSE Amount(scene),
                    precomputed |-> precomputed]}
  /\ UNCHANGED <<scene, signature, answer>>

\* Mutant: midstates without those of taproot are kept.
_taproot_precomputed_AnyGiven(c) ==
  IF c.precomputed # {} THEN c.precomputed ELSE {compute(scene.tx, c.spent)}

\* The midstates that a taproot check uses, and keeps.
_taproot_precomputed(c) ==
  IF \E p \in c.precomputed : p.sha_prevouts # {} THEN c.precomputed
  ELSE {compute(scene.tx, c.spent)}

Verdict(messages, sig) ==
  IF messages = {} THEN "raised"
  ELSE IF sig.message \in messages THEN "valid" ELSE "invalid"

\* What c answers to sig: the legacy and version 0 hashes read the midstates as
\* they are.
EcdsaAnswer(scheme, c, sig) ==
  Verdict(Messages(scheme, scene, c.spent, c.amount, HashType(sig.tag), c.precomputed), sig)

SchnorrAnswer(scheme, c, sig) ==
  IF sig.tag = {0} THEN "invalid"
  ELSE Verdict(Messages(scheme, scene, c.spent, c.amount, HashType(sig.tag),
                        _taproot_precomputed(c)), sig)

CheckEcdsa(scheme) ==
  /\ \E c \in checker, sig \in signature :
       answer' = {[scheme |-> scheme, result |-> EcdsaAnswer(scheme, c, sig)]}
  /\ UNCHANGED <<scene, signature, checker>>

CheckSchnorr(scheme) ==
  /\ \E c \in checker, sig \in signature :
       /\ answer' = {[scheme |-> scheme, result |-> SchnorrAnswer(scheme, c, sig)]}
       /\ checker' = IF sig.tag = {0} THEN checker
                     ELSE {[c EXCEPT !.precomputed = _taproot_precomputed(c)]}
  /\ UNCHANGED <<scene, signature>>

SigInit ==
  /\ scene \in Originals
  /\ signature = {} /\ checker = {} /\ answer = {}

SigNext ==
  \/ \E scheme \in Ecdsa \cup Schnorr, tag \in Tags : Sign(scheme, tag)
  \/ Amend
  \/ \E tag \in Tags : Retag(tag)
  \/ \E spent \in {{}, {scene.spent}} : NewChecker(spent)
  \/ \E scheme \in Ecdsa : CheckEcdsa(scheme)
  \/ \E scheme \in Schnorr : CheckSchnorr(scheme)

SigSpec == SigInit /\ [][SigNext]_sigVars
------------------------------------------------------------------------------
(* What a signature names.                                                 *)

\* The parts of a scene that a hash type may leave open, and the amount of the
\* spent output as a checker has it.
Parts(s, amount) ==
  [version |-> s.tx.version, locktime |-> s.tx.locktime,
   own_input |-> s.tx.vin[s.index],
   prevouts |-> [k \in DOMAIN s.tx.vin |-> s.tx.vin[k].prevout],
   sequences |-> [k \in DOMAIN s.tx.vin |-> s.tx.vin[k].sequence],
   index |-> s.index,
   outputs |-> s.tx.vout, own_output |-> Output(s.tx, s.index),
   amount |-> amount, own_spent |-> s.spent[s.index], spent |-> s.spent,
   code |-> s.code,
   signed_ops |-> SignedOps(s),
   annex |-> s.exec.annex, leaf |-> <<s.exec.leaf, s.exec.codesep>>]

\* The parts that stay as they are, by scheme and hash type: NONE opens the
\* outputs, SINGLE all but that of the input; ANYONECANPAY opens the other
\* inputs.  A legacy signature names no amounts and counts the outputs before
\* its own; a version 0 signature tells its input by what it spends, and not by
\* its index; a taproot signature names everything that its inputs spend.
Named(scheme, hashtype) ==
  LET base == hashtype % (IF scheme \in Schnorr THEN 4 ELSE 32)
      acp == AnyoneCanPay(hashtype)
  IN  {"version", "locktime", "own_input"}
      \cup (IF Whole(base) THEN {"outputs"}
            ELSE IF base = SIGHASH_SINGLE THEN {"own_output"} ELSE {})
      \cup (IF acp THEN {} ELSE {"prevouts"})
      \cup (IF ~acp /\ scheme # "v0" THEN {"index"} ELSE {})
      \cup (IF ~acp /\ (Whole(base) \/ scheme \in Schnorr) THEN {"sequences"} ELSE {})
      \cup (CASE scheme = "legacy" ->
                   {"signed_ops"} \cup (IF base = SIGHASH_SINGLE THEN {"index"} ELSE {})
              [] scheme = "v0" -> {"code", "amount"}
              [] OTHER -> {"annex", IF acp THEN "own_spent" ELSE "spent"})
      \cup (IF scheme = "tapscript" THEN {"leaf"} ELSE {})

\* A legacy signature of a SINGLE whose output does not exist signs nothing.
SignsNothing(scheme, s, hashtype) ==
  scheme = "legacy" /\ hashtype % 32 = SIGHASH_SINGLE /\ Output(s.tx, s.index) = {}

\* The scene at hand, with the amount, keeps what sig names.
Keeps(scheme, sig, amount) ==
  LET ht == HashType(sig.tag)
  IN  IF SignsNothing(scheme, sig.scene, HashType(sig.signedAs))
        THEN SignsNothing(scheme, scene, ht)
      ELSE /\ sig.tag = sig.signedAs
           /\ ~SignsNothing(scheme, scene, ht)
           /\ \A part \in Named(scheme, ht) :
                Parts(scene, amount)[part] = Parts(sig.scene, Amount(sig.scene))[part]

\* A signature survives exactly the changes that its hash type allows: it is
\* valid on its way if and only if every part that it names is what its owner
\* signed, under the scheme and the hash type that it was made with.  A checker
\* that does not know the spent outputs takes the amount for 0, and no taproot
\* signature for valid.
SignsWhatItNames ==
  \A a \in answer, sig \in signature, c \in checker :
    a.result = "valid" <=>
      /\ a.scheme = sig.scheme
      /\ c.spent = {} => a.scheme \in Ecdsa
      /\ Keeps(a.scheme, sig, IF c.spent = {} THEN 0 ELSE Amount(scene))

\* What was computed before makes no difference: neither the midstates that
\* the caller had nor those that an earlier check left (_taproot_precomputed,
\* bip143_sighash).
CachedIsFresh ==
  \A a \in answer, sig \in signature, c \in checker :
    LET new == [c EXCEPT !.precomputed = {}]
    IN  a.result = IF a.scheme \in Ecdsa THEN EcdsaAnswer(a.scheme, new, sig)
                   ELSE SchnorrAnswer(a.scheme, new, sig)
==============================================================================
