---------------------------- MODULE VerifyProperties ----------------------------
(***************************************************************************)
(* What a verification must guarantee: that its verdict is that of the     *)
(* evaluations it lists, that an accepted spend reveals what its output    *)
(* commits to, and how the verdict depends on the flags.                   *)
(***************************************************************************)
EXTENDS VerifyScript

CONSTANT Trees    \* of scripts, that outputs were made of

ASSUME TreesAssumption ==
  Trees \subseteq
    [internal_key : Item, leaves : Seq([version : Byte, script : Item])]

------------------------------------------------------------------------------
Accepted == phase = "done" /\ verdict = "OK"
LastRun == Last(runs)
Roles == [i \in DOMAIN runs |-> runs[i].role]

\* The trace agrees with its verdict (VerificationTrace.error and runs).  Only
\* the last run can have failed, and then its error is the verdict.  Accepted:
\* every script but the scriptSig left a true value, a witness script nothing
\* else, and under CLEANSTACK neither did the last script of a spend without a
\* witness program.
VerdictFollowsRuns ==
  phase = "done" =>
    /\ \A i \in DOMAIN runs :
         runs[i].error # "OK" => i = Len(runs) /\ verdict = runs[i].error
    /\ verdict = "OK" =>
         /\ \A i \in 2..Len(runs) : LeavesTrue(runs[i].final)
         /\ LastRun.role \in {"witnessScript", "tapscript"} => Len(LastRun.final) = 1
         /\ /\ Flag("CLEANSTACK") /\ LastRun.role \in {"scriptPubKey", "redeemScript"}
            /\ program = NoProgram
            => Len(LastRun.final) = 1

\* The stack is handed from script to script: the scriptPubKey runs on what the
\* scriptSig left, and so does the redeem script, which is the item on top of
\* it and is itself removed.  Any other script runs on the witness alone.
StackHandOver ==
  /\ \E tail \in {<< >>, <<"redeemScript">>, <<"witnessScript">>, <<"tapscript">>,
                  <<"keypath">>} :
       IsPrefix(Roles, <<"scriptSig", "scriptPubKey">> \o tail)
  /\ runs # << >> => runs[1].initial = << >> /\ runs[1].script = spend.scriptSig
  /\ Len(runs) >= 2 => runs[2].initial = runs[1].final
  /\ Len(runs) = 3 =>
       IF runs[3].role = "redeemScript"
         THEN Append(runs[3].initial, runs[3].script) = runs[1].final
         ELSE IsPrefix(runs[3].initial, spend.witness)
------------------------------------------------------------------------------
(* What an output commits to.                                              *)

OutputHash == SubSeq(spend.scriptPubKey, 3, 22)
Revealed == Last(runs[1].final)

\* The witness programs that this spend answers: the output itself, or the
\* script that it commits to as P2SH.
AnsweredPrograms ==
  {witness_program(s) : s \in
     {spk \in {spend.scriptPubKey} : IsWitnessProgram(spk)}
     \cup {r \in IF is_p2sh(spend.scriptPubKey) THEN {Revealed} ELSE {} :
             IsWitnessProgram(r)}}

SignedKeyHash(p) ==
  /\ Len(spend.witness) = 2
  /\ Digest(OP_HASH160, spend.witness[2]) = p.bytes
  /\ EcdsaValid(spend.witness[1], spend.witness[2],
                Parse(P2WPKHScript(p.bytes)).ops, "WITNESS_V0")

RanWitnessScript(p) ==
  /\ spend.witness # << >>
  /\ Digest(OP_SHA256, Last(spend.witness)) = p.bytes
  /\ LastRun.role = "witnessScript"
  /\ LastRun.script = Last(spend.witness)
  /\ LastRun.initial = Front(spend.witness)

\* The leaves of a tree hang one below the other; the hash beside leaf i is that
\* of what hangs below it.
Below(leaves) ==
  LET n == Len(leaves)
      hash[i \in 1..n] ==
        LET leaf == tapleaf_hash(leaves[i].version, leaves[i].script)
        IN  IF i = n THEN leaf ELSE TapBranch(hash[i + 1], leaf)
  IN  hash

OutputOf(tree) == TweakedBy(tree.internal_key, Below(tree.leaves)[1])

\* The control block that its owner makes for leaf i of a tree.
HonestControl(tree, i) ==
  LET n == Len(tree.leaves)
      LeafHash(j) == tapleaf_hash(tree.leaves[j].version, tree.leaves[j].script)
      up == [k \in 1..(i - 1) |-> LeafHash(i - k)]
      path == IF i = n THEN up ELSE <<Below(tree.leaves)[i + 1]>> \o up
      out == CHOOSE o \in OutputOf(tree) : TRUE
  IN  <<tree.leaves[i].version + out.parity>> \o tree.internal_key \o FlattenSeq(path)

TreesOf(p) == {t \in Trees : \E o \in OutputOf(t) : o.key = p.bytes}

IsLeafOf(tree, control, script) ==
  [version |-> control[1] - (control[1] % 2), script |-> script] \in Range(tree.leaves)

AuthorisedByTaproot(p) ==
  \E w \in {spend.witness} \cup
           (IF Len(spend.witness) >= 2 THEN {Front(spend.witness)} ELSE {}) :
    \/ Len(w) = 1 /\ VerifyKeyPath(w[1], p.bytes)
    \/ Len(w) >= 2 /\ \E t \in TreesOf(p) : IsLeafOf(t, Last(w), w[Len(w) - 1])

\* A version and a parity, the internal key and a path of hashes.
WellSized(control) == Len(control) >= 33 /\ (Len(control) - 33) % 32 = 0

\* What a taproot output commits to by its bytes: a signature by its key, or a
\* script that the control block beside it hashes to the output, in the witness
\* or in the witness without its last item, the annex.
ShownByTaproot(p) ==
  \E w \in {spend.witness} \cup
           (IF Len(spend.witness) >= 2 THEN {Front(spend.witness)} ELSE {}) :
    \/ Len(w) = 1 /\ VerifyKeyPath(w[1], p.bytes)
    \/ /\ Len(w) >= 2 /\ WellSized(Last(w))
       /\ verify_taproot_commitment(Last(w), p.bytes, w[Len(w) - 1])

\* An accepted spend shows what its output commits to: the redeem script that
\* hashes to a P2SH output; the witness script that hashes to a program, which
\* ran on the rest of the witness; a signature by the key that hashes to one; a
\* signature by the taproot key, or a script that a control block commits the
\* output to.  A version 0 program of any other size is never spendable.
AcceptedIsAuthorised ==
  Accepted =>
    /\ Flag("P2SH") /\ is_p2sh(spend.scriptPubKey) =>
         Digest(OP_HASH160, Revealed) = OutputHash
    /\ Flag("WITNESS") /\ Flag("P2SH") =>
         \A p \in AnsweredPrograms :
           /\ p.version = 0 =>
                \/ Len(p.bytes) = 20 /\ SignedKeyHash(p)
                \/ Len(p.bytes) = 32 /\ RanWitnessScript(p)
           /\ p.version = 1 /\ Len(p.bytes) = 32 /\ Flag("TAPROOT") => ShownByTaproot(p)

\* A taproot output is spent by its owner's tree and no other: what is accepted
\* without a signature by the output's key is a leaf, of the version the control
\* block names, of the tree that the output was made of; and every script of a
\* tree can be spent by, the control block that its owner makes for it is never
\* refused as one of another tree (verify_taproot_commitment).
TaprootIsItsTree ==
  /\ Accepted /\ {"P2SH", "WITNESS", "TAPROOT"} \subseteq input.flags =>
       \A p \in AnsweredPrograms :
         p.version = 1 /\ Len(p.bytes) = 32 => AuthorisedByTaproot(p)
  /\ phase = "done" /\ controlBlock # {} /\ verdict = "WITNESS_PROGRAM_MISMATCH" =>
       \A t \in TreesOf(program) : \A i \in DOMAIN t.leaves :
         TapScript = t.leaves[i].script => Control # HonestControl(t, i)

\* Nobody on the way can add to a spend without making it invalid: under
\* WITNESS an accepted spend has a witness only if a witness program consumed
\* it, and then its scriptSig is empty, or exactly the push of the program.
NotMalleable ==
  Accepted /\ Flag("WITNESS") /\ Flag("P2SH") =>
    /\ spend.witness # << >> => AnsweredPrograms # {}
    /\ AnsweredPrograms # {} =>
         spend.scriptSig = IF is_p2sh(spend.scriptPubKey) THEN PushBytes(Revealed)
                           ELSE << >>

\* Flags that leave room for later rules to give it back, and combinations that
\* the network never uses (WITNESS needs P2SH, CLEANSTACK needs both).
Reserving ==
  {"DISCOURAGE_UPGRADABLE_NOPS", "DISCOURAGE_UPGRADABLE_WITNESS_PROGRAM",
   "DISCOURAGE_UPGRADABLE_PUBKEYTYPE", "DISCOURAGE_OP_SUCCESS",
   "DISCOURAGE_UPGRADABLE_TAPROOT_VERSION"}

Coherent(f) ==
  /\ "WITNESS" \in f => "P2SH" \in f
  /\ "CLEANSTACK" \in f => {"P2SH", "WITNESS"} \subseteq f

\* The verdict b accepts what a, under fewer flags, refuses.
Gains(a, b) ==
  /\ a.flags \subseteq b.flags
  /\ Coherent(a.flags) /\ Coherent(b.flags) /\ a.flags \cap Reserving = {}
  /\ a.error # "OK" /\ b.error = "OK"

\* The program that a scriptSig of one push reveals, if it reveals one.
NestedPrograms ==
  {witness_program(op.data) : op \in
     {o \in Range(Parse(spend.scriptSig).ops) :
        /\ spend.scriptSig = PushBytes(o.data)
        /\ IsWitnessProgram(o.data)}}

\* More flags accept more in one case only: a P2SH output reveals a witness
\* program whose bytes are false as a number.  Without WITNESS verify runs it as
\* a redeem script, which leaves the false bytes; with WITNESS it is not run.
\* No other branch that a flag enters accepts what was refused without it.
OnlyFalseProgramsGain ==
  \A a, b \in verdicts : Gains(a, b) =>
    /\ "P2SH" \in a.flags /\ "WITNESS" \in b.flags \ a.flags
    /\ a.error = "EVAL_FALSE"
    /\ is_p2sh(spend.scriptPubKey)
    /\ \E p \in NestedPrograms : ~cast_to_bool(p.bytes)

\* Every rule is a soft fork, as in the VerifyScript of Bitcoin Core that
\* interpreter.py says it mirrors: whatever is valid under some flags is valid
\* under fewer of them.
FlagsOnlyRestrict == \A a, b \in verdicts : ~Gains(a, b)
------------------------------------------------------------------------------
\* Every verification ends, with a trace or with an exception of its own.
VerifyEnds == (phase = "begin") ~> (phase \in {"done", "escaped"})

\* verify's docstring: it returns a trace, whatever it is given.
ReturnsTrace == (phase = "begin") ~> (phase = "done")
==============================================================================
