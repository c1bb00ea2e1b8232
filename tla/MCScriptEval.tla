----------------------------- MODULE MCScriptEval -----------------------------
(***************************************************************************)
(* The evaluations that the runs of ScriptEval start from, and values for  *)
(* its external constants.  Every family of inputs is all sequences of     *)
(* operations of an alphabet up to a length, on a few initial stacks,      *)
(* under the rules and flags that the operations look at.                  *)
(***************************************************************************)
EXTENDS ScriptEvalProperties

Do(op) == [opcode |-> op, data |-> << >>]
Push(data) == encode_push(data)
Dos(ops) == {Do(op) : op \in ops}

Programs(alphabet, n) == {[ops |-> s, tail |-> 0] : s \in SeqOf(alphabet, n)}

\* A transaction that is final, with as many outputs as inputs.
FinalTx == [version |-> 2, locktime |-> 0, sequence |-> 63, hasOutput |-> TRUE]

Inputs(scripts, stacks, versions, flagSets) ==
  [script : scripts, stack : stacks, sigVersion : versions, flags : flagSets,
   checker : {TRUE}, tx : {FinalTx}, weight : {0}]
------------------------------------------------------------------------------
(* The external world.  A signature <<k, n, hash type>> of key k signs a    *)
(* script code of n operations; k = 3 signs for both keys.  A Schnorr       *)
(* signature names its key and the separator position it commits to.        *)

Key(k) == <<2>> \o [i \in 1..32 |-> k]
SigOf(k, n) == <<k, n, 1>>
NotDer == <<7, 1, 1>>

MCVerifyEcdsa(sig, pubkey, code, sig_version) ==
  /\ Len(sig) = 3 /\ Len(pubkey) >= 2
  /\ sig[1] \in {3, pubkey[2]}
  /\ sig[2] = Len(code)
MCValidDer(sig) == sig # NotDer
MCLowS(sig) == sig[1] # 6

XKey(k) == [i \in 1..32 |-> k]
Schnorr(k, pos, n) == [i \in 1..n |-> IF i = 1 THEN k ELSE IF i = 2 THEN pos + 1 ELSE 1]
MCVerifySchnorr(sig, pubkey, pos) == sig[1] = pubkey[1] /\ sig[2] = pos + 1

MCDigest(op, data) == IF data = << >> THEN <<op>> ELSE <<op, data[1]>>
------------------------------------------------------------------------------
\* Conditionals: nested branches, unbalanced ends, opcodes that fail in an
\* inactive branch, and the three rules on the argument of OP_IF.
ConditionalInputs ==
  Inputs(Programs(Dos({OP_0, OP_1, OP_IF, OP_ELSE, OP_ENDIF}), 6),
         {<< >>}, {"BASE"}, {{}})
  \cup
  Inputs(Programs(Dos({OP_1, OP_IF, OP_NOTIF, OP_ELSE, OP_ENDIF, OP_VERIF, OP_VERIFY,
                       OP_RETURN, OP_VER}), 4),
         {<< >>, <<<<1>>, <<0, 128>>>>}, {"WITNESS_V0"}, {{}})
  \cup
  Inputs(Programs(Dos({OP_IF, OP_NOTIF, OP_ENDIF}), 2),
         {<<s>> : s \in {<< >>, <<1>>, <<2>>, <<1, 0>>, <<128>>}},
         SigVersion, {{}, {"MINIMALIF"}})
  \cup
  Inputs(Programs(Dos({OP_0, OP_1, OP_IF, OP_ENDIF, OP_CODESEPARATOR, OP_TOALTSTACK}), 4),
         {<< >>}, {"WITNESS_V0"}, {{}})
------------------------------------------------------------------------------
\* Stack operations: every one on stacks from empty to seven different items,
\* and longer scripts that meet the limit of both stacks together.
Tower(n) == [i \in 1..n |-> IF i = 7 THEN <<2>> ELSE <<10 + i>>]

StackInputs ==
  Inputs(Programs(Dos(STACK_SHUFFLES \cup {OP_IFDUP, OP_DEPTH, OP_PICK, OP_ROLL,
                        OP_SIZE, OP_TOALTSTACK, OP_FROMALTSTACK, OP_EQUAL,
                        OP_EQUALVERIFY, OP_0, OP_1, OP_1 + 1, OP_1NEGATE, OP_NOP}), 2),
         {Tower(n) : n \in {0, 1, 2, 4, 7}} \cup {<<<<1>>, <<1>>>>}, {"BASE"}, {{}})
  \cup
  Inputs(Programs(Dos({OP_TOALTSTACK, OP_FROMALTSTACK, OP_DUP, OP_3DUP, OP_DEPTH,
                       OP_1, OP_ROLL}), 4),
         {<< >>, Tower(3)}, {"TAPSCRIPT"}, {{}})
------------------------------------------------------------------------------
\* Arithmetic on the edges of one- and two-byte numbers, with operands that are
\* negative zero, padded or too long; and the lock-time operations.
Numbers ==
  {<< >>, <<1>>, <<129>>, <<255, 0>>, <<255, 127>>, <<255, 255>>, <<128>>, <<1, 0>>,
   <<0, 0, 1>>}

\* Five bits of a sequence have a meaning: two of length, 8 for seconds, 32 to
\* disable; the lock times below 4 are heights.
LockOperands ==
  {<< >>, <<1>>, <<3>>, <<4>>, <<6>>, <<9>>, <<11>>, <<17>>, <<40>>, <<130>>, <<128, 0>>,
   <<0, 1>>, <<1, 1, 1>>}

LockedTxs ==
  {[version |-> v, locktime |-> l, sequence |-> s, hasOutput |-> TRUE] :
     v \in {1, 2}, l \in {0, 3, 5}, s \in {0, 2, 9, 22, 34, 63}}

\* One that is locked in both ways, for scripts of two locks.
SomeLockedTxs == {[version |-> 2, locktime |-> 5, sequence |-> 9, hasOutput |-> TRUE]}

NumericInputs ==
  Inputs(Programs(Dos(UNARY_NUMERIC \cup BINARY_NUMERIC \cup {OP_PICK}), 1),
         {<<a, b>> : a, b \in Numbers}, {"BASE"}, {{}, {"MINIMALDATA"}})
  \cup
  Inputs(Programs(Dos({OP_WITHIN, OP_ADD, OP_SUB, OP_ABS}), 2),
         {<<a, b, c>> : a \in Numbers \ {<< >>}, b, c \in Numbers}, {"WITNESS_V0"},
         {{"MINIMALDATA"}})
  \cup
  UNION {[script : Programs(Dos({OP_CHECKLOCKTIMEVERIFY, OP_CHECKSEQUENCEVERIFY, OP_NOP1,
                                 OP_DROP}), n),
          stack : {<< >>} \cup {<<o>> : o \in LockOperands}, sigVersion : {"BASE"},
          flags : SUBSET {"CHECKLOCKTIMEVERIFY", "CHECKSEQUENCEVERIFY",
                          "DISCOURAGE_UPGRADABLE_NOPS"},
          checker : {TRUE}, tx : IF n = 1 THEN LockedTxs ELSE SomeLockedTxs,
          weight : {0}] : n \in 1..2}
  \cup
  [script : Programs(Dos({OP_CHECKLOCKTIMEVERIFY, OP_CHECKSEQUENCEVERIFY}), 2),
   stack : {<< >>, <<<<1>>>>}, sigVersion : {"BASE"},
   flags : {{}, {"CHECKLOCKTIMEVERIFY", "CHECKSEQUENCEVERIFY"}},
   checker : {FALSE}, tx : {FinalTx}, weight : {0}]
------------------------------------------------------------------------------
\* Limits, with every limit small enough to be met: pushes that are too long or
\* not minimal, counted and disabled operations in branches that are skipped.
Padded == [opcode |-> OP_PUSHDATA1, data |-> <<1>>]

LimitInputs ==
  Inputs(Programs(Dos({OP_0, OP_1, OP_IF, OP_ENDIF, OP_NOP, 126, OP_SHA256})
                    \cup {Push(<<1, 2, 3, 4>>), Padded}, 4),
         {<< >>, <<<<5>>, <<5, 5>>>>}, {"BASE", "TAPSCRIPT"}, {{}})
  \cup
  Inputs([ops : SeqOf(Dos({OP_0, OP_1NEGATE, OP_RETURN, OP_16}) \cup {Padded}
                        \cup {Push(<<n>>) : n \in {5, 17, 129}}, 2), tail : {0, 1, 7}],
         {<< >>}, SigVersion, {{}, {"MINIMALDATA"}})
------------------------------------------------------------------------------
\* Single signatures: over code that separators and the signature itself cut
\* short, malformed ones, and keys of unusual types.
Sigs1 == {<< >>, SigOf(1, 1), SigOf(1, 2), SigOf(1, 3), SigOf(2, 2), NotDer,
          <<6, 1, 1>>, <<1, 1, 9>>}
Keys1 == {Key(1), <<4>> \o [i \in 1..64 |-> 1], <<9, 1>>}
SigFlags == {{}, {"NULLFAIL"}, {"STRICTENC"}, {"LOW_S", "WITNESS_PUBKEYTYPE"}}

SignatureInputs ==
  Inputs(Programs(Dos({OP_CODESEPARATOR, OP_CHECKSIG, OP_CHECKSIGVERIFY, OP_2DUP})
                    \cup {Push(SigOf(1, 2))}, 3),
         {<<s, k>> : s \in Sigs1, k \in Keys1}, {"BASE", "WITNESS_V0"}, SigFlags)
  \cup
  [script : Programs(Dos({OP_CHECKSIG, OP_CODESEPARATOR}), 2),
   stack : {<< >>, <<SigOf(1, 1), Key(1)>>}, sigVersion : {"BASE"}, flags : {{}},
   checker : BOOLEAN, tx : {FinalTx}, weight : {0}]
  \cup
  Inputs({[ops |-> <<Do(OP_0 + 81 * b), Do(OP_IF), Do(OP_CODESEPARATOR), Do(OP_ELSE),
                     Push(SigOf(1, n)), Do(OP_DROP), Do(OP_ENDIF), Do(OP_CHECKSIG)>>,
           tail |-> 0] : b \in 0..1, n \in 4..8},
         {<<SigOf(1, n), Key(1)>> : n \in 4..8}, {"BASE", "WITNESS_V0"}, {{}})
------------------------------------------------------------------------------
\* Multi-signature checks, well-formed or with counts that do not fit the stack.
MultiStack(dummy, sigs, m, keys, n) ==
  dummy \o sigs \o <<m>> \o keys \o <<n>>

MultisigScripts ==
  {[ops |-> s, tail |-> 0] : s \in
     {<<Do(op)>> : op \in CHECKMULTISIG_OPCODES}
     \cup {<<Do(op), Do(OP_CHECKMULTISIG)>> : op \in {OP_CODESEPARATOR, OP_NOP}}
     \cup {<<Push(SigOf(1, 3)), Do(OP_DROP), Do(OP_CHECKMULTISIG)>>}}

MultisigInputs ==
  Inputs(MultisigScripts,
         {MultiStack(<<d>>, s, Bool(s # << >>) , k, encode_num(Len(k))) :
            d \in {<< >>, <<7>>}, s \in SeqOf({<< >>, SigOf(1, 1), SigOf(2, 2)}, 1),
            k \in SeqOf({Key(1), Key(2), <<9, 1>>}, 2)}
         \cup
         {MultiStack(<<<< >>>>, s, <<2>>, k, <<2>>) :
            s \in [1..2 -> {<< >>, SigOf(1, 1), SigOf(1, 2), SigOf(2, 1), SigOf(3, 2)}],
            k \in [1..2 -> {Key(1), Key(2)}]},
         {"BASE", "WITNESS_V0"}, {{}, {"NULLFAIL"}, {"NULLDUMMY"}, {"STRICTENC"}})
  \cup
  [script : MultisigScripts,
   stack : {MultiStack(d, s, m, <<Key(1)>>, n) :
              d \in {<< >>, <<<< >>>>}, s \in {<< >>, <<SigOf(1, 1)>>},
              m \in {<< >>, <<1>>, <<2>>, <<129>>, <<1, 1, 1, 1, 1>>},
              n \in {<< >>, <<1>>, <<2>>, <<3>>, <<129>>, <<1, 0, 0, 0, 0>>}}
           \cup {<< >>},
   sigVersion : SigVersion, flags : {{}}, checker : BOOLEAN, tx : {FinalTx}, weight : {0}]

\* What the budget of operations is charged for.
ChargedInputs == LimitInputs \cup MultisigInputs
------------------------------------------------------------------------------
\* Tapscript signatures against a budget for none, one or two of them.
TapSigs == {<< >>, Schnorr(1, NO_POS, 64), Schnorr(1, 0, 64), Schnorr(1, 1, 65),
            Schnorr(2, NO_POS, 65), Schnorr(1, NO_POS, 63),
            Schnorr(1, NO_POS, 64) \o <<7>>}

TapscriptInputs ==
  UNION {[script : Programs(Dos({OP_CHECKSIG, OP_CHECKSIGVERIFY, OP_CHECKSIGADD, OP_2DUP,
                                 OP_3DUP, OP_CODESEPARATOR}), n),
          stack : {<<s, k>> : s \in TapSigs, k \in {XKey(1), << >>, <<5>>}}
                  \cup {<<s, i, k>> : s \in TapSigs, i \in {<<1>>, <<1, 1, 1, 1, 1>>},
                                      k \in {XKey(1), <<5>>}},
          sigVersion : {"TAPSCRIPT"},
          flags : IF n = 3 THEN {{}} ELSE {{"DISCOURAGE_UPGRADABLE_PUBKEYTYPE"}},
          checker : {TRUE}, tx : {FinalTx}, weight : {0, 60, 100}] : n \in 2..3}
  \cup
  [script : Programs(Dos({OP_CHECKSIG, OP_CHECKSIGADD, OP_3DUP}), 2),
   stack : {<<Schnorr(1, NO_POS, 64) \o <<t>>, <<1>>, XKey(1)>> : t \in {3, 130, 131}}
           \cup {<<Schnorr(1, NO_POS, 64) \o <<t>>, XKey(1)>> : t \in {2, 3, 131}},
   sigVersion : {"TAPSCRIPT"}, flags : {{}}, checker : {TRUE},
   tx : [version : {2}, locktime : {0}, sequence : {63}, hasOutput : BOOLEAN],
   weight : {60, 100}]
  \cup
  [script : Programs(Dos({OP_0, OP_IF, OP_ENDIF, OP_CODESEPARATOR, OP_CHECKSIGADD}), 4),
   stack : {<<Schnorr(1, NO_POS, 64), <<1>>, XKey(1)>>},
   sigVersion : {"TAPSCRIPT", "BASE"}, flags : {{}}, checker : BOOLEAN, tx : {FinalTx}, weight : {50}]

\* All that is told of the machine under limits that few of them meet.
MachineInputs ==
  ConditionalInputs \cup StackInputs \cup NumericInputs
  \cup SignatureInputs \cup TapscriptInputs
------------------------------------------------------------------------------
\* Scripts that may stop inside a conditional, or at a truncated push.
Short == SeqOf(Dos({OP_0, OP_1, OP_IF, OP_DUP, OP_TOALTSTACK}), 3)

UnbalancedInputs ==
  Inputs([ops : Short, tail : {0}], {Tower(4)}, {"BASE"}, {{}})
TruncatedInputs ==
  Inputs([ops : Short, tail : {2}], {<< >>, <<<<1>>>>}, {"BASE"}, {{}})
==============================================================================
