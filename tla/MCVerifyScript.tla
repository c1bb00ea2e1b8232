---------------------------- MODULE MCVerifyScript ----------------------------
(***************************************************************************)
(* The spends that the runs of VerifyScript verify, each under two sets of *)
(* flags, and values for the external constants.                           *)
(***************************************************************************)
EXTENDS VerifyProperties

NoInputs == {}

Repeat(x, n) == [i \in 1..n |-> x]

\* A checksum stands for the hash; DigestsDiffer says that it tells the scripts
\* and keys below apart.
SumOf[data \in Seq(Byte)] ==
  LET h[i \in 0..Len(data)] ==
        IF i = 0 THEN Len(data) ELSE (35 * h[i - 1] + data[i] + 7) % 251
  IN  h[Len(data)]
Sum(data) == SumOf[data]
MCDigest(op, data) == Repeat(Sum(data), IF op = OP_SHA256 THEN 32 ELSE 20)

MCVerifyEcdsa(sig, pubkey, code, sig_version) == sig = <<1, pubkey[1], 1>>
MCVerifySchnorr(sig, pubkey, pos) == sig[1] = pubkey[1]
MCVerifyKeyPath(sig, key) == sig[1] = key[1]

\* A key of 0s is not a point of the curve; any other is moved by the tweak.
Padding == Repeat(0, 30)
TaggedOf[tag \in STRING, data \in Seq(Byte)] ==
  LET salt == CASE tag = "TapLeaf" -> 1 [] tag = "TapBranch" -> 2 [] OTHER -> 3
  IN  <<Sum(data \o <<salt>>), Sum(<<salt>> \o data)>> \o Padding
Tagged(tag, data) == TaggedOf[tag, data]
TweakPubkey(key, tweak) ==
  {[key |-> [i \in 1..32 |-> (k[i] + t[i]) % 256], parity |-> t[1] % 2] :
     k \in {x \in {key} : x[1] # 0}, t \in {tweak}}

MCAny(data) == TRUE

True == <<OP_1>>
False == <<OP_0>>
TwoItems == <<OP_1, OP_1>>
Unclosed == <<OP_1, OP_IF>>
Cut == <<2, 5>>
Dropping == <<OP_DROP>>
Key == <<9, 9>>

P2SHOf(redeem) == <<OP_HASH160, 20>> \o MCDigest(OP_HASH160, redeem) \o <<OP_EQUAL>>
ProgramOf(version, bytes) == <<version, Len(bytes)>> \o bytes
P2WSHOf(script) == ProgramOf(OP_0, MCDigest(OP_SHA256, script))
P2WPKHOf(key) == ProgramOf(OP_0, MCDigest(OP_HASH160, key))

\* A transaction whose input has an output beside it, and one whose has not.
Tx(hasOutput) == [version |-> 2, locktime |-> 0, sequence |-> 0, hasOutput |-> hasOutput]

Spending(sigs, output, witnesses) ==
  [scriptSig : sigs, scriptPubKey : {output}, witness : witnesses, checker : {TRUE},
   tx : {Tx(TRUE)}]
------------------------------------------------------------------------------
\* Bare outputs, P2SH with and without a witness program inside, version 0
\* programs and a version that is not used yet.
BareSpends ==
  UNION {Spending({<< >>, True, False, TwoItems, Unclosed, Cut, <<OP_1, OP_NOP>>},
                  output, {<< >>, <<True>>}) :
           output \in {True, << >>, Dropping, Unclosed, Cut}}

\* Witness programs whose bytes are false as a number: zeros, and negative zero.
FalsePrograms == {ProgramOf(version, bytes) : version \in {OP_0, OP_1, OP_1 + 1, OP_16},
                                              bytes \in {<<0, 0>>, <<0, 128>>}}

RedeemScripts ==
  {True, False, Cut, Dropping, P2WSHOf(True), P2WPKHOf(Key),
   ProgramOf(OP_0, <<7, 7>>), ProgramOf(OP_1 + 1, <<7, 7>>)} \cup FalsePrograms

WitnessScripts == {True, False, TwoItems, Dropping, Unclosed}

Witnesses ==
  {<< >>, <<True>>, <<<<OP_16>>>>, <<<<5>>, True>>, <<<<1, 9, 1>>, Key>>,
   <<<<2, 9, 1>>, Key>>, <<Repeat(1, 67), True>>}

P2SHSpends ==
  UNION {Spending({<< >>, PushBytes(r), PushBytes(False) \o PushBytes(r),
                   PushBytes(r) \o <<OP_NOP>>},
                  P2SHOf(r), {<< >>, <<True>>, <<<<1, 9, 1>>, Key>>}) :
           r \in RedeemScripts}
  \cup Spending({PushBytes(False)}, P2SHOf(True), {<< >>})

\* Outputs whose redeem script is a witness program, for a flag to look into.
NestedSpends ==
  UNION {Spending({PushBytes(r)}, P2SHOf(r), {<< >>, <<True>>}) :
           r \in {s \in RedeemScripts : IsWitnessProgram(s)}}

NativeSpends ==
  UNION {Spending({<< >>}, P2WSHOf(s), {<<s>>, <<<<1>>, s>>, <<<<1>>, <<1>>, s>>}) :
           s \in WitnessScripts}
  \cup UNION {Spending({<< >>, True}, output, Witnesses) :
                output \in {P2WSHOf(True), P2WPKHOf(Key), ProgramOf(OP_0, <<7, 7>>),
                            ProgramOf(OP_1 + 1, <<0, 0>>), ProgramOf(OP_16, <<7, 7>>)}}

------------------------------------------------------------------------------
\* Taproot outputs of a key alone: signatures by it.
TapKey(n) == Repeat(n, 32)
TapSig(k, n) == Repeat(k, n)
Annex == <<80>>

KeyPathWitnesses ==
  UNION {{<<s>>, <<s, Annex>>} :
           s \in {TapSig(7, 64), TapSig(8, 64), TapSig(7, 63), TapSig(7, 65),
                  TapSig(1, 65), TapSig(3, 65), << >>}}

\* A key behind P2SH, and a program of its version but not of its size.
NestedKeySpends ==
  UNION {Spending({PushBytes(r)}, P2SHOf(r), {<< >>, <<TapSig(7, 64)>>, <<TapSig(8, 64)>>}) :
           r \in {ProgramOf(OP_1, TapKey(7)), ProgramOf(OP_1, <<7, 7>>)}}

KeyPathSpends ==
  Spending({<< >>}, ProgramOf(OP_1, TapKey(7)), {<< >>, <<Annex>>} \cup KeyPathWitnesses)
  \cup [scriptSig : {<< >>}, scriptPubKey : {ProgramOf(OP_1, TapKey(7))},
        witness : {<<TapSig(7, 64)>>}, checker : {FALSE}, tx : {Tx(TRUE)}]
  \cup [scriptSig : {<< >>}, scriptPubKey : {ProgramOf(OP_1, TapKey(3))},
        witness : {<<TapSig(k, 65)>> : k \in {2, 3, 7}}, checker : BOOLEAN,
        tx : {Tx(TRUE), Tx(FALSE)}]
  \cup Spending({<< >>, True}, ProgramOf(OP_1, TapKey(0)), {<<TapSig(0, 64)>>})
  \cup NestedKeySpends
------------------------------------------------------------------------------
\* Taproot outputs of trees: each script as a leaf of the tapscript version
\* beside one of another version, alone, and three leaves deep.
CheckSig == PushBytes(TapKey(7)) \o <<OP_CHECKSIG>>
TapScripts ==
  {True, False, TwoItems, Cut, <<80>>, <<80, 2, 5>>, <<2, 5, 5, 80, 2>>, CheckSig}

Leaf(version, script) == [version |-> version, script |-> script]
Tree(leaves) == [internal_key |-> TapKey(5), leaves |-> leaves]
Pair(script) == Tree(<<Leaf(192, script), Leaf(194, script)>>)
Alone == Tree(<<Leaf(192, True)>>)
ThreeDeep == Tree(<<Leaf(192, CheckSig), Leaf(194, False), Leaf(192, True)>>)
AllTrees == {Alone, ThreeDeep} \cup {Pair(s) : s \in TapScripts}

Program(tree) == ProgramOf(OP_1, (CHOOSE o \in OutputOf(tree) : TRUE).key)
Revealing(tree, i) == <<tree.leaves[i].script, HonestControl(tree, i)>>

\* A control block with bytes changed, and with the first two hashes swapped.
Forge(control, i, byte) == [control EXCEPT ![i] = byte]
SwapHashes(control) ==
  SubSeq(control, 1, 33) \o SubSeq(control, 66, 97) \o SubSeq(control, 34, 65)

HonestSpends ==
  UNION {Spending({<< >>}, Program(t),
                  {s \o Revealing(t, i) : s \in {<< >>, <<TapSig(7, 64)>>},
                                          i \in DOMAIN t.leaves}) : t \in AllTrees}

\* The wrong version, parity or internal key, a hash too few, too many or in the
\* wrong place, a branch shown as a leaf, another script, and a block of a wrong
\* size.
ForgedControls(tree, i) ==
  LET c == HonestControl(tree, i)
  IN  {Forge(c, 1, 194), Forge(c, 1, 193), Forge(c, 1, 192), Forge(c, 2, 6),
       Forge(c, 33, 0), Forge(Forge(c, 2, 0), 3, 0), SubSeq(c, 1, Len(c) - 32),
       c \o TapKey(9), c \o <<1>>, SubSeq(c, 1, 2), Forge(c, Len(c), 0)}
      \cup (IF Len(c) = 97 THEN {SwapHashes(c)} ELSE {})

ForgedSpends ==
  UNION {Spending({<< >>}, Program(t),
                  {<<script, c>> : script \in {t.leaves[i].script, True, False},
                                   c \in ForgedControls(t, i)}) :
           t \in {Alone, ThreeDeep, Pair(True)}, i \in {1}}
  \cup Spending({<< >>}, Program(ThreeDeep),
                {<<script, HonestControl(ThreeDeep, i)>> :
                   script \in {True, False, CheckSig, TapKey(9) \o TapKey(9)}, i \in 1..3}
                \cup {<<True, c>> : c \in ForgedControls(ThreeDeep, 3)})

\* A hash type that asks for an output which may not be there.
SingleSpends ==
  [scriptSig : {<< >>}, scriptPubKey : {Program(ThreeDeep)}, checker : {TRUE},
   witness : {<<TapSig(7, 64) \o <<ht>>>> \o Revealing(ThreeDeep, 1) : ht \in {1, 3, 131}},
   tx : {Tx(TRUE), Tx(FALSE)}]

\* Beside the script and its control block: items that are too long, an annex,
\* and such a signature.
MoreSpends ==
  Spending({<< >>}, Program(Alone),
           {<<Repeat(1, 67)>> \o Revealing(Alone, 1), Append(Revealing(Alone, 1), Annex)})
  \cup SingleSpends

DeepWitness == <<True, HonestControl(Alone, 1) \o Repeat(0, 96)>>

DeepSpends == HonestSpends \cup Spending({<< >>}, Program(Alone), {DeepWitness})

TaprootSpends == KeyPathSpends \cup ForgedSpends \cup MoreSpends \cup DeepSpends

AllSpends == BareSpends \cup P2SHSpends \cup NativeSpends \cup TaprootSpends

\* Chains of more and more rules, and two sets that are in none.
AllFlags ==
  {{}, {"P2SH"}, {"P2SH", "WITNESS"}, {"P2SH", "WITNESS", "TAPROOT"},
   {"P2SH", "WITNESS", "TAPROOT", "CLEANSTACK"},
   {"P2SH", "WITNESS", "TAPROOT", "SIGPUSHONLY", "DISCOURAGE_OP_SUCCESS",
    "DISCOURAGE_UPGRADABLE_TAPROOT_VERSION"},
   {"P2SH", "WITNESS", "DISCOURAGE_UPGRADABLE_WITNESS_PROGRAM"}, {"WITNESS"}}

Hashed == RedeemScripts \cup WitnessScripts \cup TapScripts \cup {Key}

ASSUME DigestsDiffer == \A a, b \in Hashed : Sum(a) = Sum(b) => a = b
ASSUME OutputsExist == \A t \in AllTrees : Cardinality(OutputOf(t)) = 1
ASSUME OutputsDiffer == \A a, b \in AllTrees : Program(a) = Program(b) => a = b
==============================================================================
