# A TLA+ model of bitoplens

bitoplens evaluates Bitcoin scripts and records every step, so that a viewer can
replay them. Its core is a stack machine (`vm/interpreter.py`), the verification
of a spend around it (`Interpreter.verify`), and the rules both share on script
bytes, numbers, signatures and limits. Beside that core stand what signatures
sign (`tx/sighash.py`, `vm/checker.py`), what is read from bytes
(`tx/transaction.py`, the DER parser) and the player of the viewer. This directory
holds TLA+ modules that model them, TLC configurations that check them on small
instances, and proofs that TLAPS checks for every value of the constants.

Paths below are relative to `src/src/bitoplens/` unless they start with `src/`.

- [1 The system](#1-the-system)
- [2 The modules](#2-the-modules)
- [3 What the runs check](#3-what-the-runs-check)
- [4 What is proved](#4-what-is-proved)
- [5 Where code and documentation disagree](#5-where-code-and-documentation-disagree)
- [6 What is abstracted or left out](#6-what-is-abstracted-or-left-out)
- [7 Plan](#7-plan)

## 1 The system

bitoplens is a library of sequential code: nothing runs concurrently except the
viewer's play timer and its user. What is hard about it is the length of the
legal sequences: a verification is up to three evaluations that hand a stack to
each other, an evaluation is a loop over operations with some forty error paths,
and a multi-signature check is a loop inside that loop. Each exit leaves a
trace that a user will read as the truth.

| Component | State it keeps | Operations | Talks to | What makes it correct |
| --- | --- | --- | --- | --- |
| Script evaluation, `vm/interpreter.py` `_eval_script`, `_step`, `_execute`; `vm/execdata.py` | the two stacks, `exec_stack`, `op_count`, the code separator, the tapscript budget, the run with its steps | one per opcode; begin, end, record a step | reads a parsed script; asks the signature checker; appends to the trace | skipped branches are inert, only balanced scripts are accepted, limits hold at every step, signatures sign the right code, the trace replays |
| Multi-signature loop, `vm/interpreter.py` `_op_checkmultisig` | `isig`, `ikey`, the remaining counts, `success`, the latest signature detail | one comparison per turn | the signature checker, through the encoding rules | true exactly when an order-preserving matching exists; never indexes past its arguments; ends |
| Verification of a spend, `Interpreter.verify`, `_verify_witness_program`, `_verify_taproot` | the runs, the spend kind, the control block | P2SH, witness v0, Taproot key path and script path, annex, OP_SUCCESS | evaluations, hashing, Taproot commitments | an accepted spend reveals what its output commits to; the verdict is that of the runs; a flag never makes an invalid spend valid (it does in one case, MCNested in section 5) |
| Script numbers, `primitives/scriptnum.py` | none | `encode_num`, `decode_num`, `cast_to_bool` | the evaluation | round trip, minimality, exact results one byte longer than the operands |
| Parser and pushes, `script/script.py` | none | `ops`, `op_length`, `find_and_delete`, `is_push_only`, minimal pushes, disassembly, builder | the evaluation, the verification | two walks over the same bytes agree; deletion is by whole operations |
| Opcode table, `script/opcodes.py` | constants | lookups, `classify_script` | all of the above, the viewer | the sets the interpreter branches on |
| Signature checker, `vm/checker.py` | the kept midstates; transaction and input | encoding rules, `check_ecdsa_signature`, `check_schnorr_signature`, lock times | signature hashes, elliptic curves | the encoding rules apply per flag and version; a signature is valid exactly when what it names is unchanged; the midstates kept make no difference; units of lock times are not mixed |
| Flags and errors, `vm/flags.py`, `vm/errors.py` | constants | none | everywhere | none of their own |
| Trace model, `trace/model.py` | the recorded steps, runs and verdict | `StackDelta.between`, JSON | written by the evaluation, read by the viewer | deltas and snapshots tell one story |
| Taproot commitments, `vm/taproot.py` | none | control block, leaf hash, Merkle fold, tweak | the verification | a script is accepted only with a path to the output key; the control block of every leaf of a tree fits |
| Signature hashes, `tx/sighash.py` | none | legacy, v0 and Taproot hashes, midstates | the checker | every hash type signs what it names, and nothing else |
| Transactions, `tx/transaction.py`, `primitives/serialize.py` | a transaction | parse and serialize, ids | the signature hashes | what is read is read again from what is written, with and without witnesses |
| Cryptography, `crypto/` | none | ECDSA with DER parsing, Schnorr, key tweaks | the checker | strict DER with low S is one encoding per signature; curve arithmetic is outside what a model can check |
| Hashing, `primitives/hashing.py` | none | five hash functions, tagged hashes | opcodes, Taproot, addresses | outside what a model can check |
| Python API, `api.py` | none: one `Interpreter` per call | `verify_scripts`, `verify_transaction_input`, ... | the interpreter, the renderer | no state shared between calls |
| Addresses, `tx/address.py` | none | scriptPubKey to text | the viewer | pure conversion |
| HTML viewer, `viz/render.py`, `viz/templates/viewer.html` | run, position, play timer | buttons, keys, slider, timer | reads the JSON trace | the page shows the current position and nothing of another run; one play interval at most; playing ends |
| `src/scripts/visualize_tx.py`, `src/examples/demo.py` | none | fetch, verify, print | the API | none of their own |

The behaviours that are hard to test, at the lines where they bite, are the
"hazards" of `PROJECT.json`, with the properties that watch over each.

## 2 The modules

```
Opcodes   values and classes of opcodes             script/opcodes.py
 ScriptNum  numbers as byte sequences               primitives/scriptnum.py
  Checker     flags, errors, encoding rules         vm/checker.py, flags.py, errors.py
 Script     parsed scripts, pushes, deletion        script/script.py
  ScriptBytes  the same on bytes, two walks         script/script.py
   ScriptWalks   every script, byte by byte         (its properties)
  SigHash    the three messages, the midstates      tx/sighash.py
   SigChecker  owner, carrier and checker           vm/checker.py
    SigCheckerProofs
 Matching   jobs and matchings                      (specification)
  MultisigPromise   what a check promises           (specification)
  Multisig     the pairing loop, refines it         vm/interpreter.py _op_checkmultisig
   ScriptEval    the machine; runs the loop inside  vm/interpreter.py _eval_script ...
    ScriptEvalProperties  its properties
     ScriptEvalProofs (with those of Multisig), OperationProofs
    VerifyScript   verify, composed of evaluations  vm/interpreter.py verify ...
     VerifyProperties  its properties
      ScriptProofs (with ScriptEvalProofs, ScriptWalks), VerifyProofs
Locks      lock times and sequences (in ScriptEval) vm/checker.py
Serialize  integers, sizes, the reader              primitives/serialize.py
 Taproot     control blocks (in VerifyScript)       vm/taproot.py
 Transaction transactions as bytes                  tx/transaction.py
 Der         signatures as bytes                    crypto/ecdsa.py
  Wire         both, changed on their way
   WireProofs
Player     the viewer's player                      viz/templates/viewer.html
 PlayerProofs
RecursionProofs   lemmas about sequences and recursion that the proofs share
```

`MCMultisig`, `MCScriptEval`, `MCScriptBytes`, `MCVerifyScript`, `MCSigChecker`,
`MCWire` and `MCPlayer` hold the values the runs use. Every
definition that models code is mapped to its lines in `PROJECT.json` ("map").

**ScriptEval.** One state is the machine between two statements that change it.
The variables carry the code's names: `stack`, `altstack`, `execStack`,
`opCount`, `codesep` (`codeseparator_offset`, counted in operations, since the
script is parsed), `codesepPos` and `weight` (`execdata`), `steps`, `error` and
`finalStack` (the run); `pc` is `op_index`; `status` says whether
`_eval_script` was entered, is looping, returned or raised; `input` is its
arguments and the interpreter's flags. Each action is a whole pass of the loop
for one kind of operation, including the checks before the dispatch (`Processes`,
`Executes`), the recording of the step with its delta (`Finish`) and the stack
limit after it. `RejectOp` is every refusal before the dispatch, in the code's
order; `Underflow`, `BadOpcode` and `BadNumber` are the refusals that many
opcodes share. A multi-signature check is not one action but the entry
(`BeginMultisig`), the loop of `Multisig` turn by turn (`MultisigLoop`), and one
of three exits, because the loop's indexes, its early exit and its clean-up are
where such code goes wrong.

**VerifyScript** runs these evaluations one after the other: `Enter` starts one,
`Evaluate` is a step of it, and the other actions are the code between them, up to
the `End` that returns the trace. Its scripts are bytes, and it enters the machine
through `Parse`, the modelled parser. A caller may verify the same spend again
under other flags (`VerifyAgain`), which is what makes two verdicts comparable.

**ScriptBytes** has no state machine of its own: it defines the parser and the
two walks as recursive functions over offsets. `ScriptWalks` grows a script byte by
byte, so that what it says of the walks is said of every script.

**SigHash and SigChecker.** A message is the record of what the code hashes, so
two messages are equal exactly when the same things were signed, and a hash that
the code leaves as zeros or empty is `{}`. `SigChecker` puts three actors around
it: an owner who signs one input (`Sign`), whoever carries the transaction and may
change it or the hash type of the signature (`Amend`, `Retag`), and a caller who
builds a checker with the midstates and spent outputs it happens to have
(`NewChecker`) and lets it check any number of times (`CheckEcdsa`,
`CheckSchnorr`), each Schnorr check keeping midstates for the next. `Named` is
the abstract specification: the parts of a scene that a hash type names.

**Taproot and Locks** are the operators that `VerifyScript` and `ScriptEval` call:
the control block, the leaf hash, the Merkle fold over ordered branches, and the
comparisons of lock times and sequences.

**Serialize, Transaction, Der, Wire.** A reader maps bytes to the set of what it
reads: one value with the bytes left, or nothing when it raises, whatever the
class of the exception. `Wire` starts from bytes that an owner writes and lets a
carrier overwrite, insert, delete or cut.

**Player** has the position, the run listed on the page, what the page shows
(`page`) and the intervals that tick. The page is state of its own because
`render` does not draw it from scratch: the operations and chips of a run are drawn
again only when the position enters another run. `timer` is the variable of the
code and `live` the intervals of the browser: nothing makes them agree but the code.

**MultisigPromise** is the abstract specification: a check decides in one step,
by whether a matching exists. `Multisig!ImplementsPromise` states that the loop
implements it, with the verdict read off `loopPhase` and `success`.

## 3 What the runs check

| Run | Question | Bounds | Properties |
| --- | --- | --- | --- |
| MCMultisig | Is greedy pairing right? | all jobs of up to 2 signatures and 3 keys out of 6 and 3 kinds under 3 sets of flags; 3 signatures against 4 keys | `InBounds`, `Matched`, `NoneMissed`, `ImplementsPromise` |
| MCMachine | Is the machine right on conditionals, stacks, numbers, lock times and single signatures? | scripts of up to 6 conditional operations, 4 with failing ones inside; every stack operation in pairs on stacks of 0 to 7 different items; every arithmetic operation on the edges of one- and two-byte numbers; scripts of up to 3 signature operations (4 with conditionals), 8 signatures, 3 keys, 4 sets of flags; tapscript with budgets 0, 50, 60, 100; `MAX_STACK_SIZE` 8, number sizes 2 | `TypeOK`, `NestingFollowsScript`, `AcceptedBalanced`, `ExecutedInTakenBranches`, `OneStepPerOp`, `DeltasReplay`, `StacksBounded`, `RearrangingAgrees`, `ArithmeticExact`, `LockIsGate`, `ChecksigIsSigned`, `SeparatorIsLastExecuted`, `BudgetSpent`, `TapscriptSuccessIsSigned`, `SkippedIsInert` |
| MCLimits | Are the budgets charged, do multi-signature opcodes decide the matching, does every evaluation end? | scripts of up to 4 operations with all limits at 2 to 8; multi-signature checks of up to 2 of 2 with counts that fit or do not | `OpsCharged`, `MultisigIsMatching`, `NullFailLeavesNothing`, `DetailTellsOutcome`, `EvalEnds` |
| MCScriptBytes | Do the walks over script bytes agree? | every script of up to 6 bytes from 7 bytes that are opcodes, sizes and data at once | `ParseIsFaithful`, `BoundariesAgree`, `DeletionIsByOperation` |
| MCVerify | Is a verdict justified, and when do more flags accept more? | every output form, each with right and wrong scriptSigs and witnesses, under any two of 8 sets of flags | `StackHandOver`, `VerdictFollowsRuns`, `AcceptedIsAuthorised`, `TaprootIsItsTree`, `NotMalleable`, `OnlyFalseProgramsGain`, `VerifyEnds` |
| MCSigning | What does each hash type of each scheme sign, and do kept midstates matter? | three scenes of two inputs: one without an output beside the signed input, and one that spends no value; 8 hash types and none; every single change of a scene, and a change of outputs after one of inputs; callers with 4 kinds of midstates, with or without spent outputs; any number of checks | `SignsWhatItNames`, `CachedIsFresh` |
| MCWire | Is what is read what is written, and is strict DER unique? | bytes of 12 values, widths 1, 2 and 3; 8 transactions, written with and without witnesses, and 24 signatures across every width of a size and the sign bit; any two changed bytes | `TxRoundTrip`, `DerIsCanonical` |
| MCPlayer | Does the page follow the position, and does playing end? | every trace of up to 5 steps over 3 runs, empty runs included; 2 interval handles | `PlayerConsistent`, `PlayEnds` |
| MCSnapshot, MCTruncation | Does the trace keep its promises at the end of a script and at a truncated push? | scripts of up to 3 operations | `SnapshotIsState`, `TruncationAtItsStep`: violated, see [section 5](#5-where-code-and-documentation-disagree) |
| MCDeepPath | Does every verification return a trace? | scripts of every tree, and a path beyond the limit | `ReturnsTrace`: violated |
| MCNested | Does a flag never make an invalid spend valid? | 12 redeem scripts that are witness programs, 8 of them of false bytes | `FlagsOnlyRestrict`: violated |

**Why the bounds are enough.** The machine branches on an operation, on at most
six items of the stack, and on a few numbers. The alphabets hold one operation
of every kind that the code tells apart, and the lengths let a condition, its
two branches and their ends interact at two levels of nesting. A limit is tested
by whether it is one below, at or one above, so the limits are made small
instead of the scripts long; which of them are shrunk is in each cfg. The loop
of a multi-signature check has no behaviour at four keys that it lacks at three, and
the proofs cover the rest. Two sets of flags are enough for the properties
that compare two verdicts. The constants of lock times are scaled down to six bits
(`LockAssumption` keeps their order and that they do not overlap), so that every
operand and every sequence is tried against both units and the disable bit. In
`MCWire` a byte has twelve values, so that a size one below, at and above each
change of width, and a number with and without the sign bit, take a few bytes;
two edits are what it takes to change a size and keep the bytes it counts in
step. The toy hash and the toy tweak of `MCVerifyScript` are functions that tell apart
everything the instance hashes.

**Fairness.** `FairSpec` and `FairVerifySpec` assume weak fairness of the whole
next-state relation of an evaluation, or of a verification: the code is
sequential, has no wait in it, and a Python call that can take its next
statement takes it. Nothing is assumed of the caller: `VerifyAgain` is not fair.
`PlayerSpec` assumes weak fairness of the tick of each interval that was not
cleared, which is what `setInterval` promises, and nothing of the reader, who
may keep the player from its end for ever by moving back: `PlayEnds` is about
readers who leave the page alone at last.
The liveness properties are not empty: a pairing loop that is neither left nor
able to compare again would hang the evaluation, as would an error that
`verify` does not carry out of an evaluation, or an interval that is not cleared at
the last step; a mutant does each.

**Stopping.** The runs turn deadlock checking off because a finished evaluation,
a finished verification, a longest script and a last edit have no next step.
The player can always be moved, and its run checks for deadlock. That an
evaluation never stops anywhere else is `EvalEnds`, and of a verification
`VerifyEnds`.

**Flags.** That more flags only refuse more is not true of this code
(MCNested in [section 5](#5-where-code-and-documentation-disagree)), so there are two
properties. `FlagsOnlyRestrict` is the rule and fails. `OnlyFalseProgramsGain`, which holds,
says that there is one exception and no other: a P2SH output that reveals a witness program
of false bytes, EVAL_FALSE without WITNESS and accepted with it. The redeem scripts of
`MCVerify` hold such programs (zeros and negative zero, of four versions) as well as true
ones, and so do its native outputs, where the rule does hold. Both properties compare
coherent sets only: WITNESS comes with
P2SH and CLEANSTACK with both, the only combinations that Bitcoin uses, since
`verify` cleans up differently without them. The flags that discourage upgrades
may be in the larger set but not in the smaller: they reject what later rules
may allow.

**Mutants.** For every property of a passing run there is a definition, marked
"Mutant", that changes one mapped definition as a plausible bug would (a
comparison one too late, a branch forgotten, a counter not reset). With it in
place TLC finds the property violated under the run's own cfg.

## 4 What is proved

The proofs hold for every script, initial stack, signature version, set of
flags, value of the limits and behaviour of the external predicates.

*Module `ScriptEvalProofs`, the pairing loop.* `LoopTypes`, `LoopInBounds`,
`LoopMatched`, `LoopNoneMissed`: the loop is well typed, never compares beyond
its arguments, has always matched what it counted, and never skipped a key that
a complete matching needs. None of these is inductive alone; `LoopInv` is their
conjunction with the fact that a loop that raised met a pair it may refuse
(`RaisedRefusable`). `LoopImplementsPromise` is the refinement: initial states map to
initial states; a comparison is a stutter; leaving the loop or raising is
`Decide`. The argument for "false" is the interesting one: `NoneMissed` puts the
next signature of any matching beyond the keys already passed, and an ascending
assignment (`CountAbove`) then needs more keys than are left.

*Module `ScriptEvalProofs`, the types.* `TypeCorrect`: every evaluation
stays well typed. `TypeOK` is not inductive by itself: `EndMultisig` pops as many
items as the job has, and that they are still there is `MultisigArguments`. The
inductive invariant is `TypeInv == TypeOK /\ MultisigArguments`. The lemmas before
it say what the helpers return: that encoded numbers are byte sequences, that
decoded ones are integers, what each shuffle leaves.

*Module `ScriptEvalProofs`, the turns.* `StackLimit`: the two stacks together stay within the
limit in an evaluation that goes on. `SkippedMovesNothing`: in a branch not
taken no operation of any kind touches the stacks, the code separator or the
budget. `NestingIsTextual`: the depth of `exec_stack` is the nesting of the
script text, and `OnlyBalancedAccepted`: a script that returns has balanced
conditionals, every OP_ELSE inside one. `SkippedMovesNothing` needs no invariant: it goes
through the actions one by one. The other three rest on one lemma on the form of a
step (`StepForm`): a step either processes one operation, after which
`exec_stack` has changed only as that operation's kind allows and the stacks have
passed the limit, or it processes none and leaves all of these alone. On top of
it, nesting needs `NestingInv`, which counts the openers and closers of the text
up to `pc`, and `CountStep`, which says what one more operation adds to the count.

*Module `ScriptEvalProofs`, the trace.* `TraceFollowsScript`: the trace has one step for each
operation reached, in order and under its opcode, and only its last may fail, with
the error of the run. `SignsAfterLastSeparator`: as long as the evaluation goes on,
signatures sign the code after the last separator that was executed. Both rest
on a coarser form of a step than nesting does: a step records one operation
(`Recorded`), ends the evaluation with a step that is no operation's (`Ended`), or
records nothing (`Silent`); `StepRecords` shows this of every action. No types are
needed, only that a pairing loop runs within the turn of its opcode
(`LoopInTurn`), without which a turn might end twice. The separator property is
about evaluations that go on: a separator refused for the operation limit is in the
trace as executed but never ran.

Three more results of that module are about what the trace says of the stacks and
branches, and all of them are told turn by turn, not state by state.
`RunsInTakenBranches`: an operation is marked as executed exactly when every
conditional open in the script text was entered on the side it is on. The
invariant, `BranchInv`, gives every level of `exec_stack` its opener (the last
operation at which the depth rose to that level and has not fallen below since,
`Between`) and says that the entry is its outcome, turned once for each OP_ELSE of
that level. `DeltasTellTheStacks`: replaying all deltas on the initial stack gives
the stack (`Replays`, from `DeltaTells`: a delta is what the stack shares and what
it does not). `RearrangingIsByName`: what a stack
opcode pushed is a choice of what it took, by position (`ShuffleLaws`, `PickTells`,
and `Reached` for the depths OP_PICK and OP_ROLL compute). Where a property speaks of
*the* first operation with a property, the proofs take it with `LeastOf`, which is
the library's well-founded induction applied to the set of counterexamples.

*Module `OperationProofs`, signatures.* What a signature opcode did, as its step tells it.
`SigningInv` keeps, for every recorded step, how its outcome and its detail came about
(`SingleTells`, `MultiTells`); the theorems read it at the step they are about.
`ChecksigDecidesSignature`: a single check came out true exactly when its signature
verifies, under the version's rules, for the code after the last separator that was
executed. `BudgetIsSpentOnSignatures`: the tapscript budget falls by 50 for
each signature that is not empty (`BudgetInv` counts them up to `pc`), and
`TapscriptSuccessVerified`: in a tapscript a signature that is not empty either
verifies or ends the evaluation. `MultisigDecidesMatching`: OP_CHECKMULTISIG pushes true exactly
when an order-preserving matching exists, and `NullFailIsComplete`: under NULLFAIL a
failed check leaves no signature that is not empty. Both carry `LoopInv`
from the loop into the opcode (`MultiInv`): the machine's loop
variables satisfy it from `BeginMultisig` to its exit, and `EndMultisig` reads its
outcome. `DetailIsOutcome`: the signature detail of a step says what the opcode
decided. `OpsAreCharged`: `op_count` is the number of operations
above OP_16 done so far, executed or not, plus the keys that multi-signature checks
took (`OpsInv`, `Counted`, `KeysTaken`).

The proof of `ChecksigIsSigned` showed that the property itself was too weak as first
stated: it said nothing of OP_CHECKSIGADD, whose outcome is told by the number it
leaves. It now covers that opcode, in the run as in the theorem.

*Module `OperationProofs`, numbers.* `LocksAreGates`: a transaction that passed a lock in
a script cannot be in a block before the height or time the script named, nor spend an
output younger than the script asked. `ArithmeticIsExact`: every result of an
addition, subtraction, minimum, maximum, OP_LESSTHAN or OP_GREATERTHANOREQUAL is the exact one, also where it
no longer fits the operand limit, and is minimally encoded. Both speak of the number
that an item stands for (`Value`: digits to the base 256 under a sign bit, told without
`decode_num`). Numbers are short, so no induction is needed:
an operand has at most five bytes (the assumption on the limits), its digits are unfolded
one by one, and `ValueIs` shows that `decode_num` reads the value. `EncodeDecode`: a number of at most four bytes is
written and read back as itself, in the shortest way, in at most one byte more;
`DecodeBound`: four bytes hold less than half of what they would without the sign, so the sum of two operands is
such a number. `LockTells` and `BinaryTells` are the invariants: what each recorded step
checked or computed. `LockTimeGate` and `SequenceGate` read the locks from them, for
every height, time and age at which the output could be spent; `MaskedParts` is why a sequence's
unit and length survive the mask.

*Module `ScriptProofs`, bytes.* The parser and the two walks are recursive functions over the
offsets of a script, so before anything can be said of them it has to be shown that there are such
functions. `TurnsExist` builds a value turn by turn and `JumpsExist` one from the end backwards,
where each offset refers to a later one; `Backwards` is the induction that goes with it: what holds wherever
it holds of all that comes later holds everywhere. All three are sets of
numbers and their least member (`LeastOf`). `FlattenIs` and `FlattenFirst` unfold
the library's `FlattenSeq` in the same way. Then one lemma says what happens at an offset: the parser stops
there and `op_length` takes all that is left, or both take the same operation, which is the bytes
they step over (`TakesOrStops`); that a length is written as the bytes it was read
from is `FieldOfLength`. The three theorems walk along it. `ParsesFaithfully`
(`KeptFrom`): written out, the operations are the bytes. `WalksMeet` (`Agreed`): `op_length`
steps over exactly those operations. `DeletesByOperation` (`Deleted`): deleting a push from the
bytes is deleting operations, because at a boundary its bytes occur only as that operation
(`OccursIs`, where `LengthOfField` reads the length back). It holds for signatures of less than
2^24 bytes; none on a stack is longer than 520. The theorem is what entitles `ScriptEval` to delete
operations where the code deletes bytes.

*Module `ScriptProofs`, templates.* `verify` knows two scripts itself: the P2SH output
(HASH160, a push of 20 bytes, EQUAL) and the script that a version 0 key hash stands
for (DUP, HASH160, the push, EQUALVERIFY, CHECKSIG). That a spend of either
shows what it must is not written in `verify` at all; it follows from running them.
So the module shows that the parser reads their bytes as these operations, one turn of the
parser for each, and then what each turn of the evaluation does. `ScriptHashTurns` and `KeyHashTurns` are
the invariants of the two evaluations: the stack after each operation, as a term in what
the evaluation began with. `ScriptHashMeans` and `KeyHashMeans` read them at the end: true
is left only above an item that hashes to the output, or only if the key hashes to the
program and the signature verifies over that script.

*Module `VerifyProofs`.* Four theorems on one invariant, `SpendInv`.
`VerdictIsOfTheRuns`: the verdict is that of the runs it lists.
`AcceptedShowsWhatItSpends`: an accepted spend shows what its output commits to.
`SpendsAreNotMalleable`: nothing can be added to the scriptSig or the witness of an accepted
spend. `StacksAreHandedOver`: each script ran on the stack the last one left it. The parts
of the invariant, and why each is needed:

- `RunsInv` carries the outcome of the evaluation at hand (`Outcome`, kept by
  `StepOutcome` of `ScriptEvalProofs` through every step of the machine), the number of runs
  in each phase (`RunsByPhase`), that the last run agrees with the machine
  (`CurrentRun`) and that all earlier runs were fine (`PastRuns`). Each action enters
  an evaluation, is a step of one, or ends with a verdict, and there is one lemma
  for each of the three. Under `ZeroKeyUnusable` it gives `VerdictIsOfTheRuns`. An
  unconditional acceptance needs a program that is not of version 0, which is why
  `CLEANSTACK` has nothing to say about it.
- `TypedInv` types what `verify` keeps, and every evaluation but a tapscript's: its
  budget is the size of a witness, the sum over a sequence, and that such a sum is a
  number is induction over data. What is proved does not depend on it.
- `WayInv` says how far the verification has come: which template is being run on what
  (`ScriptHashTurns` on the output, `KeyHashTurns` on a key hash), that past a P2SH
  output the item on top of `stackCopy` hashes to it (`OutputRevealed`), and whether the
  spend answers a program, and which (`OnProgram`, `OffProgram`). The two remember what
  the early returns of `verify` checked on the way to where it is: that a program is
  answered with the one scriptSig it allows.
- `HandedInv` says what each run began with. The redeem script is taken from a
  copy of the stack, so it also says that the copy is what the first run left.

`VerifyForms` sorts the actions of `verify` by what they do to the spend (stop it,
conclude it, end a key path, continue an evaluation, begin a script, look into a
program), and each part of the invariant is proved form by form. `FormsApart`: no output
is both P2SH and a witness program, so a spend answers one program at most.
`AcceptedAnswers` and `HandedMeans` read the theorems from the invariant. None of them assumes that hashes do not collide: what is shown of a script is its hash,
and of a taproot leaf that the control block beside it folds to the output.

*Module `SigCheckerProofs`.* `CacheIsInvisible`: whatever midstates a caller gave and
whatever was checked before, every answer is that of a checker that has computed
nothing yet. `CachedIsFresh` is not inductive: `SigInv` adds that the midstates of a checker
are none, empty, or those of its own transaction (`CheckerInv`) and that nothing is
amended once it was built (`OrderInv`).

`ValidIsUnchanged` proves `SignsWhatItNames`: for every transaction, every change on its
way, every hash type and order of checks, a signature is valid exactly when what its scheme
and hash type name is as it was signed. `SignedInv` carries whose message a signature holds and
under which type; `AnswerInv` does away with the midstates. The rest are lemmas about the
three messages: `LegacyAlike`, `V0Alike` and `TapAlike` say for any two scenes when their
messages are one, part by part (a legacy message tells its own input by the only script
that is not empty), and `SchemesDiffer` that no message is one of another scheme.
The proof corrected the property in three places which the run's scenes did not reach: a
caller who does not know the spent outputs has the amount 0, which is right for an output
of no value (the third scene); a version 0 signature tells its input by what it spends and
not by its index; and a script code of separators only would name no input at all
(`ScenesAssumption` excludes it, as every script that checks a signature does).

*Module `WireProofs`, transactions.* `TransactionsReturn`: what `parse` makes of any bytes,
`serialize` writes as bytes that are read as the same transaction, in no more bytes than
were read, and if in as many then in the same, but for the flag. The invariant is small
(`BytesOnTheirWay`: whatever was written over them, they are bytes); the work is in the
readers. Each of them, from one byte to a list of inputs, is shown to be a reader
(`IsReader`) of some values written by some writer: what it takes of any bytes
is at least as long as what is written for it, and the same if as long (`Kept`), and what
is written for a value is read back as that value, whatever follows. Integers are readers
because digits are unique (`BytesOfNumber`, `NumberOfBytes`), compact sizes because the
markers tell the widths apart, and a size written wide is only ever longer
(`SizeKept`). Readers one after the other are a reader again (`ChainKept`,
`ChainReadsBack`), which makes fields, then inputs and outputs, then lists and
witnesses, then the six parts of a transaction into readers; the marker is where it
matters that there are inputs, since their count is then not 0 (`NoMarkerAgain`). The proofs
need no bound on widths or sizes.

*Module `WireProofs`, signatures.* `SignaturesAreCanonical`: strict DER passes exactly what the
two numbers the lenient parser reads are written as, and of s and its negative
`is_low_s` passes one. The bytes of a number without a leading zero are its only such bytes
(`MagnitudeIs`, `MagnitudeOnly`, `TakesOne`), so what `MinimalInteger` passes is `Content` of
its number (`ContentIs`, `ContentOnly`); and two sequences with the same two numbers at
the places of a signature are the same sequence (`IsLayout`, `SameLayout`). That one of s
and its negative is low needs that the order of the curve is odd (`DerAssumption`), as
it is.

*Module `PlayerProofs`.* `PageIsConsistent`: for every trace, reader and order of
ticks the page is that of the position and `live` holds at most the interval
that `timer` names.

Assumptions: the constants' assumptions stated in the modules (`EvalInputsAssumption`,
`LimitsAssumption`, `DerAssumption`, `PlayerAssumption`, ...), which TLC evaluates in the runs; and,
as hypotheses of the theorems that need them, `DigestsAreItems` (hash opcodes push
byte sequences) and `ZeroKeyUnusable` (no signature verifies under a key of
zeros, which is no point of the curve; the run of a key path leaves its key).

Model-checked only, and why:

- `EvalEnds`, `VerifyEnds`, `PlayEnds`: liveness is beyond this prover.
- `TaprootIsItsTree`: that a script which a control block commits an output to is a leaf of
  the tree the output was made of, and that the owner's own control blocks fit, needs
  hashes without collisions, which hold of the toy hash only, and recursion over trees.
  `AcceptedIsAuthorised`, which is proved, stops at the commitment itself.
- `OnlyFalseProgramsGain` relates two verifications of one spend; a proof would need
  both of them side by side in one state.

## 5 Where code and documentation disagree

Each is a run that TLC finds violated.

- **MCSnapshot.** `trace/model.py:4-5` promises that every step "carries a full
  immutable snapshot of machine state *after* the step". When a script ends inside a
  conditional, `_record_terminal` (`vm/interpreter.py:485`) appends a step with the
  defaults of `ExecutionStep`. In TLC's trace the machine holds three items and one open
  branch, and its last step shows neither.
- **MCTruncation.** `script/script.py:4-5` promises BAD_OPCODE "at the right
  step" for a truncated push. `_eval_script` (`vm/interpreter.py:412`) parses
  everything first, so it is reported at step 0 and nothing before it is run.
- **MCDeepPath.** `vm/interpreter.py:153` says verify returns a trace. For a
  control block whose path is longer than the depth limit
  `parse_control_block` (`vm/taproot.py:45`) raises `ValueError`, which verify
  does not catch; the caller gets the exception and no trace.
- **MCNested.** `vm/interpreter.py:3-4` says that the evaluation loop mirrors Bitcoin Core's
  `EvalScript` / `VerifyScript` closely. There a redeem script is run, and has to leave
  true, before a witness program is looked for in it. Here (`vm/interpreter.py:184-190`)
  the redeem script is not run when WITNESS is set and it is a program. For a
  program of false bytes and a version or size not used yet, such as `51 02 00 00`, the
  verdict is EVAL_FALSE under {P2SH} and OK under {P2SH, WITNESS}.

What Core does is no part of the repository: MCNested checks what that sentence
claims. Two more divergences are modelled, but no run is about them:

- The promise that MCDeepPath breaks is broken at `tx/sighash.py:188` as well. It reads the
  output of the input's index for SIGHASH_SINGLE whether or not there is one, and the
  `IndexError` leaves the check, the evaluation (`EvalEscaped`) or the key path
  (`EscapeKeyPath`), and verify.
- In Core, as in BIP341, the rules of Taproot are for native outputs, and a program
  behind P2SH is left alone. Here `_verify_witness_program` (`vm/interpreter.py:248`) is not
  told where the program came from and verifies it as Taproot. The model does what the code does.

## 6 What is abstracted or left out

- *Signatures.* `VerifyEcdsa`, `VerifySchnorr` and `VerifyKeyPath` are constants:
  which signature verifies under which key for which code is chosen by the
  instance, deterministically. `ValidDer` and `LowS` are too. The encoding rules
  around them are modelled. `VerifyKeyPath` also stands for what the signature
  hash takes from the annex, which is part of the fixed witness.
- *Hashes.* `Digest`, `TaggedHash` and the tweak of a key (`taproot_tweak_pubkey`)
  are constants. In the runs a checksum stands for the hash; `DigestsDiffer` makes
  sure it tells apart what the spends contain. What is hashed is modelled: leaves, branches
  and tweaks in `Taproot`, messages in `SigHash` as records instead of bytes.
- *What an evaluation knows of its transaction* is `TxView`: version, lock time,
  sequence and whether there is an output of the input's index. The last decides whether
  the Taproot hash raises IndexError for SIGHASH_SINGLE (`tx/sighash.py:188`); that exception
  leaves an evaluation and `verify` as it does in the code. The outputs being
  spent are known to `VerifyScript`'s checker; `SigChecker` also has callers who do not
  know them.
- *Signing.* Nobody forges: a signature is valid when its message is the one its
  owner signed.
- *Wire formats.* Exceptions of all classes are one outcome: nothing was read.
  `TxRoundTrip` is stated for transactions with inputs, since the count of no inputs is the
  marker of a witness.
- *Initial state.* `Begin` is the locals of `_eval_script` before its first
  statement; a separate entry state lets the size check and the parse fail first,
  as they do.
- *The viewer's text.* Notes, descriptions, disassembly and JSON are left out. The
  trace's structure is not: steps, deltas, signature details, runs, verdict.
- *Not modelled*: hash functions and curve arithmetic (outside what a model can
  check), addresses, disassembly, opcode names and descriptions (pure text for the
  viewer), the drawing code and JSON, the fluent builder, and the command-line script
  and example, which are sequential calls without state.

What the model showed about the code that no text of the repository contradicts, and
that is therefore no finding: an `Interpreter` that verifies twice keeps the runs
of the first time, though every caller builds a new one; `parse` accepts sizes
longer than needed and any flag byte after the marker, ignores bytes after the
transaction, and raises IndexError on four bytes; without spent outputs a Taproot message
that does not sign them alone commits to empty midstates, and no owner signs that.

## 7 Plan

| Step | Modules | State |
| --- | --- | --- |
| 1 | `Multisig` against `MultisigPromise`, checked and proved | done |
| 2 | `ScriptEval` with its properties and runs; type correctness and all safety properties proved | done |
| 3 | `ScriptBytes` and `VerifyScript` with their properties and runs; the walks, the verdict, what an accepted spend shows, malleability and the hand-over of stacks proved | done |
| 4 | `Taproot`: the Merkle fold, leaf versions, trees and their control blocks | done |
| 5 | `SigHash`: what each hash type signs, for the three versions | done |
| 6 | `SigChecker`: midstates over several checks, proved invisible; what a valid signature names, proved; `Locks` | done |
| 7 | `Serialize` and `Transaction`: the round trip under changed bytes, proved | done |
| 8 | `Player`: the page under every interleaving, proved; that playing ends | done |
| 9 | `Der`: the strict and the lenient reading, proved to agree | done |

Left, in order of use to a reader: a proof of `OnlyFalseProgramsGain`, by running the
machine beside itself under fewer flags; a checker shared by several inputs, should the code ever share one.
