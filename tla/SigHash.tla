--------------------------------- MODULE SigHash ---------------------------------
(***************************************************************************)
(* tx/sighash.py: the three messages that signatures sign, and the hashes  *)
(* of a transaction that its inputs share.  A message is the record of     *)
(* what is hashed, and a hash of some fields is those fields.  A hash that *)
(* may be missing is a set: {} for none, 32 zeros or no bytes at all.      *)
(* Inputs and outputs count from 1.                                        *)
(***************************************************************************)
EXTENDS Script

SIGHASH_ALL == 1
SIGHASH_NONE == 2
SIGHASH_SINGLE == 3
SIGHASH_ANYONECANPAY == 128

\* A hash type is a byte.
AnyoneCanPay(hashtype) == hashtype >= SIGHASH_ANYONECANPAY

\* A hash type that signs every output, as any base but two others does.
Whole(base) == base \notin {SIGHASH_NONE, SIGHASH_SINGLE}

Output(tx, i) == {tx.vout[k] : k \in {i} \cap DOMAIN tx.vout}
------------------------------------------------------------------------------
(* legacy_sighash.                                                         *)

\* What a legacy signature signs when SIGHASH_SINGLE finds no output: the number 1.
ONE == [one |-> 1]
BlankedOutput == [value |-> -1, script |-> << >>]

\* Mutant: the sequences of other inputs are signed whatever the hash type.
SignedSequence_All(tx, i, k, base) == tx.vin[k].sequence

SignedSequence(tx, i, k, base) ==
  IF k = i \/ Whole(base) THEN tx.vin[k].sequence ELSE 0

legacy_sighash(tx, i, script_code, hashtype) ==
  LET base == hashtype % 32
      code == find_and_delete(script_code, {[opcode |-> OP_CODESEPARATOR, data |-> << >>]})
      Signed(k) == [prevout |-> tx.vin[k].prevout,
                    script |-> IF k = i THEN code ELSE << >>,
                    sequence |-> SignedSequence(tx, i, k, base)]
  IN  IF base = SIGHASH_SINGLE /\ Output(tx, i) = {} THEN ONE
      ELSE [version |-> tx.version,
            inputs |-> IF AnyoneCanPay(hashtype) THEN <<Signed(i)>>
                       ELSE [k \in DOMAIN tx.vin |-> Signed(k)],
            outputs |-> CASE base = SIGHASH_NONE -> << >>
                          [] base = SIGHASH_SINGLE ->
                               Append([k \in 1..(i - 1) |-> BlankedOutput], tx.vout[i])
                          [] OTHER -> tx.vout,
            locktime |-> tx.locktime,
            hashtype |-> hashtype]
------------------------------------------------------------------------------
(* PrecomputedTransactionData.                                             *)

NoMidstates ==
  [ready |-> FALSE, hash_prevouts |-> {}, hash_sequence |-> {}, hash_outputs |-> {},
   sha_prevouts |-> {}, sha_amounts |-> {}, sha_scriptpubkeys |-> {},
   sha_sequences |-> {}, sha_outputs |-> {}]

\* spent is {} when the spent outputs are not given, and holds them otherwise.
compute(tx, spent) ==
  LET prevouts == [k \in DOMAIN tx.vin |-> tx.vin[k].prevout]
      sequences == [k \in DOMAIN tx.vin |-> tx.vin[k].sequence]
  IN  [ready |-> TRUE,
       hash_prevouts |-> {prevouts}, hash_sequence |-> {sequences},
       hash_outputs |-> {tx.vout},
       sha_prevouts |-> {prevouts : s \in spent},
       sha_amounts |-> {[k \in DOMAIN s |-> s[k].value] : s \in spent},
       sha_scriptpubkeys |-> {[k \in DOMAIN s |-> s[k].script] : s \in spent},
       sha_sequences |-> {sequences : s \in spent},
       sha_outputs |-> {tx.vout : s \in spent}]
------------------------------------------------------------------------------
(* bip143_sighash and taproot_sighash.                                     *)

\* The midstates given, or else new ones that are not kept.
Bip143Midstates(tx, precomputed) ==
  IF \E p \in precomputed : p.ready THEN CHOOSE p \in precomputed : TRUE
  ELSE compute(tx, {})

bip143_sighash(tx, i, script_code, amount, hashtype, precomputed) ==
  LET base == hashtype % 32
      acp == AnyoneCanPay(hashtype)
      p == Bip143Midstates(tx, precomputed)
  IN  [version |-> tx.version,
       hash_prevouts |-> IF acp THEN {} ELSE p.hash_prevouts,
       hash_sequence |-> IF acp \/ ~Whole(base) THEN {} ELSE p.hash_sequence,
       prevout |-> tx.vin[i].prevout,
       script_code |-> script_code,
       amount |-> amount,
       sequence |-> tx.vin[i].sequence,
       hash_outputs |-> IF Whole(base) THEN p.hash_outputs
                        ELSE IF base = SIGHASH_SINGLE THEN {<<o>> : o \in Output(tx, i)}
                        ELSE {},
       locktime |-> tx.locktime,
       hashtype |-> hashtype]

\* exec holds the annex ({} for none), the hash of the tapleaf and the position
\* of the last separator.  {} when it raises: IndexError without an output to
\* sign, TypeError without the spent output to sign.
taproot_sighash(tx, i, spent, hash_type, p, ext_flag, exec) ==
  LET base == hash_type % 4
      acp == AnyoneCanPay(hash_type)
      message ==
        [hash_type |-> hash_type, version |-> tx.version, locktime |-> tx.locktime,
         all_inputs |-> IF acp THEN << >>
                        ELSE <<p.sha_prevouts, p.sha_amounts, p.sha_scriptpubkeys,
                               p.sha_sequences, i>>,
         all_outputs |-> IF Whole(base) THEN p.sha_outputs ELSE {},
         ext_flag |-> ext_flag, annex |-> exec.annex,
         own_input |-> IF acp THEN {<<tx.vin[i], s[i]>> : s \in spent} ELSE {},
         own_output |-> IF base = SIGHASH_SINGLE THEN Output(tx, i) ELSE {},
         tapscript |-> IF ext_flag = 1 THEN <<exec.leaf, exec.codesep>> ELSE << >>]
  IN  {m \in {message} : /\ base = SIGHASH_SINGLE => Output(tx, i) # {}
                         /\ acp => spent # {}}
==============================================================================
