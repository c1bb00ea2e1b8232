--------------------------------- MODULE Locks ---------------------------------
(***************************************************************************)
(* check_locktime and check_sequence of TransactionSignatureChecker: what  *)
(* a script demands of the lock time of the transaction that spends it and *)
(* of the age of the output that is spent.                                 *)
(***************************************************************************)
EXTENDS Integers

CONSTANTS
  LOCKTIME_THRESHOLD,        \* lock times below it are heights
  SEQUENCE_FINAL,
  SEQUENCE_LOCKTIME_DISABLE_FLAG, SEQUENCE_LOCKTIME_TYPE_FLAG,
  SEQUENCE_LOCKTIME_MASK     \* the bits of a sequence that hold a length

\* The three parts of a sequence do not overlap.
ASSUME LockAssumption ==
  /\ {LOCKTIME_THRESHOLD, SEQUENCE_FINAL, SEQUENCE_LOCKTIME_MASK} \subseteq Nat
  /\ SEQUENCE_LOCKTIME_TYPE_FLAG \in Nat /\ SEQUENCE_LOCKTIME_DISABLE_FLAG \in Nat
  /\ SEQUENCE_LOCKTIME_MASK < SEQUENCE_LOCKTIME_TYPE_FLAG
  /\ SEQUENCE_LOCKTIME_TYPE_FLAG < SEQUENCE_LOCKTIME_DISABLE_FLAG

\* What a checker's transaction and input index tell an evaluation: the fields
\* that lock times are compared with, and whether there is an output of the
\* input's index.
TxView == [version : Nat, locktime : Nat, sequence : Nat, hasOutput : BOOLEAN]

\* A height is compared with a height and a time with a time, and a final input
\* turns the lock time of its transaction off.
check_locktime(tx, locktime) ==
  /\ tx.locktime < LOCKTIME_THRESHOLD <=> locktime < LOCKTIME_THRESHOLD
  /\ locktime <= tx.locktime
  /\ tx.sequence # SEQUENCE_FINAL

HasFlag(n, flag) == (n \div flag) % 2 = 1

\* A sequence without the bits that say nothing about a lock.
Masked(n) ==
  (n % (SEQUENCE_LOCKTIME_MASK + 1))
    + (IF HasFlag(n, SEQUENCE_LOCKTIME_TYPE_FLAG) THEN SEQUENCE_LOCKTIME_TYPE_FLAG ELSE 0)

\* Mutant: blocks and seconds are compared with one another.
check_sequence_AnyUnit(tx, sequence) ==
  /\ tx.version >= 2
  /\ ~HasFlag(tx.sequence, SEQUENCE_LOCKTIME_DISABLE_FLAG)
  /\ Masked(sequence) <= Masked(tx.sequence)

check_sequence(tx, sequence) ==
  /\ tx.version >= 2
  /\ ~HasFlag(tx.sequence, SEQUENCE_LOCKTIME_DISABLE_FLAG)
  /\ Masked(tx.sequence) < SEQUENCE_LOCKTIME_TYPE_FLAG
       <=> Masked(sequence) < SEQUENCE_LOCKTIME_TYPE_FLAG
  /\ Masked(sequence) <= Masked(tx.sequence)
==============================================================================
