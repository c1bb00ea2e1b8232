---------------------------- MODULE MultisigPromise ----------------------------
(***************************************************************************)
(* What OP_CHECKMULTISIG promises of m signatures and n keys, whatever the *)
(* order in which it compares them: the verdict is true exactly when the   *)
(* signatures can be assigned to keys, in order and no key twice, such     *)
(* that each verifies under its key.  The check may instead refuse a job,  *)
(* but only one holding a signature and a key whose encoding the flags     *)
(* forbid.                                                                 *)
(***************************************************************************)
EXTENDS Matching

VARIABLES job, verdict

promiseVars == <<job, verdict>>

Verdict == {"open", "true", "false", "refused"}
------------------------------------------------------------------------------
PromiseInit ==
  /\ job \in Job
  /\ verdict = "open"

Decide ==
  /\ verdict = "open"
  /\ UNCHANGED job
  /\ \/ verdict' = "true" /\ HasMatching(job)
     \/ verdict' = "false" /\ ~HasMatching(job)
     \/ verdict' = "refused" /\ Refusable(job)

PromiseSpec == PromiseInit /\ [][Decide]_promiseVars
==============================================================================
