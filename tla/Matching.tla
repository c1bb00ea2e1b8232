------------------------------- MODULE Matching -------------------------------
(***************************************************************************)
(* What OP_CHECKMULTISIG takes from the stack, and which of the signatures *)
(* may be assigned to which of the keys.                                   *)
(***************************************************************************)
EXTENDS Script, Checker

Job ==
  {j \in [sigs : Seq(Item), keys : Seq(Item), script_code : Seq(ScriptOp),
          sig_version : {"BASE", "WITNESS_V0"}, flags : SUBSET VerificationFlag] :
     Len(j.sigs) <= Len(j.keys)}

Accepts(j, s, k) ==
  EcdsaValid(j.sigs[s], j.keys[k], j.script_code, j.sig_version)

Refuses(j, s, k) ==
  EncodingError(j.sigs[s], j.keys[k], j.flags, j.sig_version) # "OK"

\* f assigns each of the first s signatures a key of its own, in order.
IsMatching(f, j, s) ==
  /\ f \in [1..s -> 1..Len(j.keys)]
  /\ \A a, b \in 1..s : a < b => f[a] < f[b]
  /\ \A a \in 1..s : Accepts(j, a, f[a])

HasMatching(j) ==
  \E f \in [1..Len(j.sigs) -> 1..Len(j.keys)] : IsMatching(f, j, Len(j.sigs))

Refusable(j) ==
  \E s \in 1..Len(j.sigs), k \in 1..Len(j.keys) : Refuses(j, s, k)
==============================================================================
