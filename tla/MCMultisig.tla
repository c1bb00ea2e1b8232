------------------------------ MODULE MCMultisig ------------------------------
(***************************************************************************)
(* The pairing loop on every job of up to three signatures and four keys   *)
(* from small pools.  The pools hold a signature of each key, one valid    *)
(* under both, one valid under none, the empty signature, a signature that *)
(* is not DER, and a key of no known type.                                 *)
(***************************************************************************)
EXTENDS Multisig

Key(n) == <<2>> \o [i \in 1..32 |-> n]
OddKey == <<9, 1>>

\* Second byte: the hash type.  First byte: the keys it is valid under.
SigOf(n) == <<n, 1>>
Either == <<3, 1>>
Neither == <<4, 1>>
NotDer == <<5, 1>>

MCVerifyEcdsa(sig, pubkey, code, sig_version) ==
  \/ sig[1] = pubkey[2]
  \/ sig = Either
MCVerifySchnorr(sig, pubkey, pos) == FALSE
MCValidDer(sig) == sig # NotDer
MCLowS(sig) == TRUE

MCSigs == {<< >>, SigOf(1), SigOf(2), Either, Neither, NotDer}
MCKeys == {Key(1), Key(2), OddKey}
MCFlags == {{}, {"DERSIG"}, {"STRICTENC"}}

MCJobs ==
  {j \in [sigs : SeqOf(MCSigs, 2), keys : SeqOf(MCKeys, 3),
          script_code : {<< >>}, sig_version : {"BASE"}, flags : MCFlags]
       \cup
         [sigs : [1..3 -> {SigOf(1), Either, SigOf(2)}],
          keys : [1..4 -> {Key(1), Key(2)}],
          script_code : {<< >>}, sig_version : {"WITNESS_V0"}, flags : {{}}] :
     Len(j.sigs) <= Len(j.keys)}

MCInit ==
  /\ job \in MCJobs
  /\ MultisigInit
MCSpec == MCInit /\ [][LoopStep]_multisigVars
==============================================================================
