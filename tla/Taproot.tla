--------------------------------- MODULE Taproot ---------------------------------
(***************************************************************************)
(* vm/taproot.py: what a control block says, and whether it proves that a  *)
(* script is committed to by an output key.  The key is an internal key    *)
(* tweaked by the root of a tree of scripts; the control block holds the   *)
(* internal key and the hashes beside the way from the script to the root. *)
(***************************************************************************)
EXTENDS Serialize

CONSTANTS
  TaggedHash(_, _),            \* tag, message; 32 bytes
  taproot_tweak_pubkey(_, _)   \* key, tweak: {}, or {[key |-> .., parity |-> ..]}

\* The fields of a control block of an allowed size.
parse_control_block(control) ==
  [leaf_version |-> control[1] - (control[1] % 2),
   parity |-> control[1] % 2,
   internal_key |-> SubSeq(control, 2, 33),
   merkle_path |-> [i \in 1..((Len(control) - 33) \div 32) |->
                      SubSeq(control, 2 + 32 * i, 33 + 32 * i)]]

tapleaf_hash(leaf_version, script) ==
  TaggedHash("TapLeaf", <<leaf_version>> \o VarBytes(script))

\* a <= b, for byte strings of one length.
LexLeq[a, b \in ByteString] ==
  \/ a = << >>
  \/ a[1] < b[1]
  \/ a[1] = b[1] /\ LexLeq[Tail(a), Tail(b)]

\* A branch does not say which of its sides is the left one.
TapBranch(a, b) == TaggedHash("TapBranch", IF LexLeq[a, b] THEN a \o b ELSE b \o a)

\* Mutant: the path is folded from the root.
compute_merkle_root_Downward(leaf, path) == FoldRight(TapBranch, path, leaf)

compute_merkle_root(leaf, path) == FoldLeft(TapBranch, leaf, path)

\* The keys that the internal key and the root of a tree give: none, when the
\* internal key is not a point of the curve.
TweakedBy(internal_key, root) ==
  taproot_tweak_pubkey(internal_key, TaggedHash("TapTweak", internal_key \o root))

verify_taproot_commitment(control, program, script) ==
  LET cb == parse_control_block(control)
      root == compute_merkle_root(tapleaf_hash(cb.leaf_version, script), cb.merkle_path)
  IN  TweakedBy(cb.internal_key, root) = {[key |-> program, parity |-> cb.parity]}
==============================================================================
