------------------------------ MODULE ScriptWalks ------------------------------
(***************************************************************************)
(* Every script of up to MaxLen bytes, reached one byte at a time, and     *)
(* what the two walks over its bytes make of it.                           *)
(***************************************************************************)
EXTENDS ScriptBytes

CONSTANTS Bytes, Signatures, MaxLen

\* A signature is an item of the stack, which has at most 520 bytes.
ASSUME WalksAssumption ==
  /\ Bytes \subseteq Byte
  /\ \A sig \in Signatures : sig \in Item /\ Len(sig) < TWO24

VARIABLE bytes

NoBytes == bytes = << >>
AppendByte ==
  /\ Len(bytes) < MaxLen
  /\ \E byte \in Bytes : bytes' = Append(bytes, byte)
WalksSpec == NoBytes /\ [][AppendByte]_bytes
------------------------------------------------------------------------------
\* Parsing loses and invents nothing.
ParseIsFaithful == ParseKeepsBytes(bytes)

\* The parser and op_length agree on where operations begin.
BoundariesAgree == WalksAgree(bytes)

\* find_and_delete removes whole operations, which is what the evaluation model
\* does with its parsed scripts.
DeletionIsByOperation == \A sig \in Signatures : DeletesWholeOps(bytes, sig)
==============================================================================
