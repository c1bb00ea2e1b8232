-------------------------------- MODULE Serialize --------------------------------
(***************************************************************************)
(* primitives/serialize.py: little-endian integers, compact sizes and the  *)
(* forward reader (Cursor) of Bitcoin's wire format.  The number of values *)
(* of a byte and the widths of the integers are constants, so that every   *)
(* boundary between widths is within reach of small instances.             *)
(***************************************************************************)
EXTENDS Integers, SequencesExt

CONSTANTS
  RADIX,                 \* the values of a byte: 256
  SHORT, INT, LONG       \* the widths 2, 4 and 8

\* Three values of a byte announce the three widths (0xFD, 0xFE and 0xFF).
ASSUME SerializeAssumption ==
  /\ {RADIX, SHORT, INT, LONG} \subseteq Nat
  /\ RADIX > 3 /\ 0 < SHORT /\ SHORT < INT /\ INT < LONG

ByteString == Seq(0..(RADIX - 1))
Marker == RADIX - 3

\* RADIX^n
Power[n \in Nat] == IF n = 0 THEN 1 ELSE RADIX * Power[n - 1]

\* n.to_bytes(width, "little") and its inverse.
to_bytes(n, width) == [k \in 1..width |-> (n \div Power[k - 1]) % RADIX]
from_bytes(b) ==
  LET n[k \in 1..(Len(b) + 1)] == IF k > Len(b) THEN 0 ELSE b[k] + RADIX * n[k + 1]
  IN  n[1]

\* Mutant: the first value that needs a width of its own is written without.
encode_compact_size_Inclusive(n) ==
  IF n <= Marker THEN <<n>>
  ELSE IF n < Power[SHORT] THEN <<Marker>> \o to_bytes(n, SHORT)
  ELSE <<Marker + 1>> \o to_bytes(n, INT)

encode_compact_size(n) ==
  IF n < Marker THEN <<n>>
  ELSE IF n < Power[SHORT] THEN <<Marker>> \o to_bytes(n, SHORT)
  ELSE IF n < Power[INT] THEN <<Marker + 1>> \o to_bytes(n, INT)
  ELSE <<Marker + 2>> \o to_bytes(n, LONG)

\* A byte vector after its size.
VarBytes(b) == encode_compact_size(Len(b)) \o b
------------------------------------------------------------------------------
(* A reader maps bytes to what it reads first of them and what it leaves:   *)
(* {} when it raises instead.                                               *)

Read(b, n) ==
  IF n > Len(b) THEN {}
  ELSE {[value |-> SubSeq(b, 1, n), rest |-> SubSeq(b, n + 1, Len(b))]}

ReadInt(b, n) == {[c EXCEPT !.value = from_bytes(@)] : c \in Read(b, n)}

\* Any width is accepted for any size: nothing asks for the shortest.
ReadCompactSize(b) ==
  UNION {IF c.value < Marker THEN {c}
         ELSE ReadInt(c.rest, CASE c.value = Marker -> SHORT
                                [] c.value = Marker + 1 -> INT
                                [] OTHER -> LONG) : c \in ReadInt(b, 1)}

ReadVarBytes(b) == UNION {Read(c.rest, c.value) : c \in ReadCompactSize(b)}
==============================================================================
