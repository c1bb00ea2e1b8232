------------------------------ MODULE ScriptNum ------------------------------
(***************************************************************************)
(* primitives/scriptnum.py: script numbers are little-endian,              *)
(* sign-magnitude byte sequences of no fixed width.  An operand is at most *)
(* max_size bytes; a result may be one byte longer than its operands, and  *)
(* only fails when it is decoded again.  The definitions cover encodings   *)
(* of up to five bytes, the longest the interpreter ever decodes, and the  *)
(* units of the high bytes are products, never evaluated for shorter ones, *)
(* so that TLC's 32-bit integers are enough for every value it meets.      *)
(***************************************************************************)
EXTENDS Integers, Sequences

Byte == 0..255
Item == Seq(Byte)

TWO24 == 16777216

Magnitude(v) == IF v < 0 THEN -v ELSE v

NumBytes(a) ==
  IF a < 256 THEN 1
  ELSE IF a < 65536 THEN 2
  ELSE IF a < TWO24 THEN 3
  ELSE IF a \div TWO24 < 256 THEN 4 ELSE 5

ByteAt(a, i) ==
  (CASE i = 1 -> a
     [] i = 2 -> a \div 256
     [] i = 3 -> a \div 65536
     [] i = 4 -> a \div TWO24
     [] i = 5 -> (a \div TWO24) \div 256) % 256

\* Mutant: a last byte of 0x80 is taken to have room for the sign.
encode_num_NoRoom(v) ==
  LET a == Magnitude(v)
      n == NumBytes(a)
      sign == IF v < 0 THEN 128 ELSE 0
      spare == ByteAt(a, n) <= 128
      bytes == [i \in 1..n |-> ByteAt(a, i) + IF i = n /\ spare THEN sign ELSE 0]
  IN  IF v = 0 THEN << >>
      ELSE IF spare THEN bytes ELSE Append(bytes, sign)

\* The sign goes into the top bit of the last byte, or into a byte of its own
\* when that bit is already part of the magnitude.
encode_num(v) ==
  LET a == Magnitude(v)
      n == NumBytes(a)
      sign == IF v < 0 THEN 128 ELSE 0
      spare == ByteAt(a, n) < 128
      bytes == [i \in 1..n |-> ByteAt(a, i) + IF i = n /\ spare THEN sign ELSE 0]
  IN  IF v = 0 THEN << >>
      ELSE IF spare THEN bytes ELSE Append(bytes, sign)

\* The last byte carries the sign, so it may be 0x00 or 0x80 only when the byte
\* below it already uses its top bit.
MinimallyEncoded(data) ==
  LET n == Len(data)
  IN  n > 0 => data[n] % 128 # 0 \/ (n > 1 /\ data[n - 1] >= 128)

\* decode_num raises ValueError, which the interpreter turns into SCRIPTNUM,
\* exactly when this is false.
Decodable(data, require_minimal, max_size) ==
  /\ Len(data) <= max_size
  /\ require_minimal => MinimallyEncoded(data)

\* Mutant: the sign bit is left in the magnitude.
Digit_Unmasked(data, i) == data[i]

\* A byte of the magnitude: the sign bit of the last one is masked away.
Digit(data, i) == IF i = Len(data) THEN data[i] % 128 ELSE data[i]

decode_num(data) ==
  LET n == Len(data)
      magnitude == (IF n >= 1 THEN Digit(data, 1) ELSE 0)
                 + (IF n >= 2 THEN 256 * Digit(data, 2) ELSE 0)
                 + (IF n >= 3 THEN 65536 * Digit(data, 3) ELSE 0)
                 + (IF n >= 4 THEN TWO24 * Digit(data, 4) ELSE 0)
                 + (IF n >= 5 THEN 256 * TWO24 * Digit(data, 5) ELSE 0)
  IN  IF n > 0 /\ data[n] >= 128 THEN -magnitude ELSE magnitude

\* False for the empty item, for zeros, and for negative zero.
cast_to_bool(data) ==
  \E i \in DOMAIN data : data[i] # 0 /\ ~(i = Len(data) /\ data[i] = 128)
==============================================================================
