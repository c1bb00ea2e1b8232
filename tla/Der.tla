----------------------------------- MODULE Der -----------------------------------
(***************************************************************************)
(* crypto/ecdsa.py: the bytes of an ECDSA signature.  parse_der reads what *)
(* it can of them; is_valid_der_encoding and is_low_s look at a signature  *)
(* with its hash type.  Offsets count from 1.                              *)
(***************************************************************************)
EXTENDS Serialize

CONSTANTS
  SEQUENCE, INTEGER,         \* the tags 0x30 and 0x02
  MAX_DER_SIZE,              \* 73, with the hash type
  SECP256K1_ORDER

\* An odd order, so that of a number and its negative one is low.
ASSUME DerAssumption ==
  {SEQUENCE, INTEGER, SECP256K1_ORDER} \subseteq Nat /\ SECP256K1_ORDER % 2 = 1

BigEndian(b) == from_bytes(Reverse(b))

\* sig & 0x80
Negative(byte) == byte >= RADIX \div 2

\* {} for None.  The size after the first tag, and whatever follows s, are not
\* looked at.
parse_der(sig) ==
  IF Len(sig) < 6 \/ sig[1] # SEQUENCE \/ sig[3] # INTEGER THEN {}
  ELSE LET at == 5 + sig[4]      \* the tag of s
       IN  IF at + 1 > Len(sig) \/ sig[at] # INTEGER \/ at + 1 + sig[at + 1] > Len(sig) THEN {}
           ELSE {[r |-> BigEndian(SubSeq(sig, 5, at - 1)),
                  s |-> BigEndian(SubSeq(sig, at + 2, at + 1 + sig[at + 1]))]}

\* Mutant: zeros before a number are let pass.
MinimalInteger_Padded(sig, at, size) == size > 0 /\ ~Negative(sig[at])

\* A number of some bytes from an offset on is neither empty nor negative, and
\* has no zero before it but the one that keeps it from being negative.
MinimalInteger(sig, at, size) ==
  /\ size > 0
  /\ ~Negative(sig[at])
  /\ size > 1 /\ sig[at] = 0 => Negative(sig[at + 1])

is_valid_der_encoding(sig) ==
  LET n == Len(sig)
      lenR == sig[4]
      lenS == sig[6 + lenR]
  IN  /\ n >= 9 /\ n <= MAX_DER_SIZE
      /\ sig[1] = SEQUENCE /\ sig[2] = n - 3
      /\ 5 + lenR < n
      /\ lenR + lenS + 7 = n
      /\ sig[3] = INTEGER /\ MinimalInteger(sig, 5, lenR)
      /\ sig[5 + lenR] = INTEGER /\ MinimalInteger(sig, 7 + lenR, lenS)

is_low_s(sig) ==
  \E p \in parse_der(IF sig = << >> THEN sig ELSE Front(sig)) : p.s <= SECP256K1_ORDER \div 2
==============================================================================
