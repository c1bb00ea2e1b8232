---------------------------------- MODULE Wire ----------------------------------
(***************************************************************************)
(* Transactions and signatures on their way: bytes that their owner wrote  *)
(* and that whoever carries them may change, a byte at a time.             *)
(***************************************************************************)
EXTENDS Transaction, Der

CONSTANTS
  Written,       \* the bytes that owners write
  EditBytes,     \* bytes written over others, or between them
  MaxEdits

VARIABLES
  bytes,
  edits

wireVars == <<bytes, edits>>

ASSUME WireAssumption ==
  Written \subseteq ByteString /\ EditBytes \subseteq 0..(RADIX - 1) /\ MaxEdits \in Nat

WireInit == bytes \in Written /\ edits = 0

Edit(to) == edits < MaxEdits /\ edits' = edits + 1 /\ bytes' = to

WireNext ==
  \/ \E i \in DOMAIN bytes, byte \in EditBytes : Edit([bytes EXCEPT ![i] = byte])
  \/ \E i \in 1..(Len(bytes) + 1), byte \in EditBytes : Edit(InsertAt(bytes, i, byte))
  \/ \E i \in DOMAIN bytes : Edit(RemoveAt(bytes, i))
  \/ \E n \in 0..(Len(bytes) - 1) : Edit(SubSeq(bytes, 1, n))

WireSpec == WireInit /\ [][WireNext]_wireVars
------------------------------------------------------------------------------
Stripped(tx) == [tx EXCEPT !.vin = [k \in DOMAIN @ |-> [@[k] EXCEPT !.witness = << >>]]]

Reads(b, tx) == parse(b) = {[value |-> tx, rest |-> << >>]}

\* All the program does with a transaction it was sent, it does with what parse
\* made of the bytes.  Written out again, with the witnesses or without (txid),
\* that is the same transaction; it is never longer than what was read, and of
\* that length only when it is the same bytes, but for the flag after the
\* marker.  Without inputs there is no such promise: the 0 that counts them is
\* the marker.
TxRoundTrip ==
  \A c \in {read \in parse(bytes) : read.value.vin # << >>} :
    \A again \in {serialize(c.value)} :
      LET taken == Len(bytes) - Len(c.rest)
      IN  /\ Reads(again, c.value)
          /\ Reads(serializeAs(c.value, FALSE), Stripped(c.value))
          /\ Len(again) <= taken
          /\ Len(again) = taken =>
               \A i \in 1..taken :
                 again[i] # bytes[i] => has_witness(c.value) /\ i = INT + 2

\* A number with the zero that keeps it from being negative.
Magnitude(n) == Reverse(to_bytes(n, CHOOSE k \in 1..(n + 1) :
                                     n < Power[k] /\ \A j \in 1..(k - 1) : n >= Power[j]))
DerInteger(n) ==
  LET b == IF Negative(Magnitude(n)[1]) THEN <<0>> \o Magnitude(n) ELSE Magnitude(n)
  IN  <<INTEGER, Len(b)>> \o b
DerOf(r, s) ==
  LET body == DerInteger(r) \o DerInteger(s) IN <<SEQUENCE, Len(body)>> \o body

\* Strict encodings are unique, and so are signatures with a low s: what
\* is_valid_der_encoding passes is exactly the encoding of the two numbers that
\* the lenient parser, which decides what is verified, reads from it; and of s
\* and its negative, which verify alike, is_low_s passes one.
DerIsCanonical ==
  bytes # << >> =>
    LET der == Front(bytes)
    IN  /\ is_valid_der_encoding(bytes) <=>
             /\ Len(bytes) <= MAX_DER_SIZE
             /\ \E p \in parse_der(der) : der = DerOf(p.r, p.s)
        /\ \A p \in parse_der(der) :
             p.s \in 1..(SECP256K1_ORDER - 1) =>
               is_low_s(bytes) # is_low_s(DerOf(p.r, SECP256K1_ORDER - p.s) \o <<1>>)
==============================================================================
