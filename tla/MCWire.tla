--------------------------------- MODULE MCWire ---------------------------------
(***************************************************************************)
(* Bytes of twelve values: sizes of 9 and more need an integer, those of   *)
(* 12 and more a longer one, and numbers from 6 on have the sign bit.      *)
(***************************************************************************)
EXTENDS Wire

Bytes(n) == [i \in 1..n |-> 3]
TxIn(script_sig, witness) ==
  [prevout |-> [txid |-> <<7>>, vout |-> 13], script_sig |-> script_sig,
   sequence |-> 143, witness |-> witness]
TxOut(script) == [value |-> 145, script_pubkey |-> script]
Tx(vin, vout) == [version |-> 2, vin |-> vin, vout |-> vout, locktime |-> 12]

Transactions ==
  {Tx(<<TxIn(<<4>>, w)>>, <<TxOut(<<5>>)>>) : w \in {<< >>, << << >>, <<1>> >>}}
  \cup {Tx(<<TxIn(<< >>, << >>), TxIn(<< >>, <<<<0>>>>)>>, << >>)}
  \cup {Tx(<<TxIn(Bytes(n), << >>)>>, << >>) : n \in {8, 9, 11, 12}}
  \cup {Tx(<< >>, <<TxOut(<< >>)>>)}

Signatures == {DerOf(r, s) \o <<1>> : r \in {0, 5, 6, 80}, s \in {1, 6, 7, 71, 72, 130}}

AllWritten ==
  Signatures \cup {serializeAs(tx, w) : tx \in Transactions, w \in BOOLEAN}
==============================================================================
