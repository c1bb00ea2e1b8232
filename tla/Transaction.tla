------------------------------- MODULE Transaction -------------------------------
(***************************************************************************)
(* tx/transaction.py: transactions as bytes, with and without witnesses.   *)
(***************************************************************************)
EXTENDS Serialize

CONSTANT HASH_SIZE    \* the bytes of a txid

ASSUME TransactionAssumption == HASH_SIZE \in Nat

OutPointBytes(prevout) == prevout.txid \o to_bytes(prevout.vout, INT)

TxInBytes(txin) ==
  OutPointBytes(txin.prevout) \o VarBytes(txin.script_sig) \o to_bytes(txin.sequence, INT)

TxOutBytes(txout) == to_bytes(txout.value, LONG) \o VarBytes(txout.script_pubkey)

\* A list after the number of its items, each of them already in bytes.
List(items) == encode_compact_size(Len(items)) \o FlattenSeq(items)

StackBytes(stack) == List([k \in DOMAIN stack |-> VarBytes(stack[k])])

has_witness(tx) == \E k \in DOMAIN tx.vin : tx.vin[k].witness # << >>

serializeAs(tx, include_witness) ==
  to_bytes(tx.version, INT)
  \o (IF include_witness THEN <<0, 1>> ELSE << >>)
  \o List([k \in DOMAIN tx.vin |-> TxInBytes(tx.vin[k])])
  \o List([k \in DOMAIN tx.vout |-> TxOutBytes(tx.vout[k])])
  \o (IF include_witness
        THEN FlattenSeq([k \in DOMAIN tx.vin |-> StackBytes(tx.vin[k].witness)])
      ELSE << >>)
  \o to_bytes(tx.locktime, INT)

serialize(tx) == serializeAs(tx, has_witness(tx))
------------------------------------------------------------------------------
(* Transaction.parse, by the readers of Serialize.                          *)

\* A value read after the values in c.
Also(c, next) == {[value |-> Append(c.value, n.value), rest |-> n.rest] : n \in next}

\* So many values one after the other, each by what was read before it.
ReadAll(Reader(_, _), count, b) ==
  LET read[k \in 0..count] ==
        IF k = 0 THEN {[value |-> << >>, rest |-> b]}
        ELSE UNION {Also(c, Reader(c.value, c.rest)) : c \in read[k - 1]}
  IN  read[count]

ReadField(kind, b) ==
  CASE kind = "txid" -> Read(b, HASH_SIZE)
    [] kind = "uint32" -> ReadInt(b, INT)
    [] kind = "uint64" -> ReadInt(b, LONG)
    [] kind = "bytes" -> ReadVarBytes(b)

ReadFields(kinds, b) ==
  ReadAll(LAMBDA before, rest : ReadField(kinds[Len(before) + 1], rest), Len(kinds), b)

ReadTxIn(b) ==
  {[c EXCEPT !.value = [prevout |-> [txid |-> @[1], vout |-> @[2]],
                        script_sig |-> @[3], sequence |-> @[4], witness |-> << >>]] :
     c \in ReadFields(<<"txid", "uint32", "bytes", "uint32">>, b)}

ReadTxOut(b) ==
  {[c EXCEPT !.value = [value |-> @[1], script_pubkey |-> @[2]]] :
     c \in ReadFields(<<"uint64", "bytes">>, b)}

ReadItem(kind, b) ==
  CASE kind = "TxIn" -> ReadTxIn(b)
    [] kind = "TxOut" -> ReadTxOut(b)
    [] kind = "item" -> ReadVarBytes(b)

\* A number of items and then the items.  Each takes a byte at least, so more
\* than there are bytes cannot be read.
ReadItems(kind, count) ==
  IF count.value > Len(count.rest) THEN {}
  ELSE ReadAll(LAMBDA before, rest : ReadItem(kind, rest), count.value, count.rest)

ReadList(kind, b) == UNION {ReadItems(kind, count) : count \in ReadCompactSize(b)}

\* Whether the bytes announce witnesses.
ReadMarker(b) ==
  IF b = << >> THEN {}
  ELSE IF b[1] # 0 THEN {[value |-> FALSE, rest |-> b]}
  ELSE {[c EXCEPT !.value = TRUE] : c \in {marker \in Read(b, 2) : marker.value[2] # 0}}

\* The witness of every input, empty when the bytes announce none.
ReadWitnesses(segwit, vin, b) ==
  IF segwit
    THEN ReadAll(LAMBDA before, rest : ReadList("item", rest), Len(vin), b)
  ELSE {[value |-> [k \in DOMAIN vin |-> << >>], rest |-> b]}

Parts == <<"version", "segwit", "vin", "vout", "witnesses", "locktime">>

\* The part of a transaction that follows those before.
ReadPart(before, b) ==
  LET part == Parts[Len(before) + 1]
  IN  CASE part \in {"version", "locktime"} -> ReadInt(b, INT)
        [] part = "segwit" -> ReadMarker(b)
        [] part = "vin" -> ReadList("TxIn", b)
        [] part = "vout" -> ReadList("TxOut", b)
        [] part = "witnesses" -> ReadWitnesses(before[2], before[3], b)

WithWitnesses(vin, witnesses) ==
  [k \in DOMAIN vin |-> [vin[k] EXCEPT !.witness = witnesses[k]]]

parse(b) ==
  {[c EXCEPT !.value = [version |-> @[1], vin |-> WithWitnesses(@[3], @[5]),
                        vout |-> @[4], locktime |-> @[6]]] :
     c \in ReadAll(ReadPart, Len(Parts), b)}
==============================================================================
