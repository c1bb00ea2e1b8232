------------------------------ MODULE MCSigChecker ------------------------------
(***************************************************************************)
(* Three scenes to sign, and every scene that one or two changes make of   *)
(* them.                                                                   *)
(***************************************************************************)
EXTENDS SigChecker

In(prevout, sequence) == [prevout |-> prevout, sequence |-> sequence]
Out(value) == [value |-> value, script |-> << >>]
Op(opcode) == [opcode |-> opcode, data |-> << >>]

\* The second of two inputs is signed; it has an output beside it, or has not.
Signing(vout) ==
  [tx |-> [version |-> 2, locktime |-> 0, vin |-> <<In("a", 5), In("b", 6)>>, vout |-> vout],
   spent |-> <<Out(10), Out(20)>>, index |-> 2,
   code |-> <<Op(OP_DUP), Op(OP_CODESEPARATOR), Op(OP_CHECKSIG)>>,
   exec |-> [annex |-> {}, leaf |-> "leaf", codesep |-> 0]]
Plain == Signing(<<Out(1), Out(2)>>)
Single == Signing(<<Out(1)>>)

\* The output that is spent holds no value.
Worthless == [Single EXCEPT !.spent[2].value = 0]
ThreeScenes == {Plain, Single, Worthless}
------------------------------------------------------------------------------
(* Changes.                                                                *)

ChangeFields(s) ==
  {[s EXCEPT !.tx.version = 1], [s EXCEPT !.tx.locktime = 9],
   [s EXCEPT !.code = <<Op(OP_DUP), Op(OP_CHECKSIG)>>], [s EXCEPT !.code = Tail(@)],
   [s EXCEPT !.exec.annex = {<<80>>}], [s EXCEPT !.exec.leaf = "other"],
   [s EXCEPT !.exec.codesep = 1]}

ChangeInputs(s) ==
  UNION {{[s EXCEPT !.tx.vin[k].prevout = "x"], [s EXCEPT !.tx.vin[k].sequence = 9],
          [s EXCEPT !.spent[k].value = 30], [s EXCEPT !.spent[k].script = <<1>>]} :
           k \in DOMAIN s.tx.vin}

\* An input added at either end, the first two swapped, and the first removed.
MoveInputs(s) ==
  {[s EXCEPT !.tx.vin = Append(@, In("c", 7)), !.spent = Append(@, Out(40))],
   [s EXCEPT !.tx.vin = <<In("c", 7)>> \o @, !.spent = <<Out(40)>> \o @, !.index = @ + 1]}
  \cup {[s EXCEPT !.tx.vin = <<@[2], @[1]>> \o SubSeq(@, 3, Len(@)),
                  !.spent = <<@[2], @[1]>> \o SubSeq(@, 3, Len(@)), !.index = 3 - @] :
          i \in {s.index} \cap {2}}
  \cup {[s EXCEPT !.tx.vin = Tail(@), !.spent = Tail(@), !.index = @ - 1] :
          i \in {s.index} \ {1}}

ChangeOutputs(s) ==
  {[s EXCEPT !.tx.vout = <<Out(3)>> \o @], [s EXCEPT !.tx.vout = Append(@, Out(3))]}
  \cup {[s EXCEPT !.tx.vout[k].value = 4] : k \in DOMAIN s.tx.vout}
  \cup {[s EXCEPT !.tx.vout = Front(@)] : k \in {1} \cap DOMAIN s.tx.vout}

Changes(s) == ChangeFields(s) \cup ChangeInputs(s) \cup MoveInputs(s) \cup ChangeOutputs(s)

\* One change, or a change of the outputs after one that moves the inputs.
OneOrTwo(s) ==
  Changes(s) \cup UNION {ChangeOutputs(t) : t \in MoveInputs(s)}
==============================================================================
