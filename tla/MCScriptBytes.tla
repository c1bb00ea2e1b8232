---------------------------- MODULE MCScriptBytes ----------------------------
(***************************************************************************)
(* Bytes that are opcodes, sizes and data at once, and signatures whose    *)
(* pushes such scripts hold, also inside other pushes.                     *)
(***************************************************************************)
EXTENDS ScriptWalks

MCSignatures == {<<1>>, <<2>>, <<1, 1>>, <<0, 1>>, <<1, 118>>}
==============================================================================
