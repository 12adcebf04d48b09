-------------------------- MODULE MCPrintPreparation --------------------------
(* A plain module, two eligible prepared modules and one without work, on    *)
(* two layers; module 2 is selected on layer 1 only.                         *)
EXTENDS PrintPreparation

MCInvoked == {<<1, 0>>, <<2, 0>>, <<1, 1>>, <<2, 1>>, <<1, 2>>}
MCNoGeometry == {<<2, 1>>}
=============================================================================
