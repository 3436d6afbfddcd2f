------------------------------ MODULE MCSpiDma ------------------------------
(* SpiDma with commands of one and two transfers, of one and several bytes.  *)
EXTENDS SpiDma

MCCommands == {<<1>>, <<2>>, <<2, 1>>, <<2, 3>>}
=============================================================================
