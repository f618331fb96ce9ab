------------------------------ MODULE MCAvisos ------------------------------
(* Instances of Avisos.                                                     *)
EXTENDS Avisos

CONSTANTS pedido, r1, r2, r3, cerveja
=============================================================================
