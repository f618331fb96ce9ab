---------------------------- MODULE MCTransmissao ----------------------------
(* Instances of Transmissao.                                                 *)
EXTENDS Transmissao

CONSTANTS venda, pedido
=============================================================================
