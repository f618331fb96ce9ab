------------------------------ MODULE MCMesas ------------------------------
(* Instances of Mesas.                                                      *)
EXTENDS Mesas

CONSTANTS r1, r2, m1, m2
=============================================================================
