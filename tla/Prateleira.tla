----------------------------- MODULE Prateleira -----------------------------
(***************************************************************************)
(* What the stock promises, without requests or locks: a shelf that each   *)
(* posting changes by exactly the units it records, all its products at    *)
(* once, and that is never short of what it gives.                         *)
(***************************************************************************)
EXTENDS Integers

CONSTANTS Physical, InitialStock

VARIABLES shelf, ledger

Init ==
  /\ shelf = InitialStock
  /\ ledger = [p \in Physical |-> 0]

(* d[p] physical units of every product come (d[p] > 0) or go.             *)
Post(d) ==
  /\ shelf' = [p \in Physical |-> shelf[p] + d[p]]
  /\ ledger' = [p \in Physical |-> ledger[p] + d[p]]
  /\ \A p \in Physical : d[p] < 0 => shelf'[p] >= 0

(* The posting is the change of the ledger, so it needs no other witness.  *)
Next == Post([p \in Physical |-> ledger'[p] - ledger[p]])

Spec == Init /\ [][Next]_<<shelf, ledger>>
=============================================================================
