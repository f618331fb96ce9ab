------------------------------ MODULE Estoque ------------------------------
(***************************************************************************)
(* products.stock under concurrent requests: each one is a PostgreSQL      *)
(* transaction at READ COMMITTED, seen through an SQLAlchemy session.      *)
(*                                                                         *)
(* A handler first loads the product with a plain SELECT and later locks   *)
(* the row of the physical product with SELECT ... FOR UPDATE.  The second *)
(* SELECT does not use populate_existing, so a row that the session has    *)
(* already loaded keeps the attributes of the first read: the lock is      *)
(* fresh, the number is not.  The session writes the new number, not a     *)
(* difference.                                                             *)
(*                                                                         *)
(* The cash register is open all along.  Each request runs once and moves  *)
(* the stock of one comanda, consignment or form: the bills themselves are *)
(* module Comanda.  Quantities of forms are positive, as the pages submit  *)
(* them.                                                                   *)
(***************************************************************************)
EXTENDS Integers, Sequences

CONSTANTS
  Tx,            \* requests; each runs once
  NoTx,          \* the holder of a free lock
  Products,
  PhysicalOf,    \* pack_unit_product_id or the product itself
  PackSize,
  InitialStock,  \* of the physical products
  Requests       \* what a request may ask: [kind, entries]

Physical == {PhysicalOf[p] : p \in Products}

(* The callers of the stock, by how they load and what they lock:          *)
(*   pedido        create_pedido                                           *)
(*   item          add_order_item, add_pending_order_item,                 *)
(*                 create_consignment, refunds                             *)
(*   fechamento    close_order, cancel_order: rows given back              *)
(*   pendentes     cancel_pending_order                                    *)
(*   carregamento  add_stock_movement, add_stock_batch                     *)
(*   edicao        update_product with a stock                             *)
Kind == {"pedido", "item", "fechamento", "pendentes", "carregamento", "edicao"}

(* An entry moves quantity pieces (packs count as one) of a product, or,   *)
(* in an edition, gives the new stock (a pack has none of its own).        *)
Entry == [product : Products, quantity : Int]

ASSUME TxAssumption == NoTx \notin Tx
ASSUME ProductsAssumption ==
  /\ PhysicalOf \in [Products -> Products]
  /\ PackSize \in [Products -> Nat \ {0}]
  /\ InitialStock \in [Physical -> Nat]
ASSUME RequestsAssumption ==
  /\ Requests \subseteq [kind : Kind, entries : Seq(Entry)]
  /\ \A r \in Requests :
       r.kind = "edicao" =>
         \A n \in DOMAIN r.entries : /\ r.entries[n].quantity >= 0
                                      /\ PhysicalOf[r.entries[n].product] = r.entries[n].product

(* The handlers that lock the open cash session for their whole life.      *)
(* Mutant: only those that sell lock it.                                   *)
OnlySalesHoldSession(kind) == kind \in {"pedido", "item"}
HoldsSession(kind) == kind \in {"pedido", "item", "fechamento"}

(* The physical rows a handler loads, without a lock, on the way to an     *)
(* entry: the product itself, and its unit when pack_unit_product is       *)
(* loaded with it.  Mutant: a pack counts as a row with stock of its own.  *)
PackOwnStock(kind, e) == {e.product}
LoadsUnit(kind) == kind \in {"item", "carregamento"}
LoadedBy(kind, e) ==
  IF PhysicalOf[e.product] = e.product THEN {e.product}
  ELSE IF LoadsUnit(kind) THEN {PhysicalOf[e.product]} ELSE {}

(* These load the products of all their rows together with the comanda.    *)
LoadsAllFirst(kind) == kind \in {"fechamento", "pendentes"}

Units(e) == e.quantity * PackSize[e.product]

VARIABLES
  stock,          \* products.stock, committed
  history,        \* committed stock_history: units in minus units out
  sessionHolder,  \* who holds the row of the open cash session
  rowHolder,      \* who holds the row of each physical product
  step,           \* where each request is
  request,        \* what it asked for
  pos,            \* the entry it works on
  loaded,         \* rows in its identity map
  cache,          \* their stock there
  moved           \* units its uncommitted stock_history rows move

lockVars == <<sessionHolder, rowHolder>>
dataVars == <<stock, history>>
txVars == <<step, request, pos, loaded, cache, moved>>
vars == <<dataVars, lockVars, txVars>>

NoRequest == [kind |-> "edicao", entries |-> <<>>]
Step == {"ocioso", "sessao", "ler", "travar", "fim"}

TypeOK ==
  /\ stock \in [Physical -> Int]
  /\ history \in [Physical -> Int]
  /\ sessionHolder \in Tx \cup {NoTx}
  /\ rowHolder \in [Physical -> Tx \cup {NoTx}]
  /\ step \in [Tx -> Step]
  /\ request \in [Tx -> [kind : Kind, entries : Seq(Entry)]]
  /\ pos \in [Tx -> Nat \ {0}]
  /\ loaded \in [Tx -> SUBSET Physical]
  /\ cache \in [Tx -> [Physical -> Int]]
  /\ moved \in [Tx -> [Physical -> Int]]

Nothing == [p \in Physical |-> 0]

Init ==
  /\ stock = InitialStock
  /\ history = Nothing
  /\ sessionHolder = NoTx
  /\ rowHolder = [p \in Physical |-> NoTx]
  /\ step = [t \in Tx |-> "ocioso"]
  /\ request = [t \in Tx |-> NoRequest]
  /\ pos = [t \in Tx |-> 1]
  /\ loaded = [t \in Tx |-> {}]
  /\ cache = [t \in Tx |-> Nothing]
  /\ moved = [t \in Tx |-> Nothing]

-----------------------------------------------------------------------------
(* The entry a request works on, and the row it is about to lock.          *)
Working(t) == pos[t] \in DOMAIN request[t].entries
Current(t) == request[t].entries[pos[t]]
Row(t) == PhysicalOf[Current(t).product]

(* The stock the handler computes with after the lock.                     *)
Seen(t) == IF Row(t) \in loaded[t] THEN cache[t][Row(t)] ELSE stock[Row(t)]

(* What another request holds and t waits for.  Mutant: no FOR UPDATE.     *)
AlwaysFree(t, p) == TRUE
RowFree(t, p) == rowHolder[p] \in {NoTx, t}
WaitsFor(t, u) ==
  /\ u # t
  /\ \/ step[t] = "sessao" /\ sessionHolder = u
     \/ step[t] = "travar" /\ rowHolder[Row(t)] = u

(* Requests that wait for each other in a circle.                          *)
Deadlocked(t) ==
  \E S \in SUBSET Tx :
    /\ t \in S
    /\ \A u \in S : (\E v \in S : WaitsFor(u, v)) /\ (\E v \in S : WaitsFor(v, u))

(* The end of a transaction frees its locks.  Mutant: an early return      *)
(* leaves the session open.                                                *)
EndsHolding(t) == step' = [step EXCEPT ![t] = "fim"] /\ UNCHANGED lockVars
Ends(t) ==
  /\ step' = [step EXCEPT ![t] = "fim"]
  /\ sessionHolder' = IF sessionHolder = t THEN NoTx ELSE sessionHolder
  /\ rowHolder' = [p \in Physical |-> IF rowHolder[p] = t THEN NoTx ELSE rowHolder[p]]

(* "Disponível" in the refusal.  Mutant: the shortage check is dropped.    *)
AlwaysEnough(t) == TRUE
Enough(t) == Units(Current(t)) < 0 => Seen(t) + Units(Current(t)) >= 0

-----------------------------------------------------------------------------
(* A request arrives.                                                      *)
Arrive(t) ==
  /\ step[t] = "ocioso"
  /\ \E r \in Requests :
       /\ request' = [request EXCEPT ![t] = r]
       /\ step' = [step EXCEPT ![t] = IF HoldsSession(r.kind) THEN "sessao" ELSE "ler"]
  /\ UNCHANGED <<dataVars, lockVars, pos, loaded, cache, moved>>

TakeSession(t) ==
  /\ step[t] = "sessao"
  /\ sessionHolder = NoTx
  /\ sessionHolder' = t
  /\ step' = [step EXCEPT ![t] = "ler"]
  /\ UNCHANGED <<dataVars, rowHolder, request, pos, loaded, cache, moved>>

(* The plain SELECT: rows already in the identity map keep what they have. *)
Load(t) ==
  /\ step[t] = "ler" /\ Working(t)
  /\ LET entries == request[t].entries
         now == IF LoadsAllFirst(request[t].kind) THEN DOMAIN entries ELSE {pos[t]}
         rows == (UNION {LoadedBy(request[t].kind, entries[n]) : n \in now}) \ loaded[t]
     IN /\ loaded' = [loaded EXCEPT ![t] = @ \cup rows]
        /\ cache' = [cache EXCEPT ![t] =
             [p \in Physical |-> IF p \in rows THEN stock[p] ELSE @[p]]]
  /\ step' = [step EXCEPT ![t] = "travar"]
  /\ UNCHANGED <<dataVars, lockVars, request, pos, moved>>

(* SELECT ... FOR UPDATE, the check and the new number.                    *)
Take(t) ==
  /\ step[t] = "travar" /\ request[t].kind # "edicao"
  /\ RowFree(t, Row(t))
  /\ Enough(t)
  /\ rowHolder' = [rowHolder EXCEPT ![Row(t)] = t]
  /\ loaded' = [loaded EXCEPT ![t] = @ \cup {Row(t)}]
  /\ cache' = [cache EXCEPT ![t][Row(t)] = Seen(t) + Units(Current(t))]
  /\ moved' = [moved EXCEPT ![t][Row(t)] = @ + Units(Current(t))]
  /\ pos' = [pos EXCEPT ![t] = @ + 1]
  /\ step' = [step EXCEPT ![t] = "ler"]
  /\ UNCHANGED <<dataVars, sessionHolder, request>>

(* A shortage refuses the whole request: nothing was committed.            *)
Refuse(t) ==
  /\ step[t] = "travar" /\ request[t].kind # "edicao"
  /\ RowFree(t, Row(t))
  /\ ~Enough(t)
  /\ Ends(t)
  /\ UNCHANGED <<dataVars, request, pos, loaded, cache, moved>>

(* update_product: the number of the form, when it differs from the one    *)
(* loaded; the UPDATE takes the row lock, no history is written.           *)
Overwrite(t) ==
  /\ step[t] = "travar" /\ request[t].kind = "edicao"
  /\ \/ /\ Current(t).quantity # cache[t][Row(t)]
        /\ RowFree(t, Row(t))
        /\ rowHolder' = [rowHolder EXCEPT ![Row(t)] = t]
        /\ cache' = [cache EXCEPT ![t][Row(t)] = Current(t).quantity]
     \/ /\ Current(t).quantity = cache[t][Row(t)]
        /\ UNCHANGED <<rowHolder, cache>>
  /\ pos' = [pos EXCEPT ![t] = @ + 1]
  /\ step' = [step EXCEPT ![t] = "ler"]
  /\ UNCHANGED <<dataVars, sessionHolder, request, loaded, moved>>

Commit(t) ==
  /\ step[t] = "ler" /\ ~Working(t)
  /\ stock' = [p \in Physical |-> IF rowHolder[p] = t THEN cache[t][p] ELSE stock[p]]
  /\ history' = [p \in Physical |-> history[p] + moved[t][p]]
  /\ Ends(t)
  /\ UNCHANGED <<request, pos, loaded, cache, moved>>

(* PostgreSQL aborts one of the requests of a circle; the exception ends   *)
(* the session, which rolls back.                                          *)
DeadlockVictim(t) ==
  /\ Deadlocked(t)
  /\ Ends(t)
  /\ UNCHANGED <<dataVars, request, pos, loaded, cache, moved>>

(* Once it has arrived, a request goes on by itself.                       *)
Proceed(t) ==
  \/ TakeSession(t)
  \/ Load(t)
  \/ Take(t)
  \/ Refuse(t)
  \/ Overwrite(t)
  \/ Commit(t)
  \/ DeadlockVictim(t)

(* Every request has come and gone.                                        *)
Quiet == (\A t \in Tx : step[t] = "fim") /\ UNCHANGED vars

Next ==
  \/ \E t \in Tx : Arrive(t)
  \/ \E t \in Tx : Proceed(t)
  \/ Quiet

Spec == Init /\ [][Next]_vars

(* The event loop resumes a handler when its query returns, and PostgreSQL *)
(* answers a query when the lock it waits for is free.                     *)
FairSpec == Spec /\ \A t \in Tx : WF_vars(Proceed(t))

-----------------------------------------------------------------------------
(* Properties.                                                             *)

(* A stale number can be wrong, but the check and the write use the same   *)
(* number: whatever interleaves, the stock is never committed negative.    *)
StockNeverNegative == \A p \in Physical : stock[p] >= 0

(* The request loads row p, unlocked, on the way to one of its entries.    *)
ReadsEarly(t, p) ==
  \E n \in DOMAIN request[t].entries : p \in LoadedBy(request[t].kind, request[t].entries[n])

(* A row that a request first reads under its lock (the unit of a pack in  *)
(* create_pedido, in a close, in the cancellation of pending rows) is      *)
(* current until the commit, next to any mixture of the others.            *)
LockedReadsAreCurrent ==
  \A t \in Tx : \A p \in Physical :
    step[t] \in {"ler", "travar"} /\ p \in loaded[t] /\ ~ReadsEarly(t, p)
      => cache[t][p] = stock[p] + moved[t][p]

(* The stock is what the history of movements says it is.                  *)
StockMatchesHistory == \A p \in Physical : stock[p] = InitialStock[p] + history[p]

(* The requests that hold the cash session implement the abstract shelf.   *)
Shelf == INSTANCE Prateleira WITH shelf <- stock, ledger <- history
ImplementsShelf == Shelf!Spec

(* A request that has arrived is answered: locks taken in the order of the *)
(* entries may form circles, and every circle is broken.                   *)
EveryRequestEnds == \A t \in Tx : step[t] # "ocioso" ~> step[t] = "fim"

(* docs/FORMULAS.md: consuming is stock -= unit_quantity.  A committed     *)
(* movement changes the stock by the units it recorded.                    *)
ConsumptionSubtracts ==
  [][\A p \in Physical : history'[p] # history[p] =>
       stock'[p] - stock[p] = history'[p] - history[p]]_vars
=============================================================================
