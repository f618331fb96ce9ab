--------------------------- MODULE EstoqueProofs ---------------------------
(***************************************************************************)
(* Theorems about Estoque, for any number of requests and products, any    *)
(* packs and any requests.                                                 *)
(*                                                                         *)
(* Two layers.  LockInv holds for every mixture of requests: what a lock   *)
(* and the identity map say about a row.  Serial adds what holds when all  *)
(* requests hold the cash session: whatever a request has loaded is still  *)
(* current, locked or not.                                                 *)
(***************************************************************************)
EXTENDS Estoque, TLAPS

Running(t) == step[t] \in {"ler", "travar"}

(* One request and one row.                                                *)
RowOK(t, p) ==
  /\ rowHolder[p] = t => Running(t) /\ p \in loaded[t]
  /\ p \in loaded[t] => cache[t][p] >= 0
  /\ Running(t) /\ rowHolder[p] # t => moved[t][p] = 0
  /\ Running(t) /\ rowHolder[p] # t /\ p \in loaded[t] => ReadsEarly(t, p)
  /\ rowHolder[p] = t /\ ~ReadsEarly(t, p) => cache[t][p] = stock[p] + moved[t][p]

(* One request.                                                            *)
RequestOK(t) ==
  /\ step[t] = "travar" => Working(t)
  /\ step[t] # "ocioso" => request[t] \in Requests
  /\ step[t] \in {"ocioso", "sessao"} => loaded[t] = {} /\ moved[t] = Nothing
  /\ step[t] = "travar" /\ request[t].kind = "edicao" => Row(t) \in loaded[t]
  /\ step[t] = "sessao" => HoldsSession(request[t].kind)
  /\ Running(t) /\ HoldsSession(request[t].kind) => sessionHolder = t
  /\ sessionHolder = t => Running(t)

LockInv ==
  /\ StockNeverNegative
  /\ \A t \in Tx : RequestOK(t)
  /\ \A t \in Tx, p \in Physical : RowOK(t, p)

LEMMA PhysicalRow ==
  ASSUME NEW p \in Products
  PROVE  PhysicalOf[p] \in Physical
BY DEF Physical

(* The types of the entry a request works on.                              *)
LEMMA EntryTypes ==
  ASSUME TypeOK, NEW t \in Tx, Working(t)
  PROVE  /\ Current(t) \in Entry /\ Row(t) \in Physical
         /\ Units(Current(t)) \in Int /\ Current(t).quantity \in Int
         /\ Seen(t) \in Int
<1>1. request[t].entries \in Seq(Entry) /\ pos[t] \in DOMAIN request[t].entries
  BY DEF TypeOK, Working
<1>2. Current(t) \in Entry
  BY <1>1 DEF Current
<1>3. Current(t).product \in Products /\ Current(t).quantity \in Int
  BY <1>2 DEF Entry
<1>4. PackSize[Current(t).product] \in Int
  BY <1>3, ProductsAssumption
<1>5. Row(t) \in Physical
  BY <1>3, PhysicalRow DEF Row
<1>6. Units(Current(t)) \in Int
  BY <1>3, <1>4 DEF Units
<1>7. Seen(t) \in Int
  BY <1>5 DEF Seen, TypeOK
<1> QED  BY <1>2, <1>3, <1>5, <1>6, <1>7

(* A load reads physical rows only.                                        *)
LEMMA LoadedArePhysical ==
  ASSUME NEW kind, NEW e \in Entry
  PROVE  LoadedBy(kind, e) \subseteq Physical
<1>1. e.product \in Products
  BY DEF Entry
<1> QED  BY <1>1, PhysicalRow DEF LoadedBy

LEMMA InitHolds ==
  ASSUME Init
  PROVE  TypeOK /\ LockInv
<1>1. TypeOK
  <2>1. stock \in [Physical -> Int]
    BY ProductsAssumption DEF Init
  <2>2. request \in [Tx -> [kind : Kind, entries : Seq(Entry)]]
    BY DEF Init, NoRequest, Kind
  <2> QED  BY <2>1, <2>2 DEF Init, TypeOK, Nothing, Step
<1>2. StockNeverNegative
  BY ProductsAssumption DEF Init, StockNeverNegative
<1>3. ASSUME NEW t \in Tx PROVE RequestOK(t)
  BY <1>3, TxAssumption DEF Init, RequestOK, Running
<1>4. ASSUME NEW t \in Tx, NEW p \in Physical PROVE RowOK(t, p)
  BY <1>4, TxAssumption DEF Init, RowOK, Running
<1> QED  BY <1>1, <1>2, <1>3, <1>4 DEF LockInv

-----------------------------------------------------------------------------
LEMMA ArriveStep ==
  ASSUME TypeOK, LockInv, NEW t \in Tx, Arrive(t)
  PROVE  TypeOK' /\ LockInv'
<1>1. PICK r \in Requests :
        /\ request' = [request EXCEPT ![t] = r]
        /\ step' = [step EXCEPT ![t] = IF HoldsSession(r.kind) THEN "sessao" ELSE "ler"]
  BY DEF Arrive
<1>2. r \in [kind : Kind, entries : Seq(Entry)]
  BY RequestsAssumption
<1>3. UNCHANGED <<stock, history, sessionHolder, rowHolder, pos, loaded, cache, moved>>
  BY DEF Arrive, dataVars, lockVars
<1>4. TypeOK'
  BY <1>1, <1>2, <1>3 DEF TypeOK, Step
<1>5. step[t] = "ocioso"
  BY DEF Arrive
<1>6. ASSUME NEW u \in Tx PROVE RequestOK(u)'
  BY <1>1, <1>3, <1>5 DEF TypeOK, LockInv, RequestOK, Running, Working, Row, Current
<1>7. ASSUME NEW u \in Tx, NEW p \in Physical PROVE RowOK(u, p)'
  <2>1. CASE u = t
    <3>1. loaded[t] = {} /\ moved[t] = Nothing /\ rowHolder[p] # t
      BY <1>5 DEF LockInv, RequestOK, RowOK, Running
    <3> QED  BY <1>3, <2>1, <3>1 DEF RowOK, Nothing
  <2>2. CASE u # t
    BY <1>1, <1>3, <2>2 DEF TypeOK, LockInv, RowOK, Running, ReadsEarly
  <2> QED  BY <2>1, <2>2
<1> QED  BY <1>3, <1>4, <1>6, <1>7 DEF LockInv, StockNeverNegative

LEMMA TakeSessionStep ==
  ASSUME TypeOK, LockInv, NEW t \in Tx, TakeSession(t)
  PROVE  TypeOK' /\ LockInv'
<1>1. /\ step[t] = "sessao" /\ sessionHolder = NoTx /\ sessionHolder' = t
      /\ step' = [step EXCEPT ![t] = "ler"]
      /\ UNCHANGED <<stock, history, rowHolder, request, pos, loaded, cache, moved>>
  BY DEF TakeSession, dataVars
<1>2. TypeOK'
  BY <1>1 DEF TypeOK, Step
<1>3. ASSUME NEW u \in Tx PROVE RequestOK(u)'
  BY <1>1, TxAssumption DEF TypeOK, LockInv, RequestOK, Running, Working, Row, Current
<1>4. ASSUME NEW u \in Tx, NEW p \in Physical PROVE RowOK(u, p)'
  BY <1>1 DEF TypeOK, LockInv, RequestOK, RowOK, Running, ReadsEarly, Nothing
<1> QED  BY <1>1, <1>2, <1>3, <1>4 DEF LockInv, StockNeverNegative

(* What a load adds to the identity map.                                   *)
LEMMA LoadEffect ==
  ASSUME TypeOK, LockInv, NEW t \in Tx, Load(t)
  PROVE  \E rows \in SUBSET Physical :
           /\ rows \cap loaded[t] = {}
           /\ \A p \in rows : ReadsEarly(t, p)
           /\ request[t].kind = "edicao" => Row(t) \in rows \cup loaded[t]
           /\ loaded' = [loaded EXCEPT ![t] = @ \cup rows]
           /\ cache' = [cache EXCEPT ![t] =
                [p \in Physical |-> IF p \in rows THEN stock[p] ELSE @[p]]]
<1> DEFINE entries == request[t].entries
           now == IF LoadsAllFirst(request[t].kind) THEN DOMAIN entries ELSE {pos[t]}
           rows == (UNION {LoadedBy(request[t].kind, entries[n]) : n \in now}) \ loaded[t]
<1>1. now \subseteq DOMAIN entries /\ pos[t] \in DOMAIN entries
  BY DEF Load, Working
<1>2. \A n \in now : entries[n] \in Entry
  BY <1>1 DEF TypeOK
<1>3. rows \in SUBSET Physical
  BY <1>2, LoadedArePhysical
<1>4. \A p \in rows : ReadsEarly(t, p)
  BY <1>1 DEF ReadsEarly
<1>5. request[t].kind = "edicao" => Row(t) \in rows \cup loaded[t]
  <2> HAVE request[t].kind = "edicao"
  <2>1. request[t] \in Requests
    BY DEF Load, LockInv, RequestOK
  <2>2. PhysicalOf[Current(t).product] = Current(t).product
    BY <1>1, <2>1, RequestsAssumption DEF Current
  <2>3. now = {pos[t]}
    BY DEF LoadsAllFirst
  <2>4. LoadedBy(request[t].kind, entries[pos[t]]) = {Row(t)}
    BY <2>2 DEF Row, Current, LoadedBy
  <2>5. rows = LoadedBy(request[t].kind, entries[pos[t]]) \ loaded[t]
    BY <2>3
  <2> QED  BY <2>4, <2>5
<1>6. /\ loaded' = [loaded EXCEPT ![t] = @ \cup rows]
      /\ cache' = [cache EXCEPT ![t] =
           [p \in Physical |-> IF p \in rows THEN stock[p] ELSE @[p]]]
  BY DEF Load
<1>7. rows \cap loaded[t] = {}
  OBVIOUS
<1> HIDE DEF rows
<1> QED  BY <1>3, <1>4, <1>5, <1>6, <1>7

LEMMA LoadStep ==
  ASSUME TypeOK, LockInv, NEW t \in Tx, Load(t)
  PROVE  TypeOK' /\ LockInv'
<1>1. PICK rows \in SUBSET Physical :
        /\ rows \cap loaded[t] = {}
        /\ \A p \in rows : ReadsEarly(t, p)
        /\ request[t].kind = "edicao" => Row(t) \in rows \cup loaded[t]
        /\ loaded' = [loaded EXCEPT ![t] = @ \cup rows]
        /\ cache' = [cache EXCEPT ![t] =
             [p \in Physical |-> IF p \in rows THEN stock[p] ELSE @[p]]]
  BY LoadEffect
<1>2. /\ step[t] = "ler" /\ Working(t)
      /\ step' = [step EXCEPT ![t] = "travar"]
      /\ UNCHANGED <<stock, history, sessionHolder, rowHolder, request, pos, moved>>
  BY DEF Load, dataVars, lockVars
<1>3. TypeOK'
  BY <1>1, <1>2 DEF TypeOK, Step
<1>4. ASSUME NEW u \in Tx PROVE RequestOK(u)'
  BY <1>1, <1>2 DEF TypeOK, LockInv, RequestOK, Running, Working, Row, Current
<1>5. ASSUME NEW u \in Tx, NEW p \in Physical PROVE RowOK(u, p)'
  <2>1. RowOK(u, p) /\ stock[p] >= 0 /\ ReadsEarly(u, p)' = ReadsEarly(u, p)
    BY <1>2 DEF LockInv, StockNeverNegative, ReadsEarly
  <2>2. CASE u = t /\ p \in rows
    BY <1>1, <1>2, <2>1, <2>2 DEF TypeOK, RowOK, Running
  <2>3. CASE ~(u = t /\ p \in rows)
    BY <1>1, <1>2, <2>1, <2>3 DEF TypeOK, RowOK, Running
  <2> QED  BY <2>2, <2>3
<1> QED  BY <1>2, <1>3, <1>4, <1>5 DEF LockInv, StockNeverNegative

LEMMA TakeStep ==
  ASSUME TypeOK, LockInv, NEW t \in Tx, Take(t)
  PROVE  TypeOK' /\ LockInv'
<1>1. /\ step[t] = "travar" /\ request[t].kind # "edicao"
      /\ RowFree(t, Row(t)) /\ Enough(t)
      /\ rowHolder' = [rowHolder EXCEPT ![Row(t)] = t]
      /\ loaded' = [loaded EXCEPT ![t] = @ \cup {Row(t)}]
      /\ cache' = [cache EXCEPT ![t][Row(t)] = Seen(t) + Units(Current(t))]
      /\ moved' = [moved EXCEPT ![t][Row(t)] = @ + Units(Current(t))]
      /\ pos' = [pos EXCEPT ![t] = @ + 1]
      /\ step' = [step EXCEPT ![t] = "ler"]
      /\ UNCHANGED <<stock, history, sessionHolder, request>>
  BY DEF Take, dataVars
<1>2. Working(t)
  BY <1>1 DEF LockInv, RequestOK
<1>3. Row(t) \in Physical /\ Units(Current(t)) \in Int /\ Seen(t) \in Int
  BY <1>2, EntryTypes
<1> DEFINE r == Row(t)
           n == Units(Current(t))
<1>4. RowOK(t, r) /\ stock[r] >= 0
  BY <1>3 DEF LockInv, StockNeverNegative
<1>5. Seen(t) + n >= 0
  <2>1. Seen(t) >= 0
    BY <1>4 DEF Seen, RowOK
  <2> QED  BY <1>1, <1>3, <2>1 DEF Enough
<1>6. ~ReadsEarly(t, r) => Seen(t) = stock[r] + moved[t][r]
  <2>1. CASE rowHolder[r] = t
    BY <1>4, <2>1 DEF Seen, RowOK
  <2>2. CASE rowHolder[r] # t
    BY <1>1, <1>3, <1>4, <2>2 DEF Seen, RowOK, Running, TypeOK
  <2> QED  BY <2>1, <2>2
<1> HIDE DEF r, n
<1>7. TypeOK'
  <2>1. cache' \in [Tx -> [Physical -> Int]] /\ moved' \in [Tx -> [Physical -> Int]]
    BY <1>1, <1>3 DEF TypeOK
  <2>2. pos' \in [Tx -> Nat \ {0}] /\ step' \in [Tx -> Step]
    BY <1>1 DEF TypeOK, Step
  <2>3. rowHolder' \in [Physical -> Tx \cup {NoTx}] /\ loaded' \in [Tx -> SUBSET Physical]
    BY <1>1, <1>3 DEF TypeOK
  <2> QED  BY <1>1, <2>1, <2>2, <2>3 DEF TypeOK
<1>8. ASSUME NEW u \in Tx PROVE RequestOK(u)'
  BY <1>1 DEF TypeOK, LockInv, RequestOK, Running, Working, Row, Current
<1>9. ASSUME NEW u \in Tx, NEW p \in Physical PROVE RowOK(u, p)'
  <2>1. RowOK(u, p) /\ ReadsEarly(u, p)' = ReadsEarly(u, p)
    BY <1>1 DEF LockInv, ReadsEarly
  <2>2. CASE u = t /\ p = r
    <3>1. /\ rowHolder'[p] = t /\ p \in loaded'[t] /\ step'[t] = "ler"
          /\ cache'[t][p] = Seen(t) + n /\ moved'[t][p] = moved[t][p] + n
          /\ stock' = stock
      BY <1>1, <1>3, <2>2 DEF TypeOK, r, n
    <3>2. stock[p] \in Int /\ moved[t][p] \in Int /\ n \in Int /\ Seen(t) \in Int
      BY <1>3 DEF TypeOK, n
    <3> QED  BY <1>5, <1>6, <2>1, <2>2, <3>1, <3>2 DEF RowOK, Running
  <2>3. CASE u = t /\ p # r
    BY <1>1, <1>3, <2>1, <2>3 DEF TypeOK, RowOK, Running, r
  <2>4. CASE u # t
    <3>1. rowHolder[r] # u
      BY <1>1, <2>4, TxAssumption DEF RowFree, r
    <3> QED  BY <1>1, <1>3, <2>1, <2>4, <3>1 DEF TypeOK, RowOK, Running, r
  <2> QED  BY <2>2, <2>3, <2>4
<1> QED  BY <1>1, <1>7, <1>8, <1>9 DEF LockInv, StockNeverNegative

LEMMA OverwriteStep ==
  ASSUME TypeOK, LockInv, NEW t \in Tx, Overwrite(t)
  PROVE  TypeOK' /\ LockInv'
<1>1. /\ step[t] = "travar" /\ request[t].kind = "edicao"
      /\ pos' = [pos EXCEPT ![t] = @ + 1]
      /\ step' = [step EXCEPT ![t] = "ler"]
      /\ UNCHANGED <<stock, history, sessionHolder, request, loaded, moved>>
  BY DEF Overwrite, dataVars
<1>2. Working(t) /\ request[t] \in Requests /\ Row(t) \in loaded[t]
  BY <1>1 DEF LockInv, RequestOK
<1>3. Row(t) \in Physical /\ Current(t).quantity \in Int
  BY <1>2, EntryTypes
<1>4. Current(t).quantity >= 0 /\ PhysicalOf[Current(t).product] = Current(t).product
  BY <1>1, <1>2, RequestsAssumption DEF Current, Working
<1>5. ReadsEarly(t, Row(t))
  BY <1>2, <1>4 DEF ReadsEarly, LoadedBy, Row, Current, Working
<1> DEFINE r == Row(t)
           q == Current(t).quantity
<1>6. \/ /\ RowFree(t, r)
         /\ rowHolder' = [rowHolder EXCEPT ![r] = t]
         /\ cache' = [cache EXCEPT ![t][r] = q]
      \/ UNCHANGED <<rowHolder, cache>>
  BY DEF Overwrite
<1>7. r \in Physical /\ q \in Int /\ q >= 0 /\ r \in loaded[t] /\ ReadsEarly(t, r)
  BY <1>2, <1>3, <1>4, <1>5
<1> HIDE DEF r, q
<1>8. TypeOK'
  <2>1. cache' \in [Tx -> [Physical -> Int]]
    <3>1. cache \in [Tx -> [Physical -> Int]] /\ q \in Int
      BY <1>7 DEF TypeOK
    <3> QED  BY <1>6, <3>1
  <2>2. rowHolder' \in [Physical -> Tx \cup {NoTx}]
    BY <1>6, <1>7 DEF TypeOK
  <2>3. pos' \in [Tx -> Nat \ {0}] /\ step' \in [Tx -> Step]
    BY <1>1 DEF TypeOK, Step
  <2> QED  BY <1>1, <2>1, <2>2, <2>3 DEF TypeOK
<1>9. ASSUME NEW u \in Tx PROVE RequestOK(u)'
  BY <1>1 DEF TypeOK, LockInv, RequestOK, Running, Working, Row, Current
<1>10. ASSUME NEW u \in Tx, NEW p \in Physical PROVE RowOK(u, p)'
  <2>1. RowOK(u, p) /\ ReadsEarly(u, p)' = ReadsEarly(u, p)
    BY <1>1 DEF LockInv, ReadsEarly
  <2>2. CASE UNCHANGED <<rowHolder, cache>>
    BY <1>1, <2>1, <2>2 DEF TypeOK, RowOK, Running
  <2>3. CASE /\ RowFree(t, r)
             /\ rowHolder' = [rowHolder EXCEPT ![r] = t]
             /\ cache' = [cache EXCEPT ![t][r] = q]
    <3>1. CASE p = r /\ u = t
      BY <1>1, <1>7, <2>1, <2>3, <3>1 DEF TypeOK, RowOK, Running
    <3>2. CASE p = r /\ u # t
      <4>1. rowHolder[r] # u
        BY <2>3, <3>2, TxAssumption DEF RowFree
      <4> QED  BY <1>1, <1>7, <2>1, <2>3, <3>2, <4>1 DEF TypeOK, RowOK, Running
    <3>3. CASE p # r
      BY <1>1, <1>7, <2>1, <2>3, <3>3 DEF TypeOK, RowOK, Running
    <3> QED  BY <3>1, <3>2, <3>3
  <2> QED  BY <1>6, <2>2, <2>3
<1> QED  BY <1>1, <1>8, <1>9, <1>10 DEF LockInv, StockNeverNegative

(* A transaction that ends, with the rows it wrote, if any.                *)
LEMMA EndsStep ==
  ASSUME TypeOK, LockInv, NEW t \in Tx, Ends(t),
         step[t] \in {"sessao", "ler", "travar"},
         UNCHANGED <<request, pos, loaded, cache, moved>>,
         history' \in [Physical -> Int],
         \/ stock' = stock
         \/ stock' = [p \in Physical |-> IF rowHolder[p] = t THEN cache[t][p] ELSE stock[p]]
  PROVE  TypeOK' /\ LockInv'
<1>1. /\ step' = [step EXCEPT ![t] = "fim"]
      /\ sessionHolder' = IF sessionHolder = t THEN NoTx ELSE sessionHolder
      /\ rowHolder' = [p \in Physical |-> IF rowHolder[p] = t THEN NoTx ELSE rowHolder[p]]
  BY DEF Ends
<1>2. stock' \in [Physical -> Int]
  BY DEF TypeOK
<1>3. TypeOK'
  BY <1>1, <1>2 DEF TypeOK, Step
<1>4. \A p \in Physical : stock'[p] >= 0 /\ (rowHolder[p] # t => stock'[p] = stock[p])
  BY DEF LockInv, StockNeverNegative, RowOK
<1>5. ASSUME NEW u \in Tx PROVE RequestOK(u)'
  BY <1>1, TxAssumption DEF TypeOK, LockInv, RequestOK, Running, Working, Row, Current
<1>6. ASSUME NEW u \in Tx, NEW p \in Physical PROVE RowOK(u, p)'
  <2>1. RowOK(u, p) /\ ReadsEarly(u, p)' = ReadsEarly(u, p)
    BY DEF LockInv, ReadsEarly
  <2>2. CASE u = t
    BY <1>1, <2>1, <2>2, TxAssumption DEF TypeOK, RowOK, Running
  <2>3. CASE u # t
    BY <1>1, <1>4, <2>1, <2>3, TxAssumption DEF TypeOK, RowOK, Running
  <2> QED  BY <2>2, <2>3
<1> QED  BY <1>3, <1>4, <1>5, <1>6 DEF LockInv, StockNeverNegative

LEMMA ProceedStep ==
  ASSUME TypeOK, LockInv, NEW t \in Tx, Proceed(t)
  PROVE  TypeOK' /\ LockInv'
<1>1. CASE TakeSession(t)
  BY <1>1, TakeSessionStep
<1>2. CASE Load(t)
  BY <1>2, LoadStep
<1>3. CASE Take(t)
  BY <1>3, TakeStep
<1>4. CASE Overwrite(t)
  BY <1>4, OverwriteStep
<1>5. CASE Commit(t)
  <2>1. history' \in [Physical -> Int]
    BY <1>5 DEF Commit, TypeOK
  <2> QED  BY <1>5, <2>1, EndsStep DEF Commit
<1>6. CASE Refuse(t)
  BY <1>6, EndsStep DEF Refuse, dataVars, TypeOK
<1>7. CASE DeadlockVictim(t)
  <2>1. step[t] \in {"sessao", "travar"}
    BY <1>7 DEF DeadlockVictim, Deadlocked, WaitsFor
  <2> QED  BY <1>7, <2>1, EndsStep DEF DeadlockVictim, dataVars, TypeOK
<1> QED  BY <1>1, <1>2, <1>3, <1>4, <1>5, <1>6, <1>7 DEF Proceed

LEMMA StutterStep ==
  ASSUME TypeOK, LockInv, UNCHANGED vars
  PROVE  TypeOK' /\ LockInv'
<1>1. UNCHANGED <<stock, history, sessionHolder, rowHolder, step, request, pos, loaded, cache, moved>>
  BY DEF vars, dataVars, lockVars, txVars
<1>2. TypeOK'
  BY <1>1 DEF TypeOK
<1>3. ASSUME NEW u \in Tx PROVE RequestOK(u)'
  BY <1>1 DEF LockInv, RequestOK, Running, Working, Row, Current
<1>4. ASSUME NEW u \in Tx, NEW p \in Physical PROVE RowOK(u, p)'
  BY <1>1 DEF LockInv, RowOK, Running, ReadsEarly
<1> QED  BY <1>1, <1>2, <1>3, <1>4 DEF LockInv, StockNeverNegative

(* What every mixture of requests keeps.                                   *)
THEOREM LocksCorrect == Spec => [](TypeOK /\ LockInv)
<1>1. Init => TypeOK /\ LockInv
  BY InitHolds
<1>2. TypeOK /\ LockInv /\ [Next]_vars => TypeOK' /\ LockInv'
  BY ArriveStep, ProceedStep, StutterStep DEF Next, Quiet
<1> QED  BY <1>1, <1>2, PTL DEF Spec

(* Stock numbers and identity maps keep their ranges.                      *)
THEOREM TypeCorrect == Spec => []TypeOK
BY LocksCorrect, PTL

(* Whatever interleaves, the stock is never committed negative.            *)
THEOREM NeverNegative == Spec => []StockNeverNegative
<1>1. LockInv => StockNeverNegative
  BY DEF LockInv
<1> QED  BY <1>1, LocksCorrect, PTL

(* A row first read under its lock is current until the commit.            *)
THEOREM LockedReads == Spec => []LockedReadsAreCurrent
<1>1. LockInv => LockedReadsAreCurrent
  BY DEF LockInv, RowOK, Running, LockedReadsAreCurrent
<1> QED  BY <1>1, LocksCorrect, PTL
-----------------------------------------------------------------------------
(* From here on every request holds the cash session, as a sale, a close,  *)
(* a cancellation and a refund do.                                         *)
AllHoldSession == \A r \in Requests : HoldsSession(r.kind)

(* What a running request has loaded is current, locked or not.            *)
LoadedCurrent(t, p) ==
  Running(t) /\ p \in loaded[t] => cache[t][p] = stock[p] + moved[t][p]

SerialInv ==
  /\ TypeOK /\ LockInv
  /\ \A t \in Tx, p \in Physical : LoadedCurrent(t, p)
  /\ StockMatchesHistory

(* Requests run one at a time: the others have not loaded anything.        *)
LEMMA OneRuns ==
  ASSUME AllHoldSession, TypeOK, LockInv, NEW t \in Tx, Running(t)
  PROVE  /\ sessionHolder = t
         /\ HoldsSession(request[t].kind)
         /\ \A u \in Tx : Running(u) => u = t
<1>1. ASSUME NEW u \in Tx, Running(u)
      PROVE  HoldsSession(request[u].kind) /\ sessionHolder = u
  BY <1>1 DEF AllHoldSession, LockInv, RequestOK, Running
<1> QED  BY <1>1

(* Before its commit a request changes its own view only.                  *)
LEMMA SerialLoad ==
  ASSUME AllHoldSession, SerialInv, NEW t \in Tx, Load(t),
         NEW u \in Tx, NEW p \in Physical
  PROVE  LoadedCurrent(u, p)'
<1>1. PICK rows \in SUBSET Physical :
        /\ rows \cap loaded[t] = {}
        /\ loaded' = [loaded EXCEPT ![t] = @ \cup rows]
        /\ cache' = [cache EXCEPT ![t] =
             [x \in Physical |-> IF x \in rows THEN stock[x] ELSE @[x]]]
  BY LoadEffect DEF SerialInv
<1>2. /\ step[t] = "ler" /\ step' = [step EXCEPT ![t] = "travar"]
      /\ UNCHANGED <<stock, moved>>
  BY DEF Load, dataVars
<1>3. RowOK(t, p) /\ LoadedCurrent(u, p)
  BY DEF SerialInv, LockInv
<1>4. CASE u = t /\ p \in rows
  <2>1. moved[t][p] = 0
    BY <1>1, <1>2, <1>3, <1>4 DEF RowOK, Running
  <2>2. cache'[t][p] = stock[p] /\ stock[p] \in Int
    BY <1>1, <1>4 DEF SerialInv, TypeOK
  <2> QED  BY <1>2, <1>4, <2>1, <2>2 DEF LoadedCurrent
<1>5. CASE ~(u = t /\ p \in rows)
  BY <1>1, <1>2, <1>3, <1>5 DEF SerialInv, TypeOK, LoadedCurrent, Running
<1> QED  BY <1>4, <1>5

LEMMA SerialTake ==
  ASSUME AllHoldSession, SerialInv, NEW t \in Tx, Take(t),
         NEW u \in Tx, NEW p \in Physical
  PROVE  LoadedCurrent(u, p)'
<1> DEFINE r == Row(t)
           n == Units(Current(t))
           s == Seen(t)
<1>1. /\ step[t] = "travar" /\ step' = [step EXCEPT ![t] = "ler"]
      /\ loaded' = [loaded EXCEPT ![t] = @ \cup {r}]
      /\ cache' = [cache EXCEPT ![t][r] = s + n]
      /\ moved' = [moved EXCEPT ![t][r] = @ + n]
      /\ stock' = stock
  BY DEF Take, dataVars
<1>2. r \in Physical /\ n \in Int /\ s \in Int
  BY EntryTypes, <1>1 DEF SerialInv, LockInv, RequestOK
<1>3. LoadedCurrent(u, p)
  BY DEF SerialInv
<1>4. s = stock[r] + moved[t][r]
  <2>1. RowOK(t, r) /\ LoadedCurrent(t, r)
    BY <1>2 DEF SerialInv, LockInv
  <2>2. stock[r] \in Int
    BY <1>2 DEF SerialInv, TypeOK
  <2> QED  BY <1>1, <2>1, <2>2 DEF LoadedCurrent, RowOK, Running, Seen
<1> HIDE DEF r, n, s
<1>5. CASE u = t /\ p = r
  <2>1. cache'[t][p] = s + n /\ moved'[t][p] = moved[t][p] + n
    BY <1>1, <1>2, <1>5 DEF SerialInv, TypeOK
  <2>2. stock[p] \in Int /\ moved[t][p] \in Int
    BY DEF SerialInv, TypeOK
  <2> QED  BY <1>1, <1>2, <1>4, <1>5, <2>1, <2>2 DEF LoadedCurrent
<1>6. CASE ~(u = t /\ p = r)
  BY <1>1, <1>2, <1>3, <1>6 DEF SerialInv, TypeOK, LoadedCurrent, Running
<1> QED  BY <1>5, <1>6

(* A commit changes the stock by what the request moved.                   *)
LEMMA SerialCommit ==
  ASSUME AllHoldSession, SerialInv, NEW t \in Tx, Commit(t)
  PROVE  /\ \A p \in Physical : /\ history'[p] = history[p] + moved[t][p]
                                /\ stock'[p] = stock[p] + moved[t][p]
         /\ \A u \in Tx : ~Running(u)'
<1>1. /\ step[t] = "ler" /\ step' = [step EXCEPT ![t] = "fim"]
      /\ stock' = [p \in Physical |-> IF rowHolder[p] = t THEN cache[t][p] ELSE stock[p]]
      /\ history' = [p \in Physical |-> history[p] + moved[t][p]]
  BY DEF Commit, Ends
<1>2. Running(t)
  BY <1>1 DEF Running
<1>3. ASSUME NEW p \in Physical
      PROVE  history'[p] = history[p] + moved[t][p] /\ stock'[p] = stock[p] + moved[t][p]
  <2>1. RowOK(t, p) /\ LoadedCurrent(t, p) /\ stock[p] \in Int
    BY DEF SerialInv, LockInv, TypeOK
  <2> QED  BY <1>1, <1>2, <2>1 DEF RowOK, LoadedCurrent
<1>4. ASSUME NEW u \in Tx PROVE ~Running(u)'
  BY <1>1, <1>2, OneRuns DEF SerialInv, TypeOK, Running
<1> QED  BY <1>3, <1>4

(* Only a commit touches what the others see.                              *)
LEMMA OnlyCommitMoves ==
  ASSUME AllHoldSession, SerialInv, [Next]_vars, ~(\E t \in Tx : Commit(t))
  PROVE  UNCHANGED dataVars
BY DEF Next, Proceed, Arrive, TakeSession, Load, Take, Refuse, Overwrite,
       DeadlockVictim, Quiet, vars

LEMMA SerialStep ==
  ASSUME AllHoldSession, SerialInv, [Next]_vars
  PROVE  SerialInv'
<1>1. TypeOK' /\ LockInv'
  BY ArriveStep, ProceedStep, StutterStep DEF Next, Quiet, SerialInv
<1>2. ASSUME NEW u \in Tx, NEW p \in Physical PROVE LoadedCurrent(u, p)'
  <2>1. LoadedCurrent(u, p)
    BY DEF SerialInv
  <2>2. CASE UNCHANGED vars
    BY <2>1, <2>2 DEF LoadedCurrent, Running, vars, dataVars, txVars
  <2>3. ASSUME NEW t \in Tx, Arrive(t) PROVE LoadedCurrent(u, p)'
    BY <2>1, <2>3 DEF Arrive, AllHoldSession, LoadedCurrent, Running, dataVars, SerialInv, TypeOK
  <2>4. ASSUME NEW t \in Tx, Proceed(t) PROVE LoadedCurrent(u, p)'
    <3>1. CASE TakeSession(t)
      <4>1. step[t] = "sessao" /\ loaded[t] = {}
        BY <3>1 DEF TakeSession, SerialInv, LockInv, RequestOK
      <4> QED  BY <2>1, <3>1, <4>1 DEF TakeSession, LoadedCurrent, Running, dataVars, SerialInv, TypeOK
    <3>2. CASE Load(t)
      BY <3>2, SerialLoad
    <3>3. CASE Take(t)
      BY <3>3, SerialTake
    <3>4. CASE Overwrite(t)
      <4>1. Running(t) /\ request[t].kind = "edicao"
        BY <3>4 DEF Overwrite, Running
      <4> QED  BY <4>1, OneRuns DEF SerialInv, HoldsSession
    <3>5. CASE Commit(t)
      BY <3>5, SerialCommit DEF LoadedCurrent
    <3>6. CASE Refuse(t)
      BY <2>1, <3>6 DEF Refuse, Ends, LoadedCurrent, Running, dataVars, SerialInv, TypeOK
    <3>7. CASE DeadlockVictim(t)
      BY <2>1, <3>7 DEF DeadlockVictim, Ends, LoadedCurrent, Running, dataVars, SerialInv, TypeOK
    <3> QED  BY <2>4, <3>1, <3>2, <3>3, <3>4, <3>5, <3>6, <3>7 DEF Proceed
  <2> QED  BY <2>2, <2>3, <2>4 DEF Next, Quiet
<1>3. StockMatchesHistory'
  <2>1. ASSUME NEW t \in Tx, Commit(t), NEW p \in Physical
        PROVE  stock'[p] = InitialStock[p] + history'[p]
    <3>1. /\ stock[p] = InitialStock[p] + history[p]
          /\ InitialStock[p] \in Int /\ history[p] \in Int /\ moved[t][p] \in Int
      BY ProductsAssumption DEF SerialInv, StockMatchesHistory, TypeOK
    <3>2. history'[p] = history[p] + moved[t][p] /\ stock'[p] = stock[p] + moved[t][p]
      BY <2>1, SerialCommit
    <3> QED  BY <3>1, <3>2
  <2>2. CASE UNCHANGED dataVars
    BY <2>2 DEF dataVars, SerialInv, StockMatchesHistory
  <2> QED  BY <2>1, <2>2, OnlyCommitMoves DEF StockMatchesHistory
<1> QED  BY <1>1, <1>2, <1>3 DEF SerialInv

LEMMA SerialInit ==
  ASSUME Init
  PROVE  SerialInv
<1>1. \A t \in Tx, p \in Physical : LoadedCurrent(t, p)
  BY DEF Init, LoadedCurrent, Running
<1>2. StockMatchesHistory
  BY ProductsAssumption DEF Init, Nothing, StockMatchesHistory
<1> QED  BY <1>1, <1>2, InitHolds DEF SerialInv

(* When every request holds the cash session, the stock is what the        *)
(* history of movements says it is.                                        *)
THEOREM SerialHistory ==
  ASSUME AllHoldSession
  PROVE  Spec => []StockMatchesHistory
<1>1. Init => SerialInv
  BY SerialInit
<1>2. SerialInv /\ [Next]_vars => SerialInv'
  BY SerialStep
<1>3. SerialInv => StockMatchesHistory
  BY DEF SerialInv
<1> QED  BY <1>1, <1>2, <1>3, PTL DEF Spec

(* And the requests implement the abstract shelf.                          *)
THEOREM SerialImplementsShelf ==
  ASSUME AllHoldSession
  PROVE  Spec => ImplementsShelf
<1>1. Init => SerialInv
  BY SerialInit
<1>2. SerialInv /\ [Next]_vars => SerialInv'
  BY SerialStep
<1>3. Init => Shelf!Init
  BY DEF Init, Shelf!Init, Nothing
<1>4. SerialInv /\ SerialInv' /\ [Next]_vars => [Shelf!Next]_<<stock, history>>
  <2> SUFFICES ASSUME SerialInv, SerialInv', [Next]_vars
               PROVE  [Shelf!Next]_<<stock, history>>
    OBVIOUS
  <2>1. ASSUME NEW t \in Tx, Commit(t) PROVE Shelf!Next
    <3> DEFINE d == [p \in Physical |-> history'[p] - history[p]]
    <3>1. ASSUME NEW p \in Physical
          PROVE  /\ history'[p] = history[p] + d[p] /\ stock'[p] = stock[p] + d[p]
                 /\ stock'[p] >= 0
      <4>1. history[p] \in Int /\ stock[p] \in Int /\ moved[t][p] \in Int
        BY DEF SerialInv, TypeOK
      <4>2. history'[p] = history[p] + moved[t][p] /\ stock'[p] = stock[p] + moved[t][p]
        BY <2>1, SerialCommit
      <4>3. stock'[p] >= 0
        BY DEF SerialInv, LockInv, StockNeverNegative
      <4> QED  BY <4>1, <4>2, <4>3
    <3>2. stock' = [p \in Physical |-> stock'[p]] /\ history' = [p \in Physical |-> history'[p]]
      BY DEF SerialInv, TypeOK
    <3>3. Shelf!Post(d)
      <4> HIDE DEF d
      <4> QED  BY <3>1, <3>2 DEF Shelf!Post
    <3> QED  BY <3>3 DEF Shelf!Next
  <2>2. CASE UNCHANGED dataVars
    BY <2>2 DEF dataVars
  <2> QED  BY <2>1, <2>2, OnlyCommitMoves
<1> QED  BY <1>1, <1>2, <1>3, <1>4, PTL DEF Spec, ImplementsShelf, Shelf!Spec
=============================================================================
