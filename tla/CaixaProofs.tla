----------------------------- MODULE CaixaProofs -----------------------------
(***************************************************************************)
(* Theorems about Caixa, for any number of requests, any settings and any  *)
(* number of sessions, restarts of the server included.                    *)
(*                                                                         *)
(* Three arguments.  From the advisory lock to the INSERT only its holder  *)
(* is an opener, so what it saw of the open sessions can only go away.     *)
(* A request works on a session that was open after its transaction began: *)
(* clocks only advance, so that session closes later than that.  And the   *)
(* row lock, in the second half: whoever holds the row of a session finds  *)
(* it open until its own commit.                                           *)
(***************************************************************************)
EXTENDS Caixa, SomasProofs

(* What the step of a process says of the session it works on.             *)
TargetOK(p) ==
  /\ target[p] \in 0..Len(sessions)
  /\ step[p] \in {"espera", "fecha"} => target[p] # 0
  /\ step[p] = "dentro" /\ Closes(p) => target[p] # 0
  /\ step[p] = "fecha" => Closes(p)
  /\ p # Scheduler => ~(op[p].kind \in {"auto_abrir", "auto_fechar"})
  /\ p = Scheduler => step[p] # "fim"

(* The clock has passed every date, and one session closed last.           *)
DatesOK ==
  /\ \A s \in Ids : sessions[s].closed_at <= now
  /\ \A p \in Proc : born[p] <= now
  /\ \A r \in Req : row[r].created_at <= now
  /\ ClosedIds # {} =>
       \E s \in ClosedIds : \A t \in ClosedIds : sessions[t].closed_at <= sessions[s].closed_at

TypeInv == TypeOK /\ DatesOK /\ \A p \in Proc : TargetOK(p)

-----------------------------------------------------------------------------
(* The sums of the rows of a session.                                      *)
LEMMA SumsAreNatural ==
  ASSUME TypeOK, NEW s, NEW K
  PROVE  /\ Recorded(s, K) \in Nat /\ SinceOpening(s, K) \in Nat
         /\ Gross(s) \in Nat /\ CardFees(s) \in Nat
<1>1. Amounts \in [Req -> Nat]
  BY DEF TypeOK, Amounts, RecordedRow
<1>2. \A R : Where(Amounts, R) \in [Req -> Nat]
  BY <1>1 DEF Where
<1>3. \A R : SumF(Where(Amounts, R)) \in Nat
  BY <1>2, SumType, Caixa_Processes
<1>4. CardFees(s) \in Nat
  <2>1. Of(s, {"cartao"}) \subseteq Req
    BY DEF Of
  <2>2. IsFiniteSet(Of(s, {"cartao"}))
    BY <2>1, FS_Subset, Caixa_Processes
  <2>3. [r \in Of(s, {"cartao"}) |-> Fee] \in [Of(s, {"cartao"}) -> Nat]
    BY Caixa_Settings
  <2> QED
    BY <2>2, <2>3, SumType DEF CardFees
<1> QED
  BY <1>3, <1>4 DEF Recorded, SinceOpening, Gross

LEMMA SessionTypes ==
  ASSUME TypeOK, NEW s \in Ids
  PROVE  /\ sessions[s] \in Session
         /\ sessions[s].initial \in Int /\ sessions[s].final \in Int
         /\ sessions[s].closed_at \in Nat /\ sessions[s].open \in BOOLEAN
<1>1. sessions \in Seq(Session) /\ s \in 1..Len(sessions)
  BY DEF TypeOK, Ids
<1>2. sessions[s] \in Session
  BY <1>1
<1> QED
  BY <1>2 DEF Session

LEMMA InitialCashType ==
  ASSUME TypeInv, NEW p \in Proc PROVE InitialCash(p) \in Int
<1>1. op[p].amount \in Int
  BY DEF TypeInv, TypeOK, Operation
<1>2. CASE ClosedIds = {}
  BY <1>1, <1>2 DEF InitialCash
<1>3. CASE ClosedIds # {}
  <2>1. LastClosed \in ClosedIds
    BY <1>3 DEF TypeInv, DatesOK, LastClosed
  <2>2. LastClosed \in Ids
    BY <2>1 DEF ClosedIds
  <2> QED
    BY <1>1, <1>3, <2>2, SessionTypes DEF InitialCash, TypeInv
<1> QED
  BY <1>2, <1>3

LEMMA FinalCashType ==
  ASSUME TypeInv, NEW p \in Proc, target[p] \in Ids PROVE FinalCash(p) \in Int
<1>1. op[p].amount \in Int /\ counted \in Int
  BY DEF TypeInv, TypeOK, Operation
<1>2. sessions[target[p]].initial \in Int
  BY SessionTypes DEF TypeInv
<1>3. CashInflows(target[p]) \in Int
  BY SumsAreNatural DEF TypeInv, CashInflows
<1> QED
  BY <1>1, <1>2, <1>3 DEF FinalCash

LEMMA OpenSessionIs ==
  ASSUME TypeOK
  PROVE  /\ OpenSession = 0 => \A s \in Ids : ~sessions[s].open
         /\ OpenSession # 0 => OpenSession \in Ids /\ sessions[OpenSession].open
         /\ OpenSession \in 0..Len(sessions)
BY DEF TypeOK, Ids, OpenSession, OpenIds

(* The end of a transaction.                                               *)
LEMMA EndsTypes ==
  ASSUME TypeInv, NEW p \in Proc, Forgets(p)
  PROVE  /\ step' \in [Proc -> Steps] /\ op' \in [Proc -> Operation]
         /\ born' \in [Proc -> Nat] /\ target' \in [Proc -> Nat] /\ counted' \in Int
         /\ \A q \in Proc : born'[q] = born[q] \/ born'[q] = 0
         /\ \A q \in Proc \ {p} :
              step'[q] = step[q] /\ op'[q] = op[q] /\ born'[q] = born[q] /\ target'[q] = target[q]
         /\ step'[p] \in {"fim", "ocioso", "fechamento"} /\ target'[p] = 0 /\ born'[p] = 0
         /\ op'[p] = Idle
         /\ p = Scheduler => step'[p] # "fim"
<1>1. Idle \in Operation /\ NextStep(p) \in {"fim", "ocioso", "fechamento"}
  BY DEF Idle, Operation, Kind, NextStep
<1>2. p = Scheduler => NextStep(p) # "fim"
  BY DEF NextStep
<1> QED
  BY <1>1, <1>2 DEF TypeInv, TypeOK, Forgets, Steps

LEMMA UnlockedTypes ==
  ASSUME TypeInv, NEW p \in Proc
  PROVE  /\ Unlocked(p) \in Seq(Proc \cup {NoProc}) /\ Len(Unlocked(p)) = Len(sessions)
         /\ Released(p) \in Proc \cup {NoProc}
<1>1. rowHolder \in [1..Len(sessions) -> Proc \cup {NoProc}] /\ Len(sessions) \in Nat
  BY DEF TypeInv, TypeOK
<1>2. Unlocked(p) \in [1..Len(sessions) -> Proc \cup {NoProc}]
  BY <1>1 DEF Unlocked
<1>3. Unlocked(p) \in Seq(Proc \cup {NoProc}) /\ Len(Unlocked(p)) = Len(sessions)
  BY <1>1, <1>2
<1>4. Released(p) \in Proc \cup {NoProc}
  BY DEF Released, TypeInv, TypeOK
<1> QED
  BY <1>3, <1>4

LEMMA EndedTarget ==
  ASSUME TypeInv, NEW p \in Proc, Forgets(p), Len(sessions') \in Nat,
         Len(sessions) <= Len(sessions'), NEW q \in Proc
  PROVE  TargetOK(q)'
<1>1. Len(sessions) \in Nat /\ target[q] \in Nat
  BY DEF TypeInv, TypeOK
<1>2. CASE q = p
  <2>1. step'[p] \in {"fim", "ocioso", "fechamento"} /\ target'[p] = 0 /\ op'[p] = Idle
    BY EndsTypes
  <2>2. p = Scheduler => step'[p] # "fim"
    BY EndsTypes
  <2> QED
    BY <1>2, <2>1, <2>2 DEF TargetOK, Closes, Idle
<1>3. CASE q # p
  <2>1. step'[q] = step[q] /\ op'[q] = op[q] /\ target'[q] = target[q]
    BY <1>3, EndsTypes
  <2>2. TargetOK(q)
    BY DEF TypeInv
  <2> QED
    BY <1>1, <2>1, <2>2 DEF TargetOK, Closes
<1> QED
  BY <1>2, <1>3

(* A step that leaves the dates and the sessions alone.                    *)
LEMMA DatesKept ==
  ASSUME TypeInv, UNCHANGED <<sessions, row>>, now' \in {now, now + 1},
         \A q \in Proc : born'[q] \in {born[q], 0, now'}
  PROVE  DatesOK'
<1>1. now \in Nat /\ \A q \in Proc : born[q] <= now /\ born[q] \in Nat
  BY DEF TypeInv, TypeOK, DatesOK
<1>2. \A q \in Proc : born'[q] <= now'
  BY <1>1
<1>3. \A s \in Ids : sessions[s].closed_at <= now' /\ sessions[s].closed_at \in Nat
  BY <1>1, SessionTypes DEF TypeInv, DatesOK
<1>4. \A r \in Req : row[r].created_at <= now'
  <2>1. \A r \in Req : row[r].created_at \in Nat
    BY DEF TypeInv, TypeOK, RecordedRow
  <2> QED
    BY <1>1, <2>1 DEF TypeInv, DatesOK
<1>5. ClosedIds' = ClosedIds /\ Ids' = Ids
  BY DEF ClosedIds, Ids
<1> QED
  BY <1>2, <1>3, <1>4, <1>5 DEF DatesOK, TypeInv

(* A step that ends a transaction and leaves the tables and dates alone.   *)
LEMMA EndingKeepsTypes ==
  ASSUME TypeInv, NEW p \in Proc, Ends(p), UNCHANGED <<tables, now, minute>>
  PROVE  TypeInv'
<1>1. UNCHANGED <<sessions, position, openOrders, userThere, row, now, minute>>
  BY DEF tables
<1>2. Forgets(p) /\ openLock' = Released(p) /\ rowHolder' = Unlocked(p)
  BY DEF Ends
<1>3. TypeOK'
  BY <1>1, <1>2, UnlockedTypes, EndsTypes DEF TypeInv, TypeOK
<1>4. DatesOK'
  BY <1>1, <1>2, EndsTypes, DatesKept DEF TypeInv
<1>5. ASSUME NEW q \in Proc PROVE TargetOK(q)'
  BY <1>1, <1>2, EndsTypes, EndedTarget DEF TypeInv
<1> QED
  BY <1>3, <1>4, <1>5 DEF TypeInv

-----------------------------------------------------------------------------
LEMMA InitTypes == Init => TypeInv
<1> SUFFICES ASSUME Init PROVE TypeInv
  OBVIOUS
<1>1. Idle \in Operation /\ NoRow \in RecordedRow
  BY DEF Idle, Operation, Kind, NoRow, RecordedRow
<1>2. TypeOK
  BY <1>1, Caixa_Settings DEF Init, TypeOK, Steps
<1>3. DatesOK
  BY DEF Init, DatesOK, Ids, ClosedIds, NoRow
<1>4. \A p \in Proc : TargetOK(p)
  BY DEF Init, TargetOK, Closes, Idle
<1> QED
  BY <1>2, <1>3, <1>4 DEF TypeInv

(* The requests and the scheduler, one action each.                        *)
LEMMA ArriveTypes ==
  ASSUME TypeInv, NEW r \in Req, Arrive(r) PROVE TypeInv'
<1>1. PICK q \in Requests :
        /\ op' = [op EXCEPT ![r] = q]
        /\ step' = [step EXCEPT ![r] = IF q.kind = "abrir" THEN "fila" ELSE "procura"]
  BY DEF Arrive, Moves
<1>2. /\ born' = [born EXCEPT ![r] = now + 1] /\ now' = now + 1
      /\ UNCHANGED <<sessions, position, openOrders, userThere, row, openLock, rowHolder,
                     target, counted, minute>>
  BY DEF Arrive, tables, locks
<1>3. r \in Proc /\ r # Scheduler /\ q \in Operation
      /\ ~(q.kind \in {"auto_abrir", "auto_fechar"})
  BY Caixa_Processes, Caixa_Requests DEF Proc
<1>4. TypeOK'
  BY <1>1, <1>2, <1>3 DEF TypeInv, TypeOK, Steps
<1>5. DatesOK'
  BY <1>2, <1>3, DatesKept DEF TypeInv, TypeOK
<1>6. ASSUME NEW p \in Proc PROVE TargetOK(p)'
  BY <1>1, <1>2, <1>3 DEF TypeInv, TypeOK, TargetOK, Closes
<1> QED
  BY <1>4, <1>5, <1>6 DEF TypeInv

(* One process moves on and nothing else changes but locks and sessions it *)
(* has seen.                                                               *)
LEMMA MovingTypes ==
  ASSUME TypeInv, NEW p \in Proc, NEW to \in Steps \ {"fim"},
         step' = [step EXCEPT ![p] = to],
         target' \in [Proc -> Nat], \A q \in Proc \ {p} : target'[q] = target[q],
         TargetOK(p)',
         counted' \in Int, userThere' \in BOOLEAN,
         openLock' \in Proc \cup {NoProc},
         rowHolder' \in Seq(Proc \cup {NoProc}), Len(rowHolder') = Len(rowHolder),
         UNCHANGED <<sessions, position, openOrders, row, op, born, now, minute>>
  PROVE  TypeInv'
<1>1. TypeOK'
  BY DEF TypeInv, TypeOK
<1>2. DatesOK'
  BY DatesKept DEF TypeInv, TypeOK
<1>3. ASSUME NEW q \in Proc, q # p PROVE TargetOK(q)'
  BY <1>3 DEF TypeInv, TypeOK, TargetOK, Closes
<1> QED
  BY <1>1, <1>2, <1>3 DEF TypeInv

LEMMA QueueTypes ==
  ASSUME TypeInv, NEW p \in Proc, Queue(p) PROVE TypeInv'
<1>1. TargetOK(p)'
  BY DEF Queue, Moves, TypeInv, TypeOK, TargetOK, Closes, tables
<1> QED
  BY <1>1, MovingTypes DEF Queue, Moves, TypeInv, TypeOK, Steps, tables

LEMMA SeekTypes ==
  ASSUME TypeInv, NEW p \in Proc, Seek(p) PROVE TypeInv'
<1>1. OpenSession \in 0..Len(sessions) /\ Len(sessions) \in Nat
  BY OpenSessionIs DEF TypeInv, TypeOK
<1>2. Closes(p) => NeedsSession(p)
  BY DEF Closes, NeedsSession, Opens
<1>3. TargetOK(p)'
  BY <1>1, <1>2 DEF Seek, Moves, TypeInv, TypeOK, TargetOK, Closes, tables
<1> QED
  <2>1. PICK to \in {"espera", "dentro"} : step' = [step EXCEPT ![p] = to]
    BY DEF Seek, Moves
  <2>2. to \in Steps \ {"fim"}
    BY DEF Steps
  <2>3. /\ target' \in [Proc -> Nat]
        /\ \A q \in Proc \ {p} : target'[q] = target[q]
    BY <1>1 DEF Seek, TypeInv, TypeOK
  <2>4. UNCHANGED <<sessions, position, openOrders, userThere, row, openLock, rowHolder,
                    op, born, counted, now, minute>>
    BY DEF Seek, tables, locks
  <2> QED
    BY <1>3, <2>1, <2>2, <2>3, <2>4, MovingTypes DEF TypeInv, TypeOK

LEMMA EnterTypes ==
  ASSUME TypeInv, NEW p \in Proc, Enter(p) PROVE TypeInv'
<1>1. TargetOK(p)'
  BY DEF Enter, Moves, TypeInv, TypeOK, TargetOK, Closes, tables
<1>2. Movements(target[p]) \in Int
  BY SumsAreNatural DEF TypeInv, Movements
<1>3. target[p] \in DOMAIN rowHolder
  BY DEF Enter, TypeInv, TypeOK, TargetOK
<1>4. rowHolder' \in Seq(Proc \cup {NoProc}) /\ Len(rowHolder') = Len(rowHolder)
  BY <1>3 DEF Enter, TypeInv, TypeOK
<1> QED
  BY <1>1, <1>2, <1>4, MovingTypes DEF Enter, Moves, TypeInv, TypeOK, Steps, tables

LEMMA TooLateTypes ==
  ASSUME TypeInv, NEW p \in Proc, TooLate(p) PROVE TypeInv'
<1>1. CASE ~Opens(p)
  BY <1>1, EndingKeepsTypes DEF TooLate
<1>2. CASE Opens(p)
  <2>1. TargetOK(p)'
    BY <1>2 DEF TooLate, Moves, TypeInv, TypeOK, TargetOK, Closes, tables
  <2> QED
    BY <1>2, <2>1, MovingTypes DEF TooLate, Moves, TypeInv, TypeOK, Steps, tables, locks
<1> QED
  BY <1>1, <1>2

LEMMA NobodyOpenTypes ==
  ASSUME TypeInv, NEW p \in Proc, NobodyOpen(p) PROVE TypeInv'
<1>1. TargetOK(p)'
  BY DEF NobodyOpen, Moves, TypeInv, TypeOK, TargetOK, Closes
<1>2. /\ rowHolder' \in Seq(Proc \cup {NoProc}) /\ Len(rowHolder') = Len(rowHolder)
      /\ userThere' \in BOOLEAN
  BY UnlockedTypes DEF NobodyOpen, TypeInv, TypeOK
<1> QED
  BY <1>1, <1>2, MovingTypes DEF NobodyOpen, Moves, TypeInv, TypeOK, Steps

LEMMA InsertTypes ==
  ASSUME TypeInv, NEW p \in Proc, Insert(p) PROVE TypeInv'
<1>1. Forgets(p) /\ openLock' = Released(p)
      /\ UNCHANGED <<position, openOrders, userThere, row, now, minute>>
  BY DEF Insert
<1>2. CASE Collides
  <2>1. UNCHANGED sessions /\ rowHolder' = Unlocked(p)
    BY <1>2 DEF Insert
  <2> QED
    BY <1>1, <2>1, EndingKeepsTypes DEF Ends, tables
<1>3. CASE ~Collides
  <2> DEFINE new == [open |-> TRUE, initial |-> InitialCash(p), final |-> 0,
                     opened_at |-> born[p], closed_at |-> 0, by |-> p, closed_by |-> NoProc]
  <2>1. sessions' = Append(sessions, new) /\ rowHolder' = Append(Unlocked(p), NoProc)
    BY <1>3 DEF Insert
  <2>2. new \in Session
    BY InitialCashType DEF Session, TypeInv, TypeOK
  <2>3. sessions \in Seq(Session) /\ Len(sessions) \in Nat
    BY DEF TypeInv, TypeOK
  <2>4. /\ sessions' \in Seq(Session) /\ Len(sessions') = Len(sessions) + 1
        /\ \A s \in Ids : sessions'[s] = sessions[s]
        /\ sessions'[Len(sessions) + 1] = new
    <3> HIDE DEF new
    <3> QED
      BY <2>1, <2>2, <2>3 DEF Ids
  <2>5. rowHolder' \in Seq(Proc \cup {NoProc}) /\ Len(rowHolder') = Len(sessions')
    BY <2>1, <2>4, UnlockedTypes
  <2>6. TypeOK'
    BY <1>1, <2>4, <2>5, UnlockedTypes, EndsTypes DEF TypeInv, TypeOK
  <2>7. Ids' = Ids \cup {Len(sessions) + 1} /\ Ids = 1..Len(sessions)
    BY <2>3, <2>4 DEF Ids
  <2>8. ClosedIds' = ClosedIds
    BY <2>4, <2>7 DEF ClosedIds
  <2>9. DatesOK'
    <3>1. \A s \in ClosedIds : sessions'[s] = sessions[s]
      BY <2>4 DEF ClosedIds
    <3>2. \A s \in Ids' : sessions'[s].closed_at <= now
      BY <2>4, <2>7 DEF TypeInv, DatesOK, TypeOK
    <3>3. \A q \in Proc : born'[q] <= now
      <4>1. now \in Nat /\ \A q \in Proc : born[q] <= now
        BY DEF TypeInv, DatesOK, TypeOK
      <4>2. \A q \in Proc : born'[q] = born[q] \/ born'[q] = 0
        BY <1>1, EndsTypes
      <4> QED
        BY <4>1, <4>2
    <3> QED
      BY <1>1, <2>8, <3>1, <3>2, <3>3 DEF TypeInv, DatesOK
  <2>10. ASSUME NEW q \in Proc PROVE TargetOK(q)'
    BY <1>1, <2>3, <2>4, EndedTarget
  <2> QED
    BY <2>6, <2>9, <2>10 DEF TypeInv
<1> QED
  BY <1>2, <1>3

(* What a close writes.                                                    *)
LEMMA FinalizedSession ==
  ASSUME TypeInv, NEW p \in Proc, Finalize(p)
  PROVE  /\ target[p] \in Ids
         /\ sessions' \in Seq(Session) /\ Len(sessions') = Len(sessions)
         /\ Ids' = Ids
         /\ \A s \in Ids \ {target[p]} : sessions'[s] = sessions[s]
         /\ ~sessions'[target[p]].open /\ sessions'[target[p]].closed_at = now + 1
<1> DEFINE t == target[p]
           closed == [sessions[t] EXCEPT !.open = FALSE, !.final = FinalCash(p),
                                         !.closed_at = now + 1, !.closed_by = p]
<1>1. t \in Ids
  BY DEF Finalize, TypeInv, TypeOK, TargetOK, Ids
<1>2. sessions \in Seq(Session) /\ sessions[t] \in Session /\ Ids = 1..Len(sessions)
  BY <1>1, SessionTypes DEF TypeInv, TypeOK, Ids
<1>3. sessions' = [sessions EXCEPT ![t] = closed]
  BY DEF Finalize
<1>4. FinalCash(p) \in Int /\ now + 1 \in Nat
  BY <1>1, FinalCashType DEF TypeInv, TypeOK
<1>5. closed \in Session /\ ~closed.open /\ closed.closed_at = now + 1
  BY <1>2, <1>4 DEF Session
<1> HIDE DEF closed
<1>6. /\ sessions' \in Seq(Session) /\ Len(sessions') = Len(sessions)
      /\ \A s \in Ids \ {t} : sessions'[s] = sessions[s]
      /\ sessions'[t] = closed
  BY <1>1, <1>2, <1>3, <1>5
<1>7. Ids' = Ids
  BY <1>2, <1>6 DEF Ids
<1> QED
  BY <1>1, <1>5, <1>6, <1>7

LEMMA MovementTypes ==
  ASSUME NEW title \in {"fechamento", "taxa"}, NEW s \in Nat, NEW amount \in Nat
  PROVE  Movement(title, s, amount) \in Seq(PositionMovement)
<1> DEFINE m == [title |-> title, session |-> s, amount |-> amount]
<1>1. m \in PositionMovement
  BY DEF PositionMovement
<1>2. <<m>> \in Seq(PositionMovement) /\ <<>> \in Seq(PositionMovement)
  <2> HIDE DEF m
  <2> QED
    BY <1>1
<1> QED
  BY <1>2 DEF Movement

LEMMA FinalizeTypes ==
  ASSUME TypeInv, NEW p \in Proc, Finalize(p) PROVE TypeInv'
<1>1. /\ Forgets(p) /\ openLock' = Released(p) /\ rowHolder' = Unlocked(p)
      /\ now' = now + 1 /\ UNCHANGED <<openOrders, userThere, row, minute>>
  BY DEF Finalize, Ends
<1>2. position' \in Seq(PositionMovement)
  <2>1. target[p] \in Nat /\ position \in Seq(PositionMovement)
    BY DEF TypeInv, TypeOK
  <2>2. ClosingMovements(target[p]) \in Seq(PositionMovement)
    <3>1. Gross(target[p]) \in Nat /\ CardFees(target[p]) \in Nat
      BY SumsAreNatural DEF TypeInv
    <3>2. /\ Movement("fechamento", target[p], Gross(target[p])) \in Seq(PositionMovement)
          /\ Movement("taxa", target[p], CardFees(target[p])) \in Seq(PositionMovement)
      BY <2>1, <3>1, MovementTypes
    <3> QED
      BY <3>2 DEF ClosingMovements
  <2> QED
    BY <2>1, <2>2 DEF Finalize
<1>3. now \in Nat /\ minute \in Nat /\ openOrders \in Nat /\ userThere \in BOOLEAN
      /\ row \in [Req -> RecordedRow]
  BY DEF TypeInv, TypeOK
<1>4. TypeOK'
  BY <1>1, <1>2, <1>3, FinalizedSession, UnlockedTypes, EndsTypes DEF TypeOK
<1>5. \A s \in Ids : sessions[s].closed_at <= now /\ sessions[s].closed_at \in Nat
  BY SessionTypes DEF TypeInv, DatesOK
<1>6. \A s \in Ids : sessions'[s].closed_at <= now + 1
  BY <1>3, <1>5, FinalizedSession
<1>7. target[p] \in ClosedIds' /\ \A s \in ClosedIds' : s \in Ids
  BY FinalizedSession DEF ClosedIds
<1>8. DatesOK'
  <2>1. \A q \in Proc : born'[q] <= now'
    <3>1. \A q \in Proc : born[q] <= now /\ born[q] \in Nat
      BY DEF TypeInv, DatesOK, TypeOK
    <3>2. \A q \in Proc : born'[q] = born[q] \/ born'[q] = 0
      BY <1>1, EndsTypes
    <3> QED
      BY <1>1, <1>3, <3>1, <3>2
  <2>2. \A r \in Req : row'[r].created_at <= now'
    BY <1>1, <1>3 DEF TypeInv, DatesOK, RecordedRow
  <2>3. \A s \in ClosedIds' : sessions'[s].closed_at <= sessions'[target[p]].closed_at
    BY <1>6, <1>7, FinalizedSession
  <2> QED
    BY <1>1, <1>6, <1>7, <2>1, <2>2, <2>3, FinalizedSession DEF DatesOK
<1>9. ASSUME NEW q \in Proc PROVE TargetOK(q)'
  <2>1. Len(sessions') \in Nat /\ Len(sessions) <= Len(sessions')
    BY FinalizedSession DEF TypeInv, TypeOK
  <2> QED
    BY <1>1, <2>1, EndedTarget
<1> QED
  BY <1>4, <1>8, <1>9 DEF TypeInv

(* A step that ends a transaction and changes rows or comandas only.       *)
LEMMA RecordTypes ==
  ASSUME TypeInv, NEW p \in Proc, Record(p) \/ OpenOrder(p) PROVE TypeInv'
<1>1. /\ Forgets(p) /\ openLock' = Released(p) /\ rowHolder' = Unlocked(p)
      /\ UNCHANGED <<sessions, position, userThere, now, minute>>
  BY DEF Record, OpenOrder, Ends
<1>2. openOrders' \in Nat
  BY DEF Record, OpenOrder, OrderThere, TypeInv, TypeOK
<1>3. /\ row' \in [Req -> RecordedRow]
      /\ \A r \in Req : row'[r] = row[r] \/ row'[r].created_at = born[p]
  <2>1. CASE OpenOrder(p)
    BY <2>1 DEF OpenOrder, TypeInv, TypeOK
  <2>2. CASE Record(p)
    <3> DEFINE new == [session |-> target[p], kind |-> op[p].kind,
                       amount |-> op[p].amount, created_at |-> born[p]]
    <3>1. new \in RecordedRow /\ new.created_at = born[p]
      BY DEF RecordedRow, TypeInv, TypeOK, Operation
    <3>2. row' = [row EXCEPT ![p] = new]
      BY <2>2 DEF Record
    <3> HIDE DEF new
    <3> QED
      BY <3>1, <3>2 DEF TypeInv, TypeOK
  <2> QED
    BY <2>1, <2>2
<1>4. TypeOK'
  BY <1>1, <1>2, <1>3, UnlockedTypes, EndsTypes DEF TypeInv, TypeOK
<1>5. ClosedIds' = ClosedIds /\ Ids' = Ids
  BY <1>1 DEF ClosedIds, Ids
<1>6. DatesOK'
  <2>1. now \in Nat /\ \A q \in Proc : born[q] <= now
    BY DEF TypeInv, TypeOK, DatesOK
  <2>2. \A q \in Proc : born'[q] = born[q] \/ born'[q] = 0
    BY <1>1, EndsTypes
  <2>3. \A r \in Req : row'[r].created_at <= now
    BY <1>3, <2>1 DEF TypeInv, DatesOK
  <2> QED
    BY <1>1, <1>5, <2>1, <2>2, <2>3 DEF TypeInv, DatesOK
<1>7. ASSUME NEW q \in Proc PROVE TargetOK(q)'
  BY <1>1, EndedTarget DEF TypeInv, TypeOK
<1> QED
  BY <1>4, <1>6, <1>7 DEF TypeInv

LEMMA ClockTypes ==
  ASSUME TypeInv, Clock PROVE TypeInv'
<1>1. /\ step' = [step EXCEPT ![Scheduler] = IF @ = "ocioso" THEN "abertura" ELSE @]
      /\ minute' = minute + 1
      /\ UNCHANGED <<sessions, position, openOrders, userThere, row, openLock, rowHolder,
                     op, born, target, counted, now>>
  BY DEF Clock, tables, locks
<1>2. TypeOK'
  <2>1. step' \in [Proc -> Steps]
    BY <1>1 DEF TypeInv, TypeOK, Steps
  <2>2. minute' \in Nat
    BY <1>1 DEF TypeInv, TypeOK
  <2> QED
    BY <1>1, <2>1, <2>2 DEF TypeInv, TypeOK
<1>3. DatesOK'
  BY <1>1, DatesKept DEF TypeInv
<1>4. ASSUME NEW q \in Proc PROVE TargetOK(q)'
  BY <1>1, Caixa_Processes DEF TypeInv, TypeOK, TargetOK, Closes
<1> QED
  BY <1>2, <1>3, <1>4 DEF TypeInv

LEMMA TickTypes ==
  ASSUME TypeInv, Tick PROVE TypeInv'
<1>1. /\ step[Scheduler] \in {"abertura", "fechamento"}
      /\ \E to \in {"fila", "fechamento", "procura", "ocioso"} :
            step' = [step EXCEPT ![Scheduler] = to]
      /\ \E o \in {op[Scheduler], [kind |-> "auto_abrir", amount |-> 0],
                   [kind |-> "auto_fechar", amount |-> 0]} : op' = [op EXCEPT ![Scheduler] = o]
      /\ born' = born \/ (born' = [born EXCEPT ![Scheduler] = now + 1] /\ now' = now + 1)
      /\ now' \in {now, now + 1} /\ userThere' \in {userThere, TRUE}
      /\ UNCHANGED <<sessions, position, openOrders, row, openLock, rowHolder,
                     target, counted, minute>>
  BY DEF Tick, TickOpen, TickClose, Moves, tables, locks, TypeInv, TypeOK
<1>2. Scheduler \in Proc
  BY DEF Proc
<1>3. \A o \in {op[Scheduler], [kind |-> "auto_abrir", amount |-> 0],
               [kind |-> "auto_fechar", amount |-> 0]} : o \in Operation
  BY <1>2 DEF Operation, Kind, TypeInv, TypeOK
<1>4. op' \in [Proc -> Operation] /\ step' \in [Proc -> Steps]
  BY <1>1, <1>2, <1>3 DEF TypeInv, TypeOK, Steps
<1>5. TypeOK'
  <2>1. born' \in [Proc -> Nat] /\ now' \in Nat
    BY <1>1, <1>2 DEF TypeInv, TypeOK
  <2>2. userThere' \in BOOLEAN
    BY <1>1 DEF TypeInv, TypeOK
  <2> QED
    BY <1>1, <1>4, <2>1, <2>2 DEF TypeInv, TypeOK
<1>6. DatesOK'
  BY <1>1, <1>2, DatesKept DEF TypeInv, TypeOK
<1>7. ASSUME NEW q \in Proc PROVE TargetOK(q)'
  BY <1>1, <1>2, Caixa_Processes DEF TypeInv, TypeOK, TargetOK, Closes, Proc
<1> QED
  BY <1>5, <1>6, <1>7 DEF TypeInv

LEMMA RestartTypes ==
  ASSUME TypeInv, Restart PROVE TypeInv'
<1>1. UNCHANGED <<sessions, position, openOrders, userThere, row, now, minute>>
  BY DEF Restart, tables
<1>2. Idle \in Operation
  BY DEF Idle, Operation, Kind
<1>3. sessions \in Seq(Session) /\ Ids = 1..Len(sessions) /\ Len(sessions) \in Nat
  BY DEF TypeInv, TypeOK, Ids
<1>4. rowHolder' \in Seq(Proc \cup {NoProc}) /\ Len(rowHolder') = Len(sessions)
  BY <1>3 DEF Restart
<1>5. step' \in [Proc -> Steps]
  BY DEF Restart, Steps, TypeInv, TypeOK
<1>6. TypeOK'
  BY <1>1, <1>2, <1>4, <1>5 DEF Restart, TypeInv, TypeOK
<1>7. DatesOK'
  BY <1>1, DatesKept DEF Restart, TypeInv
<1>8. ASSUME NEW q \in Proc PROVE TargetOK(q)'
  <2>1. target'[q] = 0 /\ op'[q] = Idle /\ step'[q] \in {"ocioso", "fim"}
    BY DEF Restart, Running, TypeInv, TypeOK
  <2>2. q = Scheduler => step'[q] # "fim"
    BY DEF Restart, Running, TypeInv, TargetOK
  <2> QED
    BY <1>3, <2>1, <2>2 DEF TargetOK, Closes, Idle
<1> QED
  BY <1>6, <1>7, <1>8 DEF TypeInv

LEMMA NextTypes == TypeInv /\ [Next]_vars => TypeInv'
<1> SUFFICES ASSUME TypeInv, [Next]_vars PROVE TypeInv'
  OBVIOUS
<1>1. ASSUME NEW r \in Req, Arrive(r) PROVE TypeInv'
  BY <1>1, ArriveTypes
<1>2. ASSUME NEW p \in Proc, Queue(p) \/ Seek(p) \/ Enter(p) \/ TooLate(p) PROVE TypeInv'
  BY <1>2, QueueTypes, SeekTypes, EnterTypes, TooLateTypes
<1>3. ASSUME NEW p \in Proc, RegisterClosed(p) \/ AlreadyOpen(p) \/ CloseRefused(p)
                             \/ NothingToClose(p)
      PROVE  TypeInv'
  BY <1>3, EndingKeepsTypes DEF RegisterClosed, AlreadyOpen, CloseRefused, NothingToClose
<1>4. ASSUME NEW p \in Proc, Insert(p) \/ NobodyOpen(p) \/ Finalize(p) PROVE TypeInv'
  BY <1>4, InsertTypes, NobodyOpenTypes, FinalizeTypes
<1>5. ASSUME NEW p \in Proc, Record(p) \/ OpenOrder(p) PROVE TypeInv'
  BY <1>5, RecordTypes
<1>6. CASE Clock \/ Tick \/ Restart
  BY <1>6, ClockTypes, TickTypes, RestartTypes
<1>7. CASE UNCHANGED vars
  <2>1. UNCHANGED <<sessions, position, openOrders, userThere, row, openLock, rowHolder,
                    step, op, born, target, counted, now, minute>>
    BY <1>7 DEF vars, tables, locks, local
  <2> QED
    BY <2>1 DEF TypeInv, TypeOK, DatesOK, TargetOK, Ids, ClosedIds, Closes
<1> QED
  BY <1>1, <1>2, <1>3, <1>4, <1>5, <1>6, <1>7 DEF Next, Proceed

-----------------------------------------------------------------------------
(* The openers: whoever is past the advisory lock holds it, and what it    *)
(* knows of the open sessions stays true.                                  *)
OpenerOK(p) ==
  /\ step[p] \in {"procura", "espera", "dentro"} => openLock = p
  /\ step[p] = "espera" => \A s \in Ids : sessions[s].open => s = target[p]
  /\ step[p] = "dentro" => \A s \in Ids : ~sessions[s].open

OpenersInv ==
  /\ \A s, t \in Ids : sessions[s].open /\ sessions[t].open => s = t
  /\ \A p \in Proc : Opens(p) => OpenerOK(p)

(* Every step but an INSERT: sessions only close, and an opener that does  *)
(* not move keeps what it has.                                             *)
LEMMA OpenersKept ==
  ASSUME OpenersInv, Ids' = Ids, \A s \in Ids : sessions'[s].open => sessions[s].open,
         NEW p, \A q \in Proc \ {p} :
           /\ step'[q] = step[q] /\ op'[q] = op[q] /\ target'[q] = target[q]
           /\ openLock = q => openLock' = q,
         p \in Proc /\ Opens(p)' => OpenerOK(p)'
  PROVE  OpenersInv'
BY DEF OpenersInv, OpenerOK, Opens

(* The end of a transaction: its process opens nothing any more.           *)
LEMMA EndedOpener ==
  ASSUME TypeInv, OpenersInv, NEW p \in Proc, Forgets(p), openLock' = Released(p),
         Ids' = Ids, \A s \in Ids : sessions'[s].open => sessions[s].open
  PROVE  OpenersInv'
<1>1. ~Opens(p)'
  BY EndsTypes DEF Opens, Idle
<1>2. \A q \in Proc \ {p} : openLock = q => openLock' = q
  BY DEF Released
<1>3. \A q \in Proc \ {p} : step'[q] = step[q] /\ op'[q] = op[q] /\ target'[q] = target[q]
  BY EndsTypes
<1> QED
  BY <1>1, <1>2, <1>3, OpenersKept

LEMMA NextOpeners == TypeInv /\ OpenersInv /\ [Next]_vars => OpenersInv'
<1> SUFFICES ASSUME TypeInv, OpenersInv, [Next]_vars PROVE OpenersInv'
  OBVIOUS
<1>1. ASSUME NEW r \in Req, Arrive(r) PROVE OpenersInv'
  <2>1. PICK q \in Requests :
          /\ op' = [op EXCEPT ![r] = q]
          /\ step' = [step EXCEPT ![r] = IF q.kind = "abrir" THEN "fila" ELSE "procura"]
    BY <1>1 DEF Arrive, Moves
  <2>2. UNCHANGED <<sessions, openLock, target>> /\ r \in Proc
    BY <1>1 DEF Arrive, tables, locks, Proc
  <2>3. q.kind # "auto_abrir"
    BY Caixa_Requests
  <2>4. Opens(r)' => OpenerOK(r)'
    BY <2>1, <2>2, <2>3 DEF Opens, OpenerOK, TypeInv, TypeOK
  <2>5. \A p \in Proc \ {r} : step'[p] = step[p] /\ op'[p] = op[p]
    BY <2>1, <2>2 DEF TypeInv, TypeOK
  <2> QED
    BY <2>2, <2>4, <2>5, OpenersKept DEF Ids
<1>2. ASSUME NEW p \in Proc, Queue(p) PROVE OpenersInv'
  <2>1. openLock = NoProc /\ openLock' = p /\ step' = [step EXCEPT ![p] = "procura"]
        /\ UNCHANGED <<sessions, op, target>>
    BY <1>2 DEF Queue, MayOpen, Moves, tables
  <2>2. OpenerOK(p)'
    BY <2>1 DEF OpenerOK, TypeInv, TypeOK
  <2>3. \A q \in Proc \ {p} : step'[q] = step[q] /\ openLock # q
    BY <2>1, Caixa_Processes DEF TypeInv, TypeOK, Proc
  <2> QED
    BY <2>1, <2>2, <2>3, OpenersKept DEF Ids
<1>3. ASSUME NEW p \in Proc, Seek(p) PROVE OpenersInv'
  <2>1. /\ step[p] = "procura" /\ target' = [target EXCEPT ![p] = OpenSession]
        /\ step' = [step EXCEPT ![p] =
                      IF OpenSession # 0 /\ Locks(p) THEN "espera" ELSE "dentro"]
        /\ UNCHANGED <<sessions, openLock, op>>
    BY <1>3 DEF Seek, Moves, tables, locks
  <2>2. Opens(p) => Locks(p)
    BY DEF Opens, Locks
  <2>3. Opens(p) => openLock = p
    BY <2>1 DEF OpenersInv, OpenerOK
  <2>4. target'[p] = OpenSession
        /\ step'[p] = (IF OpenSession # 0 /\ Locks(p) THEN "espera" ELSE "dentro")
    BY <2>1 DEF TypeInv, TypeOK
  <2>5. CASE OpenSession = 0
    <3>1. \A s \in Ids : ~sessions[s].open
      BY <2>5, OpenSessionIs DEF TypeInv
    <3>2. Opens(p) => OpenerOK(p)'
      BY <2>1, <2>3, <2>4, <2>5, <3>1 DEF OpenerOK, Ids
    <3> QED
      BY <2>1, <3>2, OpenersKept DEF Ids, Opens, TypeInv, TypeOK
  <2>6. CASE OpenSession # 0
    <3>1. \A s \in Ids : sessions[s].open => s = OpenSession
      BY <2>6, OpenSessionIs DEF TypeInv, OpenersInv
    <3>2. Opens(p) => OpenerOK(p)'
      BY <2>1, <2>2, <2>3, <2>4, <2>6, <3>1 DEF OpenerOK, Ids
    <3> QED
      BY <2>1, <3>2, OpenersKept DEF Ids, Opens, TypeInv, TypeOK
  <2> QED
    BY <2>5, <2>6
<1>4. ASSUME NEW p \in Proc, Enter(p) \/ NobodyOpen(p) PROVE OpenersInv'
  <2>1. ~Opens(p) /\ UNCHANGED <<sessions, openLock, op, target>>
    BY <1>4 DEF Enter, NobodyOpen, tables, Opens, Closes
  <2>2. \A q \in Proc \ {p} : step'[q] = step[q]
    BY <1>4 DEF Enter, NobodyOpen, Moves, TypeInv, TypeOK
  <2> QED
    BY <2>1, <2>2, OpenersKept DEF Ids, Opens
<1>5. ASSUME NEW p \in Proc, TooLate(p) PROVE OpenersInv'
  <2>1. UNCHANGED sessions /\ step[p] = "espera" /\ ~sessions[target[p]].open
    BY <1>5 DEF TooLate, tables, StillOpen
  <2>2. CASE ~Opens(p)
    BY <1>5, <2>1, <2>2, EndedOpener DEF TooLate, Ends, Ids
  <2>3. CASE Opens(p)
    <3>1. step' = [step EXCEPT ![p] = "dentro"] /\ UNCHANGED <<openLock, op, target>>
      BY <1>5, <2>3 DEF TooLate, Moves, locks
    <3>2. openLock = p /\ \A s \in Ids : ~sessions[s].open
      BY <2>1, <2>3 DEF OpenersInv, OpenerOK
    <3>3. OpenerOK(p)'
      BY <2>1, <3>1, <3>2 DEF OpenerOK, Ids, TypeInv, TypeOK
    <3> QED
      BY <2>1, <3>1, <3>3, OpenersKept DEF Ids, TypeInv, TypeOK
  <2> QED
    BY <2>2, <2>3
<1>6. ASSUME NEW p \in Proc, RegisterClosed(p) \/ AlreadyOpen(p) \/ CloseRefused(p)
                             \/ NothingToClose(p) \/ Record(p) \/ OpenOrder(p)
      PROVE  OpenersInv'
  <2>1. UNCHANGED sessions /\ Ends(p)
    BY <1>6 DEF RegisterClosed, AlreadyOpen, CloseRefused, NothingToClose, Record, OpenOrder,
                tables
  <2> QED
    BY <2>1, EndedOpener DEF Ends, Ids
<1>7. ASSUME NEW p \in Proc, Insert(p) PROVE OpenersInv'
  <2>1. Forgets(p) /\ openLock' = Released(p) /\ Opens(p) /\ step[p] = "dentro"
    BY <1>7 DEF Insert
  <2>2. openLock = p /\ \A s \in Ids : ~sessions[s].open
    BY <2>1 DEF OpenersInv, OpenerOK
  <2>3. ASSUME NEW q \in Proc, Opens(q)' PROVE OpenerOK(q)'
    <3>1. q # p
      BY <2>1, <2>3, EndsTypes DEF Opens, Idle
    <3>2. step'[q] = step[q] /\ op'[q] = op[q]
      BY <2>1, <3>1, EndsTypes
    <3>3. ~(step[q] \in {"procura", "espera", "dentro"})
      BY <2>2, <2>3, <3>1, <3>2 DEF OpenersInv, OpenerOK, Opens
    <3> QED
      BY <3>2, <3>3 DEF OpenerOK
  <2>4. \A s, t \in Ids' : sessions'[s].open /\ sessions'[t].open => s = t
    <3>1. CASE Collides
      BY <1>7, <2>2, <3>1 DEF Insert, Ids
    <3>2. CASE ~Collides
      <4> DEFINE new == [open |-> TRUE, initial |-> InitialCash(p), final |-> 0,
                         opened_at |-> born[p], closed_at |-> 0, by |-> p, closed_by |-> NoProc]
      <4>1. sessions' = Append(sessions, new)
        BY <1>7, <3>2 DEF Insert
      <4>2. sessions \in Seq(Session) /\ Ids = 1..Len(sessions)
        BY DEF TypeInv, TypeOK, Ids
      <4> HIDE DEF new
      <4>3. /\ Ids' = Ids \cup {Len(sessions) + 1}
            /\ \A s \in Ids : sessions'[s] = sessions[s]
        BY <4>1, <4>2 DEF Ids
      <4> QED
        BY <2>2, <4>3
    <3> QED
      BY <3>1, <3>2
  <2> QED
    BY <2>3, <2>4 DEF OpenersInv
<1>8. ASSUME NEW p \in Proc, Finalize(p) PROVE OpenersInv'
  <2>1. Forgets(p) /\ openLock' = Released(p)
    BY <1>8 DEF Finalize, Ends
  <2>2. Ids' = Ids /\ \A s \in Ids : sessions'[s].open => sessions[s].open
    BY <1>8, FinalizedSession
  <2> QED
    BY <2>1, <2>2, EndedOpener
<1>9. CASE Clock \/ Tick
  <2>1. UNCHANGED <<sessions, openLock, target>>
    BY <1>9 DEF Clock, Tick, TickOpen, TickClose, tables, locks
  <2>2. \A q \in Proc \ {Scheduler} : step'[q] = step[q] /\ op'[q] = op[q]
    BY <1>9 DEF Clock, Tick, TickOpen, TickClose, Moves, TypeInv, TypeOK
  <2>3. Opens(Scheduler)' => OpenerOK(Scheduler)'
    <3>1. Scheduler \in Proc
      BY DEF Proc
    <3>2. CASE Clock
      BY <2>1, <3>1, <3>2 DEF Clock, Opens, OpenerOK, OpenersInv, Ids, TypeInv, TypeOK
    <3>3. CASE TickOpen
      BY <2>1, <3>1, <3>3 DEF TickOpen, Moves, Opens, OpenerOK, Ids, TypeInv, TypeOK
    <3>4. CASE TickClose
      BY <2>1, <3>1, <3>4 DEF TickClose, Moves, Opens, OpenerOK, Ids, TypeInv, TypeOK
    <3> QED
      BY <1>9, <3>2, <3>3, <3>4 DEF Tick
  <2> QED
    BY <2>1, <2>2, <2>3, OpenersKept DEF Ids
<1>10. CASE Restart
  <2>1. UNCHANGED sessions /\ \A q \in Proc : op'[q] = Idle
    BY <1>10 DEF Restart, tables
  <2> QED
    BY <2>1 DEF OpenersInv, Opens, Idle, Ids
<1>11. CASE UNCHANGED vars
  BY <1>11 DEF vars, tables, locks, local, OpenersInv, OpenerOK, Opens, Ids
<1> QED
  BY <1>1, <1>2, <1>3, <1>4, <1>5, <1>6, <1>7, <1>8, <1>9, <1>10, <1>11 DEF Next, Proceed

-----------------------------------------------------------------------------
(* The rows: session s was not over at the moment t.                       *)
Alive(s, t) == sessions[s].open \/ sessions[s].closed_at > t

LiveInv ==
  /\ \A p \in Proc : step[p] \in {"espera", "dentro", "fecha"} /\ target[p] # 0 =>
       Alive(target[p], born[p])
  /\ \A r \in Req : row[r].session # 0 =>
       row[r].session \in Ids /\ Alive(row[r].session, row[r].created_at)

(* A session that was alive at a past moment stays so.                     *)
SessionsKept ==
  \A s \in Ids :
    /\ s \in Ids'
    /\ \/ sessions'[s] = sessions[s]
       \/ sessions'[s].closed_at \in Nat /\ sessions'[s].closed_at > now

LEMMA LiveKept ==
  ASSUME TypeInv, LiveInv, SessionsKept,
         NEW p, \A q \in Proc \ {p} :
           step'[q] = step[q] /\ target'[q] = target[q] /\ born'[q] = born[q],
         p \in Proc /\ step'[p] \in {"espera", "dentro", "fecha"} /\ target'[p] # 0 =>
           Alive(target[p], born[p]) /\ target'[p] = target[p] /\ born'[p] = born[p]
           /\ target[p] # 0,
         \A r \in Req : \/ row'[r] = row[r]
                       \/ /\ row'[r].session = target[r] /\ row'[r].created_at = born[r]
                          /\ target[r] # 0 => Alive(target[r], born[r])
  PROVE  LiveInv'
<1>1. Ids = 1..Len(sessions) /\ \A q \in Proc : target[q] \in 0..Len(sessions)
  BY DEF TypeInv, TypeOK, TargetOK, Ids
<1>2. ASSUME NEW s \in Ids, NEW t \in Nat, t <= now, Alive(s, t) PROVE Alive(s, t)'
  <2>1. now \in Nat
    BY DEF TypeInv, TypeOK
  <2>2. CASE sessions'[s] = sessions[s]
    BY <1>2, <2>2 DEF Alive
  <2>3. CASE sessions'[s].closed_at \in Nat /\ sessions'[s].closed_at > now
    <3>1. sessions'[s].closed_at > t
      BY <1>2, <2>1, <2>3
    <3> QED
      BY <3>1 DEF Alive
  <2> QED
    BY <1>2, <2>2, <2>3 DEF SessionsKept
<1>3. \A q \in Proc : born[q] \in Nat /\ born[q] <= now
  BY DEF TypeInv, TypeOK, DatesOK
<1>4. \A r \in Req : row[r].created_at \in Nat /\ row[r].created_at <= now
  BY DEF TypeInv, TypeOK, DatesOK, RecordedRow
<1>5. ASSUME NEW q \in Proc, step'[q] \in {"espera", "dentro", "fecha"}, target'[q] # 0
      PROVE  Alive(target[q], born[q])' /\ target'[q] \in Ids
  <2>1. /\ target'[q] = target[q] /\ born'[q] = born[q] /\ target[q] # 0
        /\ Alive(target[q], born[q])
    BY <1>5 DEF LiveInv
  <2>2. target[q] \in Ids
    BY <1>1, <2>1
  <2> QED
    BY <1>2, <1>3, <2>1, <2>2 DEF Alive
<1>6. ASSUME NEW r \in Req, row'[r].session # 0
      PROVE  row'[r].session \in Ids' /\ Alive(row[r].session, row[r].created_at)'
  <2>0. r \in Proc
    BY DEF Proc
  <2>1. PICK s, t : /\ s = row'[r].session /\ t = row'[r].created_at
                    /\ s \in Ids /\ t \in Nat /\ t <= now /\ Alive(s, t)
    BY <1>1, <1>3, <1>4, <1>6, <2>0 DEF LiveInv
  <2> QED
    BY <1>2, <2>1 DEF Alive, SessionsKept
<1> QED
  BY <1>5, <1>6 DEF LiveInv

LEMMA NextLive == TypeInv /\ LiveInv /\ [Next]_vars => LiveInv'
<1> SUFFICES ASSUME TypeInv, LiveInv, [Next]_vars PROVE LiveInv'
  OBVIOUS
<1>1. UNCHANGED sessions => SessionsKept
  BY DEF SessionsKept, Ids
<1>2. ASSUME NEW p \in Proc, Forgets(p), SessionsKept, UNCHANGED row PROVE LiveInv'
  <2>1. \A q \in Proc \ {p} :
          step'[q] = step[q] /\ target'[q] = target[q] /\ born'[q] = born[q]
    BY <1>2, EndsTypes
  <2>2. ~(step'[p] \in {"espera", "dentro", "fecha"})
    BY <1>2, EndsTypes
  <2> QED
    BY <1>2, <2>1, <2>2, LiveKept
<1>3. ASSUME NEW r \in Req, Arrive(r) PROVE LiveInv'
  <2>1. UNCHANGED <<sessions, row, target>> /\ r \in Proc
        /\ \A q \in Proc \ {r} : step'[q] = step[q] /\ born'[q] = born[q]
    BY <1>3 DEF Arrive, Moves, tables, Proc, TypeInv, TypeOK
  <2>2. ~(step'[r] \in {"espera", "dentro", "fecha"})
    BY <1>3, <2>1 DEF Arrive, Moves, TypeInv, TypeOK
  <2> QED
    BY <1>1, <2>1, <2>2, LiveKept
<1>4. ASSUME NEW p \in Proc, Queue(p) \/ Enter(p) \/ NobodyOpen(p) PROVE LiveInv'
  <2>1. UNCHANGED <<sessions, row, target, born>>
        /\ \A q \in Proc \ {p} : step'[q] = step[q]
    BY <1>4 DEF Queue, Enter, NobodyOpen, Moves, tables, TypeInv, TypeOK
  <2>2. step'[p] \in {"espera", "dentro", "fecha"} => step[p] \in {"espera", "dentro", "fecha"}
    BY <1>4 DEF Queue, Enter, NobodyOpen, Moves, TypeInv, TypeOK
  <2> QED
    BY <1>1, <2>1, <2>2, LiveKept DEF LiveInv
<1>5. ASSUME NEW p \in Proc, Seek(p) PROVE LiveInv'
  <2>1. UNCHANGED <<sessions, row, born>> /\ target' = [target EXCEPT ![p] = OpenSession]
        /\ \A q \in Proc \ {p} : step'[q] = step[q]
    BY <1>5 DEF Seek, Moves, tables, TypeInv, TypeOK
  <2>2. target'[p] = OpenSession /\ \A q \in Proc \ {p} : target'[q] = target[q]
    BY <2>1 DEF TypeInv, TypeOK
  <2>3. OpenSession # 0 => Alive(OpenSession, born[p])
    BY OpenSessionIs DEF TypeInv, Alive
  <2> QED
    BY <2>1, <2>2, <2>3 DEF LiveInv, Alive, Ids
<1>6. ASSUME NEW p \in Proc, TooLate(p) PROVE LiveInv'
  <2>1. UNCHANGED <<sessions, row>> /\ step[p] = "espera"
    BY <1>6 DEF TooLate, tables
  <2>2. CASE ~Opens(p)
    BY <1>1, <1>2, <1>6, <2>1, <2>2 DEF TooLate, Ends
  <2>3. CASE Opens(p)
    <3>1. UNCHANGED <<target, born>> /\ \A q \in Proc \ {p} : step'[q] = step[q]
      BY <1>6, <2>3 DEF TooLate, Moves, TypeInv, TypeOK
    <3> QED
      BY <1>1, <2>1, <3>1, LiveKept DEF LiveInv
  <2> QED
    BY <2>2, <2>3
<1>7. ASSUME NEW p \in Proc, RegisterClosed(p) \/ AlreadyOpen(p) \/ CloseRefused(p)
                             \/ NothingToClose(p) \/ OpenOrder(p)
      PROVE  LiveInv'
  <2>1. UNCHANGED <<sessions, row>> /\ Forgets(p)
    BY <1>7 DEF RegisterClosed, AlreadyOpen, CloseRefused, NothingToClose, OpenOrder,
                tables, Ends
  <2> QED
    BY <1>1, <1>2, <2>1
<1>8. ASSUME NEW p \in Proc, Insert(p) PROVE LiveInv'
  <2>1. Forgets(p) /\ UNCHANGED row
    BY <1>8 DEF Insert
  <2>2. SessionsKept
    <3>1. CASE Collides
      BY <1>1, <1>8, <3>1 DEF Insert
    <3>2. CASE ~Collides
      <4> DEFINE new == [open |-> TRUE, initial |-> InitialCash(p), final |-> 0,
                         opened_at |-> born[p], closed_at |-> 0, by |-> p, closed_by |-> NoProc]
      <4>1. sessions' = Append(sessions, new)
        BY <1>8, <3>2 DEF Insert
      <4>2. sessions \in Seq(Session)
        BY DEF TypeInv, TypeOK
      <4> HIDE DEF new
      <4> QED
        BY <4>1, <4>2 DEF SessionsKept, Ids
    <3> QED
      BY <3>1, <3>2
  <2> QED
    BY <1>2, <2>1, <2>2
<1>9. ASSUME NEW p \in Proc, Finalize(p) PROVE LiveInv'
  <2>1. Forgets(p) /\ UNCHANGED row
    BY <1>9 DEF Finalize, Ends
  <2>2. SessionsKept
    BY <1>9, FinalizedSession DEF SessionsKept, TypeInv, TypeOK
  <2> QED
    BY <1>2, <2>1, <2>2
<1>10. ASSUME NEW p \in Proc, Record(p) PROVE LiveInv'
  <2>1. /\ Forgets(p) /\ UNCHANGED sessions /\ step[p] = "dentro"
        /\ row' = [row EXCEPT ![p] = [session |-> target[p], kind |-> op[p].kind,
                                     amount |-> op[p].amount, created_at |-> born[p]]]
    BY <1>10 DEF Record, Ends
  <2>2. \A r \in Req :
          \/ row'[r] = row[r]
          \/ r = p /\ row'[r].session = target[r] /\ row'[r].created_at = born[r]
    <3> DEFINE new == [session |-> target[p], kind |-> op[p].kind,
                       amount |-> op[p].amount, created_at |-> born[p]]
    <3>1. new.session = target[p] /\ new.created_at = born[p]
      OBVIOUS
    <3>2. row' = [row EXCEPT ![p] = new]
      BY <2>1
    <3> HIDE DEF new
    <3>3. \A r \in Req : row'[r] = IF r = p THEN new ELSE row[r]
      BY <3>2 DEF TypeInv, TypeOK
    <3> QED
      BY <3>1, <3>3
  <2>3. target[p] # 0 => Alive(target[p], born[p])
    BY <2>1 DEF LiveInv
  <2>4. \A q \in Proc \ {p} :
          step'[q] = step[q] /\ target'[q] = target[q] /\ born'[q] = born[q]
    BY <2>1, EndsTypes
  <2>5. ~(step'[p] \in {"espera", "dentro", "fecha"})
    BY <2>1, EndsTypes
  <2> QED
    BY <1>1, <2>1, <2>2, <2>3, <2>4, <2>5, LiveKept
<1>11. CASE Clock \/ Tick
  <2>1. UNCHANGED <<sessions, row, target>>
    BY <1>11 DEF Clock, Tick, TickOpen, TickClose, tables
  <2>2. Scheduler \in Proc
    BY DEF Proc
  <2>3. \A q \in Proc \ {Scheduler} : step'[q] = step[q] /\ born'[q] = born[q]
    BY <1>11 DEF Clock, Tick, TickOpen, TickClose, Moves, TypeInv, TypeOK
  <2>4. step'[Scheduler] \in {"espera", "dentro", "fecha"} =>
          step'[Scheduler] = step[Scheduler] /\ born'[Scheduler] = born[Scheduler]
    BY <1>11, <2>2 DEF Clock, Tick, TickOpen, TickClose, Moves, TypeInv, TypeOK
  <2> QED
    BY <1>1, <2>1, <2>3, <2>4, LiveKept DEF LiveInv
<1>12. CASE Restart
  <2>1. UNCHANGED <<sessions, row>> /\ \A q \in Proc : target'[q] = 0
    BY <1>12 DEF Restart, tables
  <2> QED
    BY <2>1 DEF LiveInv, Alive, Ids
<1>13. CASE UNCHANGED vars
  BY <1>13 DEF vars, tables, local, LiveInv, Alive, Ids
<1> QED
  BY <1>3, <1>4, <1>5, <1>6, <1>7, <1>8, <1>9, <1>10, <1>11, <1>12, <1>13 DEF Next, Proceed

-----------------------------------------------------------------------------
(* Caixa is well typed: every session, movement and sum is of its kind.    *)
THEOREM TypeCorrect == Spec => []TypeOK
<1>1. TypeInv => TypeOK
  BY DEF TypeInv
<1> QED
  BY <1>1, InitTypes, NextTypes, PTL DEF Spec

(* open_cash_register and auto_open_cash_register: the advisory lock is    *)
(* enough, the unique index is never hit.                                  *)
THEOREM InsertsNeverCollide == Spec => []InsertNeverCollides
<1>1. Init => OpenersInv
  BY DEF Init, OpenersInv, Ids, Opens, Idle
<1>2. OpenersInv => InsertNeverCollides
  BY DEF OpenersInv, OpenerOK, InsertNeverCollides, Collides, OpenIds
<1>3. TypeInv /\ OpenersInv /\ [Next]_vars => (TypeInv /\ OpenersInv)'
  BY NextTypes, NextOpeners
<1>4. Init => TypeInv /\ OpenersInv
  BY <1>1, InitTypes
<1> QED
  BY <1>2, <1>3, <1>4, PTL DEF Spec

-----------------------------------------------------------------------------
(* What a close leaves behind, for any requests, settings and number of    *)
(* sessions, restarts included, once the user "sistema" exists (with the   *)
(* first automatic close that creates it, a session can be closed twice).  *)
(*                                                                         *)
(* The argument is the row lock: whoever records on a session or closes it *)
(* holds its row and finds it open, so a closed session is out of reach,   *)
(* and the movements that the scheduler counted stay the movements of the  *)
(* session until it has closed it.                                         *)


(* Who works under the lock of a session's row.                            *)
UnderLock(p) == Locks(p) /\ ~Opens(p) /\ step[p] \in {"dentro", "fecha"}

HolderOK(p) ==
  UnderLock(p) => target[p] \in Ids /\ rowHolder[target[p]] = p /\ sessions[target[p]].open

(* What the scheduler is at, and what it has counted.                      *)
SchedulerOK ==
  /\ op[Scheduler].kind \in {"auto_abrir", "auto_fechar", "diaria"}
  /\ UnderLock(Scheduler) => counted = Movements(target[Scheduler])

(* A request records once, in its last step.                               *)
OnceOK(r) == step[r] # "fim" => row[r].session = 0

LockInv ==
  /\ userThere
  /\ \A p \in Proc : HolderOK(p)
  /\ SchedulerOK
  /\ \A r \in Req : OnceOK(r)

-----------------------------------------------------------------------------
(* The sums of a session look at its rows only.                            *)
LEMMA RowsKept ==
  ASSUME TypeOK, TypeOK', NEW s, NEW K,
         \A r \in Req : \/ row'[r] = row[r]
                        \/ /\ ~(row[r].session = s /\ row[r].kind \in K)
                           /\ ~(row'[r].session = s /\ row'[r].kind \in K)
  PROVE  /\ Recorded(s, K)' = Recorded(s, K)
         /\ sessions'[s].opened_at = sessions[s].opened_at =>
              SinceOpening(s, K)' = SinceOpening(s, K)
<1> DEFINE Since == {r \in Of(s, K) : row[r].created_at >= sessions[s].opened_at}
<1>1. Of(s, K)' = Of(s, K) /\ \A r \in Of(s, K) : row'[r] = row[r]
  BY DEF Of
<1>2. ASSUME NEW R, R \subseteq Of(s, K)
      PROVE  Where(Amounts', R) = Where(Amounts, R)
  <2>1. \A r \in R : Amounts'[r] = Amounts[r]
    BY <1>1, <1>2 DEF Amounts, Of
  <2>2. DOMAIN Amounts' = Req /\ DOMAIN Amounts = Req
    BY DEF Amounts
  <2> QED  BY <2>1, <2>2 DEF Where
<1>3. Recorded(s, K)' = Recorded(s, K)
  <2>1. Recorded(s, K)' = SumF(Where(Amounts', Of(s, K)'))
    BY DEF Recorded, SumF, Tokens, Where
  <2> QED  BY <1>1, <1>2, <2>1 DEF Recorded
<1>4. ASSUME sessions'[s].opened_at = sessions[s].opened_at
      PROVE  SinceOpening(s, K)' = SinceOpening(s, K)
  <2>1. Since' = Since
    BY <1>1, <1>4
  <2>2. SinceOpening(s, K)' = SumF(Where(Amounts', Since'))
    BY DEF SinceOpening, SumF, Tokens, Where
  <2>3. Since \subseteq Of(s, K)
    OBVIOUS
  <2>4. SinceOpening(s, K) = SumF(Where(Amounts, Since))
    BY DEF SinceOpening
  <2> QED  BY <1>2, <2>1, <2>2, <2>3, <2>4
<1> QED  BY <1>3, <1>4

(* A row recorded on another session, or one that no sum of the drawer     *)
(* counts, leaves the drawer of s as it was.                               *)
LEMMA DrawerKept ==
  ASSUME TypeOK, TypeOK', NEW s,
         \A r \in Req : \/ row'[r] = row[r]
                        \/ /\ row[r].session # s
                           /\ row'[r].session # s \/ row'[r].kind = "diaria"
  PROVE  /\ Movements(s)' = Movements(s)
         /\ sessions'[s].opened_at = sessions[s].opened_at => CashInflows(s)' = CashInflows(s)
<1>1. ASSUME NEW K, "diaria" \notin K
      PROVE  /\ Recorded(s, K)' = Recorded(s, K)
             /\ sessions'[s].opened_at = sessions[s].opened_at =>
                  SinceOpening(s, K)' = SinceOpening(s, K)
  BY <1>1, RowsKept
<1>2. /\ Recorded(s, {"suprimento"})' = Recorded(s, {"suprimento"})
      /\ Recorded(s, {"sangria"})' = Recorded(s, {"sangria"})
  BY <1>1
<1>3. sessions'[s].opened_at = sessions[s].opened_at =>
        /\ SinceOpening(s, {"dinheiro", "encerrar"})' = SinceOpening(s, {"dinheiro", "encerrar"})
        /\ SinceOpening(s, {"estorno"})' = SinceOpening(s, {"estorno"})
  BY <1>1
<1> QED  BY <1>2, <1>3 DEF Movements, CashInflows

-----------------------------------------------------------------------------
(* The locks.  A step of process p that leaves to the others the rows they *)
(* hold, and the drawer of the session the scheduler has counted.          *)
LEMMA LocksKept ==
  ASSUME TypeInv, LockInv, NEW p, userThere',
         \A q \in Proc \ {p} :
           step'[q] = step[q] /\ op'[q] = op[q] /\ target'[q] = target[q],
         \A s \in Ids : s \in Ids',
         \A q \in Proc \ {p} : \A s \in Ids : rowHolder[s] = q =>
           /\ rowHolder'[s] = q /\ (sessions[s].open => sessions'[s].open)
           /\ q = Scheduler => Movements(s)' = Movements(s),
         p \in Proc => HolderOK(p)',
         p = Scheduler => SchedulerOK',
         p # Scheduler => counted' = counted,
         \A r \in Req : OnceOK(r)'
  PROVE  LockInv'
<1>1. ASSUME NEW q \in Proc, q # p PROVE HolderOK(q)'
  <2>1. UnderLock(q)' <=> UnderLock(q)
    BY <1>1 DEF UnderLock, Locks, Opens
  <2>2. HolderOK(q)
    BY DEF LockInv
  <2> QED  BY <1>1, <2>1, <2>2 DEF HolderOK
<1>2. ASSUME p # Scheduler PROVE SchedulerOK'
  <2>1. Scheduler \in Proc \ {p}
    BY <1>2 DEF Proc
  <2>2. UnderLock(Scheduler)' <=> UnderLock(Scheduler)
    BY <2>1 DEF UnderLock, Locks, Opens
  <2>3. PICK s : s = target[Scheduler]
    OBVIOUS
  <2>4. ASSUME UnderLock(Scheduler) PROVE counted' = Movements(s)'
    <3>1. s \in Ids /\ rowHolder[s] = Scheduler /\ counted = Movements(s)
      BY <2>1, <2>3, <2>4 DEF LockInv, HolderOK, SchedulerOK
    <3> QED  BY <1>2, <2>1, <3>1
  <2>5. target'[Scheduler] = s
    BY <2>1, <2>3
  <2>6. op'[Scheduler].kind \in {"auto_abrir", "auto_fechar", "diaria"}
    BY <2>1 DEF LockInv, SchedulerOK
  <2> QED  BY <2>2, <2>4, <2>5, <2>6 DEF SchedulerOK
<1> QED  BY <1>1, <1>2 DEF LockInv

(* The end of a transaction.                                               *)
LEMMA EndedLocks ==
  ASSUME TypeInv, LockInv, NEW p \in Proc, Forgets(p), UNCHANGED userThere,
         \A s \in Ids : s \in Ids' /\ rowHolder'[s] = Unlocked(p)[s],
         \A q \in Proc \ {p} : \A s \in Ids : rowHolder[s] = q =>
           /\ sessions[s].open => sessions'[s].open
           /\ q = Scheduler => Movements(s)' = Movements(s),
         \A r \in Req \ {p} : row'[r] = row[r]
  PROVE  LockInv'
<1>1. op'[p] = Idle /\ step'[p] \in {"fim", "ocioso", "fechamento"}
  BY EndsTypes
<1>2. \A q \in Proc \ {p} : step'[q] = step[q] /\ op'[q] = op[q] /\ target'[q] = target[q]
  BY EndsTypes
<1>3. ~UnderLock(p)'
  BY <1>1 DEF UnderLock
<1>4. HolderOK(p)' /\ (p = Scheduler => SchedulerOK')
  BY <1>1, <1>3 DEF HolderOK, SchedulerOK, Idle
<1>5. p # Scheduler => counted' = counted
  BY DEF Forgets
<1>6. ASSUME NEW r \in Req PROVE OnceOK(r)'
  <2>1. r \in Proc /\ r # Scheduler
    BY Caixa_Processes DEF Proc
  <2>2. CASE r = p
    <3>1. step'[p] = "fim"
      BY <2>1, <2>2 DEF Forgets, NextStep, TypeInv, TypeOK
    <3> QED  BY <2>2, <3>1 DEF OnceOK
  <2>3. CASE r # p
    BY <1>2, <2>1, <2>3 DEF OnceOK, LockInv
  <2> QED  BY <2>2, <2>3
<1>7. ASSUME NEW q \in Proc \ {p}, NEW s \in Ids, rowHolder[s] = q
      PROVE  rowHolder'[s] = q
  <2>1. s \in DOMAIN rowHolder
    BY DEF Ids, TypeInv, TypeOK
  <2> QED  BY <1>7, <2>1 DEF Unlocked
<1> QED  BY <1>2, <1>4, <1>5, <1>6, <1>7, LocksKept DEF LockInv

(* A step of p that writes no table but maybe the locks.                   *)
LEMMA MovedLocks ==
  ASSUME TypeInv, LockInv, NEW p \in Proc, UNCHANGED <<sessions, row>>, userThere',
         \A q \in Proc \ {p} :
           step'[q] = step[q] /\ op'[q] = op[q] /\ target'[q] = target[q],
         \A q \in Proc \ {p} : \A s \in Ids : rowHolder[s] = q => rowHolder'[s] = q,
         HolderOK(p)', p = Scheduler => SchedulerOK',
         p # Scheduler => counted' = counted,
         step[p] # "fim"
  PROVE  LockInv'
<1>1. Ids' = Ids
  BY DEF Ids
<1>2. \A s : Movements(s)' = Movements(s)
  BY DEF Movements, Recorded, Of, Amounts
<1>3. \A r \in Req : OnceOK(r)'
  BY DEF OnceOK, LockInv, Proc
<1> QED  BY <1>1, <1>2, <1>3, LocksKept

LEMMA ArriveLocks ==
  ASSUME TypeInv, LockInv, NEW r \in Req, Arrive(r) PROVE LockInv'
<1>1. r \in Proc /\ r # Scheduler
  BY Caixa_Processes DEF Proc
<1>2. /\ UNCHANGED <<sessions, row, userThere, rowHolder, target, counted>>
      /\ step[r] = "ocioso" /\ ~(step'[r] \in {"dentro", "fecha"})
      /\ \A q \in Proc \ {r} : step'[q] = step[q] /\ op'[q] = op[q]
  BY <1>1 DEF Arrive, Moves, tables, locks, TypeInv, TypeOK
<1>3. HolderOK(r)'
  BY <1>2 DEF HolderOK, UnderLock
<1> QED  BY <1>1, <1>2, <1>3, MovedLocks DEF LockInv

LEMMA QueueSeekLocks ==
  ASSUME TypeInv, LockInv, NEW p \in Proc, Queue(p) \/ Seek(p) PROVE LockInv'
<1>1. /\ UNCHANGED <<sessions, row, userThere, rowHolder, op, counted>>
      /\ step[p] \in {"fila", "procura"}
      /\ \A q \in Proc \ {p} : step'[q] = step[q] /\ target'[q] = target[q]
  BY DEF Queue, Seek, Moves, tables, locks, TypeInv, TypeOK
<1>2. ~UnderLock(p)'
  <2>1. CASE Queue(p)
    BY <2>1 DEF Queue, Moves, UnderLock, TypeInv, TypeOK
  <2>2. CASE Seek(p)
    <3>1. OpenSession # 0 => step'[p] = "espera" \/ ~Locks(p)
      BY <2>2 DEF Seek, Moves, TypeInv, TypeOK
    <3>2. OpenSession = 0 => Opens(p) \/ ~Locks(p)
      BY <2>2 DEF Seek, NeedsSession, Locks
    <3> QED  BY <1>1, <3>1, <3>2 DEF UnderLock, Locks, Opens
  <2> QED  BY <2>1, <2>2
<1>3. HolderOK(p)' /\ (p = Scheduler => SchedulerOK')
  BY <1>1, <1>2 DEF HolderOK, SchedulerOK, LockInv
<1> QED  BY <1>1, <1>3, MovedLocks DEF LockInv

LEMMA EnterLocks ==
  ASSUME TypeInv, LockInv, NEW p \in Proc, Enter(p) PROVE LockInv'
<1>1. /\ UNCHANGED <<sessions, row, userThere, op, target>> /\ step[p] = "espera"
      /\ rowHolder[target[p]] = NoProc /\ sessions[target[p]].open
      /\ rowHolder' = [rowHolder EXCEPT ![target[p]] = p]
      /\ counted' = IF p = Scheduler THEN Movements(target[p]) ELSE counted
      /\ \A q \in Proc \ {p} : step'[q] = step[q]
  BY DEF Enter, Moves, tables, Free, StillOpen, TypeInv, TypeOK
<1>2. target[p] \in Ids /\ Ids = DOMAIN rowHolder /\ Ids' = Ids
  BY <1>1 DEF TypeInv, TypeOK, TargetOK, Ids
<1>3. HolderOK(p)'
  BY <1>1, <1>2 DEF HolderOK
<1>4. p = Scheduler => SchedulerOK'
  <2>1. PICK s : s = target[p]
    OBVIOUS
  <2>2. Movements(s)' = Movements(s)
    BY <1>1 DEF Movements, Recorded, Of, Amounts
  <2>3. target'[p] = s
    BY <1>1, <2>1
  <2> QED  BY <1>1, <2>1, <2>2, <2>3 DEF SchedulerOK, LockInv
<1>5. \A q \in Proc \ {p} : \A s \in Ids : rowHolder[s] = q => rowHolder'[s] = q
  BY <1>1, <1>2, Caixa_Processes DEF Proc
<1> QED  BY <1>1, <1>3, <1>4, <1>5, MovedLocks DEF LockInv

LEMMA NobodyOpenLocks ==
  ASSUME TypeInv, LockInv, NEW p \in Proc, NobodyOpen(p) PROVE LockInv'
<1>1. /\ UNCHANGED <<sessions, row, userThere, rowHolder, op, target, counted>>
      /\ step[p] = "dentro"
      /\ \A q \in Proc \ {p} : step'[q] = step[q]
  BY DEF NobodyOpen, Moves, LockInv, TypeInv, TypeOK
<1>2. UnderLock(p)' => UnderLock(p)
  BY <1>1 DEF UnderLock, Locks, Opens
<1>3. HolderOK(p)'
  BY <1>1, <1>2 DEF LockInv, HolderOK, Ids
<1>4. p = Scheduler => SchedulerOK'
  <2>1. PICK s : s = target[p]
    OBVIOUS
  <2>2. Movements(s)' = Movements(s) /\ target'[p] = s
    BY <1>1, <2>1 DEF Movements, Recorded, Of, Amounts
  <2> QED  BY <1>1, <1>2, <2>1, <2>2 DEF SchedulerOK, LockInv
<1> QED  BY <1>1, <1>3, <1>4, MovedLocks DEF LockInv

LEMMA TooLateLocks ==
  ASSUME TypeInv, LockInv, NEW p \in Proc, TooLate(p), Opens(p) PROVE LockInv'
<1>1. /\ UNCHANGED <<sessions, row, userThere, rowHolder, op, target, counted>>
      /\ step[p] = "espera"
      /\ \A q \in Proc \ {p} : step'[q] = step[q]
  BY DEF TooLate, Moves, tables, locks, TypeInv, TypeOK
<1>2. ~UnderLock(p)'
  BY <1>1 DEF UnderLock, Opens
<1>3. HolderOK(p)' /\ (p = Scheduler => SchedulerOK')
  BY <1>1, <1>2 DEF HolderOK, SchedulerOK, LockInv
<1> QED  BY <1>1, <1>3, MovedLocks DEF LockInv

LEMMA EndingLocks ==
  ASSUME TypeInv, LockInv, NEW p \in Proc, Ends(p), UNCHANGED <<sessions, userThere, row>>
  PROVE  LockInv'
<1>1. Forgets(p) /\ rowHolder' = Unlocked(p) /\ Ids' = Ids
  BY DEF Ends, Ids
<1>2. \A s : Movements(s)' = Movements(s)
  BY DEF Movements, Recorded, Of, Amounts
<1> QED  BY <1>1, <1>2, EndedLocks

LEMMA InsertLocks ==
  ASSUME TypeInv, LockInv, NEW p \in Proc, Insert(p) PROVE LockInv'
<1>1. Forgets(p) /\ UNCHANGED <<userThere, row>>
  BY DEF Insert
<1>2. \A s : Movements(s)' = Movements(s)
  BY <1>1 DEF Movements, Recorded, Of, Amounts
<1>3. CASE Collides
  <2>1. UNCHANGED sessions /\ rowHolder' = Unlocked(p) /\ Ids' = Ids
    BY <1>3 DEF Insert, Ids
  <2> QED  BY <1>1, <1>2, <2>1, EndedLocks
<1>4. CASE ~Collides
  <2> DEFINE new == [open |-> TRUE, initial |-> InitialCash(p), final |-> 0,
                     opened_at |-> born[p], closed_at |-> 0, by |-> p, closed_by |-> NoProc]
  <2>1. sessions' = Append(sessions, new) /\ rowHolder' = Append(Unlocked(p), NoProc)
    BY <1>4 DEF Insert
  <2>2. /\ sessions \in Seq(Session) /\ Ids = 1..Len(sessions)
        /\ Unlocked(p) \in Seq(Proc \cup {NoProc}) /\ Len(Unlocked(p)) = Len(sessions)
    BY UnlockedTypes DEF TypeInv, TypeOK, Ids
  <2> HIDE DEF new
  <2>3. \A s \in Ids : s \in Ids' /\ sessions'[s] = sessions[s] /\ rowHolder'[s] = Unlocked(p)[s]
    BY <2>1, <2>2 DEF Ids
  <2> QED  BY <1>1, <1>2, <2>3, EndedLocks
<1> QED  BY <1>3, <1>4

LEMMA FinalizeLocks ==
  ASSUME TypeInv, LockInv, NEW p \in Proc, Finalize(p) PROVE LockInv'
<1>1. Forgets(p) /\ rowHolder' = Unlocked(p) /\ UNCHANGED <<userThere, row>>
  BY DEF Finalize, Ends
<1>2. \A s : Movements(s)' = Movements(s)
  BY <1>1 DEF Movements, Recorded, Of, Amounts
<1>3. rowHolder[target[p]] = p
  BY DEF Finalize, TypeInv, TargetOK, LockInv, HolderOK, UnderLock, Closes, Locks, Opens
<1>4. \A q \in Proc \ {p} : \A s \in Ids : rowHolder[s] = q => sessions'[s] = sessions[s]
  BY <1>3, FinalizedSession
<1> QED  BY <1>1, <1>2, <1>4, FinalizedSession, EndedLocks

(* The row that a request records.                                         *)
LEMMA RecordedFields ==
  ASSUME TypeInv, LockInv, NEW p \in Proc, Record(p)
  PROVE  /\ \A r \in Req \ {p} : row'[r] = row[r]
         /\ p \in Req => row[p].session = 0 /\ row'[p].session = target[p]
                         /\ row'[p].kind = op[p].kind
         /\ op[p].kind = "diaria" \/ UnderLock(p)
<1> DEFINE new == [session |-> target[p], kind |-> op[p].kind,
                   amount |-> op[p].amount, created_at |-> born[p]]
<1>1. row' = [row EXCEPT ![p] = new] /\ step[p] = "dentro"
  BY DEF Record
<1>2. new.session = target[p] /\ new.kind = op[p].kind
  OBVIOUS
<1> HIDE DEF new
<1>3. /\ \A r \in Req \ {p} : row'[r] = row[r]
      /\ p \in Req => row'[p] = new /\ row[p].session = 0
  BY <1>1 DEF TypeInv, TypeOK, LockInv, OnceOK
<1>4. op[p].kind = "diaria" \/ UnderLock(p)
  BY <1>1 DEF Record, UnderLock, Locks
<1> QED  BY <1>2, <1>3, <1>4

LEMMA RecordLocks ==
  ASSUME TypeInv, LockInv, NEW p \in Proc, Record(p) PROVE LockInv'
<1>1. Forgets(p) /\ rowHolder' = Unlocked(p) /\ UNCHANGED <<sessions, userThere>> /\ Ids' = Ids
  BY DEF Record, Ends, Ids
<1>2. TypeOK /\ TypeOK'
  BY RecordTypes DEF TypeInv
<1>3. ASSUME NEW q \in Proc \ {p}, NEW s \in Ids, rowHolder[s] = q
      PROVE  Movements(s)' = Movements(s)
  <2>1. UnderLock(p) => target[p] # s
    BY <1>3 DEF LockInv, HolderOK
  <2>2. \A r \in Req : \/ row'[r] = row[r]
                       \/ /\ row[r].session # s
                          /\ row'[r].session # s \/ row'[r].kind = "diaria"
    <3>1. s # 0
      BY DEF Ids, TypeInv, TypeOK
    <3> QED  BY <2>1, <3>1, RecordedFields
  <2> QED  BY <1>2, <2>2, DrawerKept
<1> QED  BY <1>1, <1>3, RecordedFields, EndedLocks

(* The minutes of the scheduler move nobody who holds a row.               *)
LEMMA ClockLocks ==
  ASSUME TypeInv, LockInv, Clock \/ Tick PROVE LockInv'
<1>1. Scheduler \in Proc /\ step[Scheduler] # "fim"
  BY DEF Proc, TypeInv, TargetOK
<1>2. UNCHANGED <<sessions, row, rowHolder, target, counted>> /\ userThere'
  BY DEF Clock, Tick, TickOpen, TickClose, tables, locks, LockInv
<1>3. \A q \in Proc \ {Scheduler} : step'[q] = step[q] /\ op'[q] = op[q]
  BY DEF Clock, Tick, TickOpen, TickClose, Moves, TypeInv, TypeOK
<1>4. CASE Clock
  <2>1. /\ UNCHANGED op
        /\ step'[Scheduler] \in {"dentro", "fecha"} => step'[Scheduler] = step[Scheduler]
    BY <1>1, <1>4 DEF Clock, TypeInv, TypeOK
  <2>2. HolderOK(Scheduler)'
    BY <1>1, <1>2, <2>1 DEF LockInv, HolderOK, UnderLock, Locks, Opens, Ids
  <2>3. PICK s : s = target[Scheduler]
    OBVIOUS
  <2>4. Movements(s)' = Movements(s) /\ target'[Scheduler] = s
    BY <1>2, <2>3 DEF Movements, Recorded, Of, Amounts
  <2>5. SchedulerOK'
    BY <1>2, <2>1, <2>3, <2>4 DEF LockInv, SchedulerOK, UnderLock, Locks, Opens
  <2> QED  BY <1>1, <1>2, <1>3, <2>2, <2>5, MovedLocks
<1>5. CASE Tick
  <2>1. \E to \in {"fila", "fechamento", "procura", "ocioso"} :
          step' = [step EXCEPT ![Scheduler] = to]
    BY <1>5 DEF Tick, TickOpen, TickClose, Moves
  <2>2. \E o \in {op[Scheduler], [kind |-> "auto_abrir", amount |-> 0],
                 [kind |-> "auto_fechar", amount |-> 0]} : op' = [op EXCEPT ![Scheduler] = o]
    BY <1>1, <1>5 DEF Tick, TickOpen, TickClose, TypeInv, TypeOK
  <2>3. step'[Scheduler] \in {"fila", "fechamento", "procura", "ocioso"}
    BY <1>1, <2>1 DEF TypeInv, TypeOK
  <2>4. op'[Scheduler].kind \in {"auto_abrir", "auto_fechar", "diaria"}
    BY <1>1, <2>2 DEF TypeInv, TypeOK, LockInv, SchedulerOK
  <2>5. HolderOK(Scheduler)' /\ SchedulerOK'
    BY <2>3, <2>4 DEF HolderOK, SchedulerOK, UnderLock
  <2> QED  BY <1>1, <1>2, <1>3, <2>5, MovedLocks
<1> QED  BY <1>4, <1>5

(* A restart leaves nobody at work.                                        *)
LEMMA RestartLocks ==
  ASSUME TypeInv, LockInv, Restart PROVE LockInv'
<1>1. UNCHANGED <<sessions, row, userThere>>
  BY DEF Restart, tables
<1>2. ASSUME NEW p \in Proc PROVE op'[p] = Idle /\ ~UnderLock(p)'
  BY <1>2 DEF Restart, Running, UnderLock
<1>3. Scheduler \in Proc
  BY DEF Proc
<1>4. SchedulerOK' /\ \A p \in Proc : HolderOK(p)'
  BY <1>2, <1>3 DEF SchedulerOK, HolderOK, Idle
<1>5. ASSUME NEW r \in Req PROVE OnceOK(r)'
  <2>1. r \in Proc /\ r # Scheduler
    BY Caixa_Processes DEF Proc
  <2>2. step'[r] # "fim" => step[r] # "fim"
    BY <2>1 DEF Restart, Running
  <2> QED  BY <1>1, <2>2 DEF LockInv, OnceOK
<1> QED  BY <1>1, <1>4, <1>5 DEF LockInv

LEMMA NextLocks == TypeInv /\ LockInv /\ [Next]_vars => LockInv'
<1> SUFFICES ASSUME TypeInv, LockInv, [Next]_vars PROVE LockInv'
  OBVIOUS
<1>1. ASSUME NEW r \in Req, Arrive(r) PROVE LockInv'
  BY <1>1, ArriveLocks
<1>2. ASSUME NEW p \in Proc, Queue(p) \/ Seek(p) PROVE LockInv'
  BY <1>2, QueueSeekLocks
<1>3. ASSUME NEW p \in Proc, Enter(p) \/ NobodyOpen(p) PROVE LockInv'
  BY <1>3, EnterLocks, NobodyOpenLocks
<1>4. ASSUME NEW p \in Proc, Insert(p) \/ Finalize(p) \/ Record(p) PROVE LockInv'
  BY <1>4, InsertLocks, FinalizeLocks, RecordLocks
<1>5. ASSUME NEW p \in Proc, TooLate(p) PROVE LockInv'
  <2>1. CASE Opens(p)
    BY <1>5, <2>1, TooLateLocks
  <2>2. CASE ~Opens(p)
    BY <1>5, <2>2, EndingLocks DEF TooLate, tables
  <2> QED  BY <2>1, <2>2
<1>6. ASSUME NEW p \in Proc, RegisterClosed(p) \/ AlreadyOpen(p) \/ CloseRefused(p)
                             \/ NothingToClose(p) \/ OpenOrder(p)
      PROVE  LockInv'
  <2>1. Ends(p) /\ UNCHANGED <<sessions, userThere, row>>
    BY <1>6 DEF RegisterClosed, AlreadyOpen, CloseRefused, NothingToClose, OpenOrder, tables
  <2> QED  BY <2>1, EndingLocks
<1>7. CASE Clock \/ Tick
  BY <1>7, ClockLocks
<1>8. CASE Restart
  BY <1>8, RestartLocks
<1>9. CASE UNCHANGED vars
  <2>1. UNCHANGED <<sessions, row, userThere, rowHolder, step, op, target, counted>>
    BY <1>9 DEF vars, tables, locks, local
  <2>2. PICK s : s = target[Scheduler]
    OBVIOUS
  <2>3. Movements(s)' = Movements(s) /\ target'[Scheduler] = s
    BY <2>1, <2>2 DEF Movements, Recorded, Of, Amounts
  <2>4. SchedulerOK'
    BY <2>1, <2>2, <2>3 DEF LockInv, SchedulerOK, UnderLock, Locks, Opens
  <2> QED  BY <2>1, <2>4 DEF LockInv, HolderOK, OnceOK, UnderLock, Locks, Opens, Ids
<1> QED
  BY <1>1, <1>2, <1>3, <1>4, <1>5, <1>6, <1>7, <1>8, <1>9 DEF Next, Proceed

-----------------------------------------------------------------------------
(* What a step does to the sessions: it closes the one under a Finalize,   *)
(* and an Insert adds one after the others.                                *)
LEMMA FinalizedFields ==
  ASSUME TypeInv, LockInv, NEW p \in Proc, Finalize(p)
  PROVE  LET s == target[p] IN
         /\ s \in Ids /\ sessions[s].open /\ UnderLock(p)
         /\ sessions'[s].initial = sessions[s].initial
         /\ sessions'[s].opened_at = sessions[s].opened_at
         /\ sessions'[s].by = sessions[s].by
         /\ sessions'[s].final = FinalCash(p) /\ sessions'[s].closed_by = p
<1> DEFINE s == target[p]
           closed == [sessions[s] EXCEPT !.open = FALSE, !.final = FinalCash(p),
                                         !.closed_at = now + 1, !.closed_by = p]
<1>1. UnderLock(p) /\ s \in Ids /\ sessions[s].open
  BY DEF Finalize, TypeInv, TargetOK, LockInv, HolderOK, UnderLock, Closes, Locks, Opens
<1>2. sessions \in Seq(Session) /\ sessions[s] \in Session /\ Ids = DOMAIN sessions
  BY <1>1, SessionTypes DEF TypeInv, TypeOK, Ids
<1>3. /\ closed.initial = sessions[s].initial /\ closed.opened_at = sessions[s].opened_at
      /\ closed.by = sessions[s].by
      /\ closed.final = FinalCash(p) /\ closed.closed_by = p
  BY <1>2 DEF Session
<1>4. sessions' = [sessions EXCEPT ![s] = closed]
  BY DEF Finalize
<1> HIDE DEF closed
<1>5. sessions'[s] = closed
  BY <1>1, <1>2, <1>4
<1> QED  BY <1>1, <1>3, <1>5

LEMMA InsertedFields ==
  ASSUME TypeInv, NEW p \in Proc, Insert(p), ~Collides
  PROVE  /\ Ids = 1..Len(sessions) /\ Len(sessions) \in Nat /\ Opens(p)
         /\ Ids' = Ids \cup {Len(sessions) + 1} /\ \A s \in Ids : ~sessions[s].open
         /\ \A s \in Ids : sessions'[s] = sessions[s]
         /\ sessions'[Len(sessions) + 1].open
         /\ sessions'[Len(sessions) + 1].initial = InitialCash(p)
         /\ sessions'[Len(sessions) + 1].by = p
<1> DEFINE new == [open |-> TRUE, initial |-> InitialCash(p), final |-> 0,
                   opened_at |-> born[p], closed_at |-> 0, by |-> p, closed_by |-> NoProc]
<1>1. sessions' = Append(sessions, new) /\ Opens(p)
  BY DEF Insert
<1>2. sessions \in Seq(Session) /\ Ids = 1..Len(sessions) /\ Len(sessions) \in Nat
  BY DEF TypeInv, TypeOK, Ids
<1>3. new.open /\ new.initial = InitialCash(p) /\ new.by = p
  OBVIOUS
<1> HIDE DEF new
<1>4. /\ Ids' = Ids \cup {Len(sessions) + 1}
      /\ \A s \in Ids : sessions'[s] = sessions[s]
      /\ sessions'[Len(sessions) + 1] = new
  BY <1>1, <1>2 DEF Ids
<1>5. \A s \in Ids : ~sessions[s].open
  BY DEF Collides, OpenIds
<1> QED  BY <1>1, <1>2, <1>3, <1>4, <1>5

LEMMA SessionSteps ==
  ASSUME TypeInv, [Next]_vars
  PROVE  \/ UNCHANGED sessions
         \/ \E p \in Proc : Finalize(p)
         \/ \E p \in Proc : Insert(p) /\ ~Collides
<1>1. ASSUME NEW p \in Proc, Insert(p) PROVE UNCHANGED sessions \/ ~Collides
  BY <1>1 DEF Insert
<1>2. ASSUME NEW p \in Proc, Queue(p) \/ Seek(p) \/ RegisterClosed(p) \/ Enter(p) \/ TooLate(p)
               \/ AlreadyOpen(p) \/ CloseRefused(p) \/ NobodyOpen(p) \/ Record(p)
               \/ NothingToClose(p) \/ OpenOrder(p)
      PROVE  UNCHANGED sessions
  BY <1>2 DEF Queue, Seek, RegisterClosed, Enter, TooLate, AlreadyOpen, CloseRefused,
              NobodyOpen, Record, NothingToClose, OpenOrder, tables
<1>3. ASSUME NEW r \in Req, Arrive(r) PROVE UNCHANGED sessions
  BY <1>3 DEF Arrive, tables
<1>4. CASE Clock \/ Tick \/ Restart
  BY <1>4 DEF Clock, Tick, TickOpen, TickClose, Restart, tables
<1>5. CASE UNCHANGED vars
  BY <1>5 DEF vars, tables
<1> QED  BY <1>1, <1>2, <1>3, <1>4, <1>5 DEF Next, Proceed

LEMMA RowSteps ==
  ASSUME TypeInv, [Next]_vars
  PROVE  UNCHANGED row \/ \E p \in Proc : Record(p)
<1>1. ASSUME NEW p \in Proc, Queue(p) \/ Seek(p) \/ RegisterClosed(p) \/ Enter(p) \/ TooLate(p)
               \/ AlreadyOpen(p) \/ CloseRefused(p) \/ NobodyOpen(p) \/ Insert(p) \/ Finalize(p)
               \/ NothingToClose(p) \/ OpenOrder(p)
      PROVE  UNCHANGED row
  BY <1>1 DEF Queue, Seek, RegisterClosed, Enter, TooLate, AlreadyOpen, CloseRefused,
              NobodyOpen, Insert, Finalize, NothingToClose, OpenOrder, tables
<1>2. ASSUME NEW r \in Req, Arrive(r) PROVE UNCHANGED row
  BY <1>2 DEF Arrive, tables
<1>3. CASE Clock \/ Tick \/ Restart
  BY <1>3 DEF Clock, Tick, TickOpen, TickClose, Restart, tables
<1>4. CASE UNCHANGED vars
  BY <1>4 DEF vars, tables
<1> QED  BY <1>1, <1>2, <1>3, <1>4 DEF Next, Proceed

(* A closed session is out of reach: of the closes, which find it open     *)
(* under the lock, and of the rows, the dailies excepted, which its drawer *)
(* does not count.                                                         *)
LEMMA ClosedStep ==
  ASSUME TypeInv, TypeInv', LockInv, [Next]_vars, NEW s \in Ids, ~sessions[s].open
  PROVE  s \in Ids' /\ sessions'[s] = sessions[s] /\ Expected(s)' = Expected(s)
<1>1. s \in Ids' /\ sessions'[s] = sessions[s]
  <2>1. ASSUME NEW p \in Proc, Finalize(p) PROVE Ids' = Ids /\ sessions'[s] = sessions[s]
    BY <2>1, FinalizedSession, FinalizedFields
  <2>2. ASSUME NEW p \in Proc, Insert(p), ~Collides
        PROVE  s \in Ids' /\ sessions'[s] = sessions[s]
    BY <2>2, InsertedFields
  <2> QED  BY <2>1, <2>2, SessionSteps DEF Ids
<1>2. \A r \in Req : \/ row'[r] = row[r]
                     \/ /\ row[r].session # s
                        /\ row'[r].session # s \/ row'[r].kind = "diaria"
  <2>1. ASSUME NEW p \in Proc, Record(p), NEW r \in Req, r = p
        PROVE  row[r].session # s /\ (row'[r].session # s \/ row'[r].kind = "diaria")
    <3>1. s # 0
      BY DEF Ids, TypeInv, TypeOK
    <3>2. UnderLock(p) => target[p] # s
      BY DEF LockInv, HolderOK
    <3> QED  BY <2>1, <3>1, <3>2, RecordedFields
  <2>2. ASSUME NEW p \in Proc, Record(p), NEW r \in Req, r # p PROVE row'[r] = row[r]
    BY <2>2, RecordedFields
  <2> QED  BY <2>1, <2>2, RowSteps
<1>3. Movements(s)' = Movements(s) /\ CashInflows(s)' = CashInflows(s)
  BY <1>1, <1>2, DrawerKept DEF TypeInv
<1> QED  BY <1>1, <1>3 DEF Expected

(* What the scheduler writes when it closes: the movements it counted when *)
(* it took the lock are still those of the session.                        *)
LEMMA AutomaticStep ==
  ASSUME TypeInv, TypeInv', LockInv, Finalize(Scheduler), NEW s, s = target[Scheduler]
  PROVE  sessions'[s].final = Expected(s)'
<1>1. Scheduler \in Proc
  BY DEF Proc
<1>2. /\ UnderLock(Scheduler)
      /\ sessions'[s].initial = sessions[s].initial
      /\ sessions'[s].opened_at = sessions[s].opened_at
      /\ sessions'[s].final = FinalCash(Scheduler)
  BY <1>1, FinalizedFields
<1>3. sessions'[s].final = sessions[s].initial + CashInflows(s) + Movements(s)
  BY <1>2 DEF FinalCash, LockInv, SchedulerOK
<1>4. Movements(s)' = Movements(s) /\ CashInflows(s)' = CashInflows(s)
  BY <1>2, DrawerKept DEF TypeInv, Finalize
<1> QED  BY <1>2, <1>3, <1>4 DEF Expected

LEMMA BalanceStep ==
  ASSUME TypeInv, TypeInv', LockInv, AutomaticCloseBalances, [Next]_vars
  PROVE  AutomaticCloseBalances'
<1> SUFFICES ASSUME NEW s \in Ids', ~sessions'[s].open, sessions'[s].closed_by = Scheduler
             PROVE  sessions'[s].final = Expected(s)'
  BY DEF AutomaticCloseBalances
<1>1. ASSUME s \in Ids, ~sessions[s].open PROVE sessions'[s].final = Expected(s)'
  BY <1>1, ClosedStep DEF AutomaticCloseBalances
<1>2. ASSUME UNCHANGED sessions PROVE sessions'[s].final = Expected(s)'
  BY <1>1, <1>2 DEF Ids
<1>3. ASSUME NEW p \in Proc, Insert(p), ~Collides PROVE sessions'[s].final = Expected(s)'
  BY <1>1, <1>3, InsertedFields
<1>4. ASSUME NEW p \in Proc, Finalize(p) PROVE sessions'[s].final = Expected(s)'
  <2>1. CASE s = target[p]
    <3>1. p = Scheduler
      BY <1>4, <2>1, FinalizedFields
    <3> QED  BY <1>4, <2>1, <3>1, AutomaticStep
  <2>2. CASE s # target[p]
    BY <1>1, <1>4, <2>2, FinalizedSession
  <2> QED  BY <2>1, <2>2
<1> QED  BY <1>2, <1>3, <1>4, SessionSteps

-----------------------------------------------------------------------------
(* The sessions follow each other: one closes before the next opens.       *)
OrderInv ==
  \A s, t \in Ids : s < t =>
    ~sessions[s].open /\ (~sessions[t].open => sessions[s].closed_at < sessions[t].closed_at)

LEMMA OrderStep ==
  ASSUME TypeInv, LockInv, OrderInv, [Next]_vars PROVE OrderInv'
<1>1. CASE UNCHANGED sessions
  BY <1>1 DEF OrderInv, Ids
<1>2. ASSUME NEW p \in Proc, Insert(p), ~Collides PROVE OrderInv'
  <2>1. ASSUME NEW s \in Ids', NEW t \in Ids', s < t
        PROVE  /\ ~sessions'[s].open
               /\ ~sessions'[t].open => sessions'[s].closed_at < sessions'[t].closed_at
    <3>1. s \in Ids
      BY <1>2, <2>1, InsertedFields
    <3>2. ~sessions'[s].open
      BY <1>2, <3>1, InsertedFields
    <3>3. CASE t \in Ids
      BY <1>2, <2>1, <3>1, <3>2, <3>3, InsertedFields DEF OrderInv
    <3>4. CASE t \notin Ids
      BY <1>2, <3>2, <3>4, InsertedFields
    <3> QED  BY <3>3, <3>4
  <2> QED  BY <2>1 DEF OrderInv
<1>3. ASSUME NEW p \in Proc, Finalize(p) PROVE OrderInv'
  <2>1. ASSUME NEW s \in Ids, NEW t \in Ids, s < t
        PROVE  /\ ~sessions'[s].open
               /\ ~sessions'[t].open => sessions'[s].closed_at < sessions'[t].closed_at
    <3>1. ~sessions[s].open /\ s # target[p]
      BY <1>3, <2>1, FinalizedFields DEF OrderInv
    <3>2. sessions'[s] = sessions[s]
      BY <1>3, <3>1, FinalizedSession
    <3>3. sessions[s].closed_at \in Nat /\ sessions[s].closed_at <= now /\ now \in Nat
      BY SessionTypes DEF TypeInv, TypeOK, DatesOK
    <3>4. CASE t = target[p]
      BY <1>3, <3>1, <3>2, <3>3, <3>4, FinalizedSession
    <3>5. CASE t # target[p]
      BY <1>3, <2>1, <3>1, <3>2, <3>5, FinalizedSession DEF OrderInv
    <3> QED  BY <3>4, <3>5
  <2>2. Ids' = Ids
    BY <1>3, FinalizedSession
  <2> QED  BY <2>1, <2>2 DEF OrderInv
<1> QED  BY <1>1, <1>2, <1>3, SessionSteps

(* The last session closed is the last one opened.                         *)
LEMMA LastClosedIsLast ==
  ASSUME TypeInv, OrderInv, \A s \in Ids : ~sessions[s].open, Len(sessions) > 0
  PROVE  ClosedIds # {} /\ LastClosed = Len(sessions)
<1> DEFINE n == Len(sessions)
<1>1. n \in Nat /\ Ids = 1..n /\ n \in Ids /\ ClosedIds = Ids
  BY DEF TypeInv, TypeOK, Ids, ClosedIds
<1>2. \A s \in Ids : s # n => sessions[s].closed_at < sessions[n].closed_at
  BY <1>1 DEF OrderInv
<1>3. \A s \in Ids : sessions[s].closed_at \in Nat
  BY SessionTypes DEF TypeInv
<1>4. \A t \in ClosedIds : sessions[t].closed_at <= sessions[n].closed_at
  BY <1>1, <1>2, <1>3
<1>5. LastClosed \in Ids /\ sessions[n].closed_at <= sessions[LastClosed].closed_at
  BY <1>1, <1>4 DEF LastClosed
<1>6. LastClosed = n
  BY <1>1, <1>2, <1>3, <1>5
<1> QED  BY <1>1, <1>6

LEMMA HandedStep ==
  ASSUME TypeInv, LockInv, OrderInv, DrawerIsHandedOver, [Next]_vars
  PROVE  DrawerIsHandedOver'
<1>1. CASE UNCHANGED sessions
  BY <1>1 DEF DrawerIsHandedOver, Ids
<1>2. Ids \subseteq Int /\ \A s \in Ids : s > 1 => s - 1 \in Ids
  BY DEF Ids, TypeInv, TypeOK
<1>3. ASSUME NEW p \in Proc, Insert(p), ~Collides PROVE DrawerIsHandedOver'
  <2> DEFINE n == Len(sessions)
  <2>1. n \in Nat /\ Ids = 1..n
    BY <1>3, InsertedFields
  <2>2. ASSUME NEW s \in Ids', s > 1, sessions'[s].by = Scheduler
        PROVE  sessions'[s].initial = sessions'[s - 1].final
    <3>1. CASE s \in Ids
      BY <1>2, <1>3, <2>2, <3>1, InsertedFields DEF DrawerIsHandedOver
    <3>2. CASE s \notin Ids
      <4>1. s = n + 1 /\ p = Scheduler /\ n > 0 /\ s - 1 = n /\ n \in Ids
        BY <1>3, <2>1, <2>2, <3>2, InsertedFields
      <4>2. op[p].kind # "abrir"
        BY <4>1 DEF LockInv, SchedulerOK
      <4>3. ClosedIds # {} /\ LastClosed = n
        BY <1>3, <4>1, InsertedFields, LastClosedIsLast
      <4>4. InitialCash(p) = sessions[n].final
        BY <4>2, <4>3 DEF InitialCash
      <4> QED  BY <1>3, <4>1, <4>4, InsertedFields
    <3> QED  BY <3>1, <3>2
  <2> QED  BY <2>2 DEF DrawerIsHandedOver
<1>4. ASSUME NEW p \in Proc, Finalize(p) PROVE DrawerIsHandedOver'
  <2>1. Ids' = Ids
    BY <1>4, FinalizedSession
  <2>2. ASSUME NEW s \in Ids, s > 1, sessions'[s].by = Scheduler
        PROVE  sessions'[s].initial = sessions'[s - 1].final
    <3>1. s - 1 \in Ids /\ ~sessions[s - 1].open
      BY <1>2, <2>2 DEF OrderInv
    <3>2. sessions'[s - 1] = sessions[s - 1]
      BY <1>4, <3>1, FinalizedSession, FinalizedFields
    <3>3. sessions'[s].initial = sessions[s].initial /\ sessions'[s].by = sessions[s].by
      <4>1. CASE s = target[p]
        BY <1>4, <4>1, FinalizedFields
      <4>2. CASE s # target[p]
        BY <1>4, <4>2, FinalizedSession
      <4> QED  BY <4>1, <4>2
    <3> QED  BY <2>2, <3>2, <3>3 DEF DrawerIsHandedOver
  <2> QED  BY <2>1, <2>2 DEF DrawerIsHandedOver
<1> QED  BY <1>1, <1>3, <1>4, SessionSteps

-----------------------------------------------------------------------------
(* The cash position.  Every movement is of a session that was opened, and *)
(* each session has its own once it is closed.                             *)
TitledIn(p, title, s) == {i \in DOMAIN p : p[i].title = title /\ p[i].session = s}
ShowsIn(p, title, s, amount) ==
  IF amount > 0 THEN \E i \in DOMAIN p : TitledIn(p, title, s) = {i} /\ p[i].amount = amount
  ELSE TitledIn(p, title, s) = {}

PositionInv ==
  /\ \A i \in DOMAIN position : position[i].session \in Ids
  /\ PositionShowsEachSessionOnce

LEMMA OneMoreMovement ==
  ASSUME NEW p \in Seq(PositionMovement), NEW title \in {"fechamento", "taxa"},
         NEW s \in Nat, NEW amount \in Nat
  PROVE  LET q == p \o Movement(title, s, amount) IN
         /\ q \in Seq(PositionMovement)
         /\ TitledIn(p, title, s) = {} => ShowsIn(q, title, s, amount)
         /\ \A other, t : other # title \/ t # s =>
              \A a : ShowsIn(p, other, t, a) => ShowsIn(q, other, t, a)
         /\ \A other, t : other # title \/ t # s => TitledIn(q, other, t) = TitledIn(p, other, t)
         /\ \A i \in DOMAIN q : q[i].session = s \/ (i \in DOMAIN p /\ q[i] = p[i])
<1> DEFINE m == [title |-> title, session |-> s, amount |-> amount]
           n == Len(p)
           q == p \o Movement(title, s, amount)
<1>1. m \in PositionMovement /\ m.title = title /\ m.session = s /\ m.amount = amount
  BY DEF PositionMovement
<1> HIDE DEF m
<1>2. n \in Nat /\ DOMAIN p = 1..n
  OBVIOUS
<1>3. CASE amount = 0
  <2>1. Movement(title, s, amount) = <<>>
    BY <1>3 DEF Movement
  <2>2. q = p
    BY <2>1
  <2>3. TitledIn(p, title, s) = {} => ShowsIn(p, title, s, amount)
    BY <1>3 DEF ShowsIn
  <2> HIDE DEF q
  <2>4. /\ q \in Seq(PositionMovement)
        /\ TitledIn(p, title, s) = {} => ShowsIn(q, title, s, amount)
        /\ \A other, t : other # title \/ t # s =>
             \A a : ShowsIn(p, other, t, a) => ShowsIn(q, other, t, a)
        /\ \A other, t : other # title \/ t # s => TitledIn(q, other, t) = TitledIn(p, other, t)
        /\ \A i \in DOMAIN q : q[i].session = s \/ (i \in DOMAIN p /\ q[i] = p[i])
    BY <2>2, <2>3
  <2> QED  BY <2>4 DEF q
<1>4. CASE amount > 0
  <2>1. Movement(title, s, amount) = <<m>>
    BY <1>4 DEF Movement, m
  <2>2. /\ q \in Seq(PositionMovement) /\ DOMAIN q = 1..(n + 1)
        /\ \A i \in 1..n : q[i] = p[i]
        /\ q[n + 1] = m
    BY <1>1, <1>2, <2>1
  <2> HIDE DEF q
  <2>3. DOMAIN q = DOMAIN p \cup {n + 1} /\ n + 1 \notin DOMAIN p
    BY <1>2, <2>2
  <2>4. \A i \in DOMAIN p : q[i] = p[i]
    BY <1>2, <2>2
  <2> HIDE DEF n
  <2>5. TitledIn(p, title, s) = {} => TitledIn(q, title, s) = {n + 1}
    BY <1>1, <2>2, <2>3, <2>4 DEF TitledIn
  <2>6. ASSUME NEW other, NEW t, other # title \/ t # s
        PROVE  TitledIn(q, other, t) = TitledIn(p, other, t)
    BY <1>1, <2>2, <2>3, <2>4, <2>6 DEF TitledIn
  <2>7. ASSUME NEW other, NEW t, other # title \/ t # s, NEW a, ShowsIn(p, other, t, a)
        PROVE  ShowsIn(q, other, t, a)
    BY <2>3, <2>4, <2>6, <2>7 DEF ShowsIn
  <2>8. TitledIn(p, title, s) = {} => ShowsIn(q, title, s, amount)
    BY <1>1, <1>4, <2>2, <2>3, <2>5 DEF ShowsIn
  <2>9. \A i \in DOMAIN q : q[i].session = s \/ (i \in DOMAIN p /\ q[i] = p[i])
    BY <1>1, <2>2, <2>3, <2>4
  <2> QED  BY <2>2, <2>6, <2>7, <2>8, <2>9 DEF q
<1> QED  BY <1>3, <1>4

(* The movements that a close adds.                                        *)
LEMMA ClosingShows ==
  ASSUME TypeOK, NEW s \in Nat,
         Titled("fechamento", s) = {}, Titled("taxa", s) = {},
         position' = position \o ClosingMovements(s)
  PROVE  /\ ShowsIn(position', "fechamento", s, Gross(s))
         /\ ShowsIn(position', "taxa", s, CardFees(s))
         /\ \A title, t, a : t # s /\ ShowsIn(position, title, t, a) =>
              ShowsIn(position', title, t, a)
         /\ \A i \in DOMAIN position' : position'[i].session = s
              \/ (i \in DOMAIN position /\ position'[i] = position[i])
<1> DEFINE p == position
           f == Movement("fechamento", s, Gross(s))
           q == p \o f
           g == Movement("taxa", s, CardFees(s))
           r == q \o g
<1>1. Gross(s) \in Nat /\ CardFees(s) \in Nat /\ p \in Seq(PositionMovement)
  BY SumsAreNatural DEF TypeOK
<1>2. /\ q \in Seq(PositionMovement)
      /\ TitledIn(p, "fechamento", s) = {} => ShowsIn(q, "fechamento", s, Gross(s))
      /\ \A title, t : title # "fechamento" \/ t # s =>
           \A a : ShowsIn(p, title, t, a) => ShowsIn(q, title, t, a)
      /\ \A title, t : title # "fechamento" \/ t # s =>
           TitledIn(q, title, t) = TitledIn(p, title, t)
      /\ \A i \in DOMAIN q : q[i].session = s \/ (i \in DOMAIN p /\ q[i] = p[i])
  BY <1>1, OneMoreMovement
<1>3. /\ TitledIn(q, "taxa", s) = {} => ShowsIn(r, "taxa", s, CardFees(s))
      /\ \A title, t : title # "taxa" \/ t # s =>
           \A a : ShowsIn(q, title, t, a) => ShowsIn(r, title, t, a)
      /\ \A i \in DOMAIN r : r[i].session = s \/ (i \in DOMAIN q /\ r[i] = q[i])
  <2> HIDE DEF q
  <2> QED  BY <1>1, <1>2, OneMoreMovement
<1>4. TitledIn(p, "fechamento", s) = {} /\ TitledIn(p, "taxa", s) = {}
  BY DEF Titled, TitledIn
<1>5. position' = r
  <2>1. f \in Seq(PositionMovement) /\ g \in Seq(PositionMovement)
    BY <1>1, MovementTypes
  <2>2. position' = p \o (f \o g)
    BY DEF ClosingMovements
  <2>3. (p \o f) \o g = p \o (f \o g)
    <3> HIDE DEF p, f, g
    <3> QED  BY ONLY <1>1, <2>1, SMTT(20)
  <2> QED  BY <2>2, <2>3
<1> HIDE DEF p, q, r
<1>6. ShowsIn(r, "fechamento", s, Gross(s)) /\ ShowsIn(r, "taxa", s, CardFees(s))
  BY <1>2, <1>3, <1>4
<1>7. \A title, t, a : t # s /\ ShowsIn(p, title, t, a) => ShowsIn(r, title, t, a)
  BY <1>2, <1>3
<1>8. \A i \in DOMAIN r : r[i].session = s \/ (i \in DOMAIN p /\ r[i] = p[i])
  BY <1>2, <1>3
<1> QED  BY <1>5, <1>6, <1>7, <1>8 DEF p

LEMMA PositionSteps ==
  ASSUME TypeInv, [Next]_vars
  PROVE  UNCHANGED position \/ \E p \in Proc : Finalize(p)
<1>1. ASSUME NEW p \in Proc, Queue(p) \/ Seek(p) \/ RegisterClosed(p) \/ Enter(p) \/ TooLate(p)
               \/ AlreadyOpen(p) \/ CloseRefused(p) \/ NobodyOpen(p) \/ Insert(p) \/ Record(p)
               \/ NothingToClose(p) \/ OpenOrder(p)
      PROVE  UNCHANGED position
  BY <1>1 DEF Queue, Seek, RegisterClosed, Enter, TooLate, AlreadyOpen, CloseRefused,
              NobodyOpen, Insert, Record, NothingToClose, OpenOrder, tables
<1>2. ASSUME NEW r \in Req, Arrive(r) PROVE UNCHANGED position
  BY <1>2 DEF Arrive, tables
<1>3. CASE Clock \/ Tick \/ Restart
  BY <1>3 DEF Clock, Tick, TickOpen, TickClose, Restart, tables
<1>4. CASE UNCHANGED vars
  BY <1>4 DEF vars, tables
<1> QED  BY <1>1, <1>2, <1>3, <1>4 DEF Next, Proceed

(* The receipts of a closed session stay what they were: of the rows that  *)
(* reach it late, the dailies, none is a receipt.                          *)
LEMMA ClosedReceipts ==
  ASSUME TypeInv, TypeInv', LockInv, [Next]_vars, NEW s \in Ids, ~sessions[s].open
  PROVE  Gross(s)' = Gross(s) /\ CardFees(s)' = CardFees(s)
<1>1. \A r \in Req : \/ row'[r] = row[r]
                     \/ /\ row[r].session # s
                        /\ row'[r].session # s \/ row'[r].kind = "diaria"
  <2>1. ASSUME NEW p \in Proc, Record(p), NEW r \in Req, r = p
        PROVE  row[r].session # s /\ (row'[r].session # s \/ row'[r].kind = "diaria")
    <3>1. s # 0
      BY DEF Ids, TypeInv, TypeOK
    <3>2. UnderLock(p) => target[p] # s
      BY DEF LockInv, HolderOK
    <3> QED  BY <2>1, <3>1, <3>2, RecordedFields
  <2>2. ASSUME NEW p \in Proc, Record(p), NEW r \in Req, r # p PROVE row'[r] = row[r]
    BY <2>2, RecordedFields
  <2> QED  BY <2>1, <2>2, RowSteps
<1>2. Gross(s)' = Gross(s)
  BY <1>1, RowsKept DEF TypeInv, Gross
<1>3. Of(s, {"cartao"})' = Of(s, {"cartao"})
  BY <1>1 DEF Of
<1> QED  BY <1>2, <1>3 DEF CardFees

LEMMA PositionStep ==
  ASSUME TypeInv, TypeInv', LockInv, PositionInv, [Next]_vars PROVE PositionInv'
<1>1. ASSUME UNCHANGED position, NEW s \in Ids', ~sessions'[s].open => s \in Ids /\ ~sessions[s].open,
             sessions'[s].open => (s \in Ids => sessions[s].open)
      PROVE  /\ ShowsIn(position', "fechamento", s, IF sessions'[s].open THEN 0 ELSE Gross(s)')
             /\ ShowsIn(position', "taxa", s, IF sessions'[s].open THEN 0 ELSE CardFees(s)')
  <2>1. CASE sessions'[s].open
    <3>1. TitledIn(position, "fechamento", s) = {} /\ TitledIn(position, "taxa", s) = {}
      BY <1>1, <2>1 DEF PositionInv, PositionShowsEachSessionOnce, Shows, Titled, TitledIn
    <3> QED  BY <1>1, <2>1, <3>1 DEF ShowsIn
  <2>2. CASE ~sessions'[s].open
    <3>1. s \in Ids /\ ~sessions[s].open
      BY <1>1, <2>2
    <3>2. Gross(s)' = Gross(s) /\ CardFees(s)' = CardFees(s)
      BY <3>1, ClosedReceipts
    <3>3. /\ ShowsIn(position, "fechamento", s, Gross(s))
          /\ ShowsIn(position, "taxa", s, CardFees(s))
      BY <3>1 DEF PositionInv, PositionShowsEachSessionOnce, Shows, Titled, ShowsIn, TitledIn
    <3> QED  BY <1>1, <2>2, <3>2, <3>3
  <2> QED  BY <2>1, <2>2
<1>2. ASSUME \A s \in Ids' :
               /\ ShowsIn(position', "fechamento", s, IF sessions'[s].open THEN 0 ELSE Gross(s)')
               /\ ShowsIn(position', "taxa", s, IF sessions'[s].open THEN 0 ELSE CardFees(s)'),
             \A i \in DOMAIN position' : position'[i].session \in Ids'
      PROVE  PositionInv'
  BY <1>2 DEF PositionInv, PositionShowsEachSessionOnce, Shows, Titled, ShowsIn, TitledIn
<1>3. CASE UNCHANGED <<sessions, position>>
  <2>1. Ids' = Ids
    BY <1>3 DEF Ids
  <2> QED  BY <1>1, <1>2, <1>3, <2>1 DEF PositionInv
<1>4. ASSUME NEW p \in Proc, Insert(p), ~Collides PROVE PositionInv'
  <2>1. UNCHANGED position
    BY <1>4 DEF Insert
  <2>2. ASSUME NEW s \in Ids' PROVE ~sessions'[s].open => s \in Ids /\ ~sessions[s].open
    BY <1>4, InsertedFields
  <2>3. ASSUME NEW s \in Ids' PROVE sessions'[s].open => (s \in Ids => sessions[s].open)
    BY <1>4, InsertedFields
  <2>4. \A i \in DOMAIN position' : position'[i].session \in Ids'
    BY <1>4, <2>1, InsertedFields DEF PositionInv
  <2> QED  BY <1>1, <1>2, <2>1, <2>2, <2>3, <2>4
<1>5. ASSUME NEW p \in Proc, Finalize(p) PROVE PositionInv'
  <2> DEFINE t == target[p]
  <2>1. t \in Ids /\ sessions[t].open /\ ~sessions'[t].open /\ Ids' = Ids
        /\ \A s \in Ids \ {t} : sessions'[s] = sessions[s]
    BY <1>5, FinalizedSession, FinalizedFields
  <2>2. position' = position \o ClosingMovements(t) /\ UNCHANGED row
    BY <1>5 DEF Finalize
  <2>3. \A s : Gross(s)' = Gross(s) /\ CardFees(s)' = CardFees(s)
    BY <2>2 DEF Gross, CardFees, Recorded, Of, Amounts
  <2>4. t \in Nat /\ Titled("fechamento", t) = {} /\ Titled("taxa", t) = {}
    <3>1. t \in Nat
      BY <2>1 DEF Ids, TypeInv, TypeOK
    <3> HIDE DEF t
    <3>2. Shows("fechamento", t, 0) /\ Shows("taxa", t, 0)
      BY <2>1 DEF PositionInv, PositionShowsEachSessionOnce
    <3> QED  BY ONLY <3>1, <3>2 DEF Shows
  <2> HIDE DEF t
  <2>5. /\ ShowsIn(position', "fechamento", t, Gross(t))
        /\ ShowsIn(position', "taxa", t, CardFees(t))
        /\ \A title, s, a : s # t /\ ShowsIn(position, title, s, a) =>
             ShowsIn(position', title, s, a)
        /\ \A i \in DOMAIN position' : position'[i].session = t
             \/ (i \in DOMAIN position /\ position'[i] = position[i])
    BY <2>2, <2>4, ClosingShows DEF TypeInv
  <2>6. ASSUME NEW s \in Ids
        PROVE  /\ ShowsIn(position', "fechamento", s, IF sessions'[s].open THEN 0 ELSE Gross(s)')
               /\ ShowsIn(position', "taxa", s, IF sessions'[s].open THEN 0 ELSE CardFees(s)')
    <3>1. CASE s = t
      BY <2>1, <2>3, <2>5, <3>1
    <3>2. CASE s # t
      <4>1. /\ ShowsIn(position, "fechamento", s, IF sessions[s].open THEN 0 ELSE Gross(s))
            /\ ShowsIn(position, "taxa", s, IF sessions[s].open THEN 0 ELSE CardFees(s))
        BY DEF PositionInv, PositionShowsEachSessionOnce, Shows, Titled, ShowsIn, TitledIn
      <4> QED  BY <2>1, <2>3, <2>5, <3>2, <4>1
    <3> QED  BY <3>1, <3>2
  <2>7. \A i \in DOMAIN position' : position'[i].session \in Ids'
    BY <2>1, <2>5 DEF PositionInv
  <2> QED  BY <1>2, <2>1, <2>6, <2>7
<1>6. UNCHANGED sessions => UNCHANGED position \/ \E p \in Proc : Finalize(p)
  BY PositionSteps
<1> QED  BY <1>3, <1>4, <1>5, <1>6, SessionSteps

-----------------------------------------------------------------------------
(* The row lock: a process at work under it holds the row of its session   *)
(* and finds it open, and what the scheduler counted is what it will be.   *)
THEOREM LocksCorrect == ASSUME UserSeeded PROVE Spec => [](TypeInv /\ LockInv)
<1>1. Init => TypeInv /\ LockInv
  <2> SUFFICES ASSUME Init PROVE TypeInv /\ LockInv
    OBVIOUS
  <2>1. TypeInv
    BY InitTypes
  <2>2. userThere /\ \A p \in Proc : step[p] = "ocioso" /\ op[p] = Idle
    BY DEF Init
  <2>3. Scheduler \in Proc /\ \A r \in Req : row[r].session = 0
    BY DEF Init, Proc, NoRow
  <2> QED  BY <2>1, <2>2, <2>3 DEF LockInv, HolderOK, SchedulerOK, OnceOK, UnderLock, Idle
<1>2. TypeInv /\ LockInv /\ [Next]_vars => (TypeInv /\ LockInv)'
  BY NextTypes, NextLocks
<1> QED  BY <1>1, <1>2, PTL DEF Spec

(* finalize_cash_session and the requests of the drawer: what a closed     *)
(* session says of its drawer, and what is expected of it, never changes.  *)
THEOREM ClosedSessionsStand == ASSUME UserSeeded PROVE Spec => ClosedSessionsStay
<1> DEFINE Inv == TypeInv /\ LockInv
           Stay == \A s \in Ids : ~sessions[s].open =>
                     sessions'[s] = sessions[s] /\ Expected(s)' = Expected(s)
<1>1. Inv /\ Inv' /\ [Next]_vars => [Stay]_vars
  BY ClosedStep
<1>2. Spec => []Inv
  BY LocksCorrect
<1>3. Spec => [][Next]_vars
  BY PTL DEF Spec
<1>4. [][Stay]_vars <=> ClosedSessionsStay
  BY DEF ClosedSessionsStay
<1> HIDE DEF Inv, Stay
<1>5. Spec => [][Stay]_vars
  BY <1>1, <1>2, <1>3, PTL
<1> QED  BY <1>4, <1>5, PTL

(* What a request writes when it records.                                  *)
LEMMA RecordedLate ==
  ASSUME TypeInv, LockInv, LiveInv, NEW p \in Proc, Record(p), p \in Req
  PROVE  row'[p].session \in OpenIds \/ LateDaily(p)'
<1> DEFINE new == [session |-> target[p], kind |-> op[p].kind,
                   amount |-> op[p].amount, created_at |-> born[p]]
<1>1. row' = [row EXCEPT ![p] = new] /\ step[p] = "dentro" /\ UNCHANGED sessions
  BY DEF Record
<1>2. /\ new.session = target[p] /\ new.kind = op[p].kind /\ new.created_at = born[p]
  OBVIOUS
<1> HIDE DEF new
<1>3. row'[p] = new
  BY <1>1 DEF TypeInv, TypeOK
<1>4. op[p].kind = "diaria" \/ UnderLock(p)
  BY RecordedFields
<1>5. CASE UnderLock(p)
  <2>1. target[p] \in Ids /\ sessions[target[p]].open
    BY <1>5 DEF LockInv, HolderOK
  <2> QED  BY <1>2, <1>3, <2>1 DEF OpenIds
<1>6. CASE op[p].kind = "diaria"
  <2>1. CASE target[p] = 0
    BY <1>2, <1>3, <1>6, <2>1 DEF LateDaily
  <2>2. CASE target[p] # 0
    <3>1. Alive(target[p], born[p])
      BY <1>1, <2>2 DEF LiveInv
    <3>2. target[p] \in Ids
      BY <2>2 DEF TypeInv, TypeOK, TargetOK, Ids
    <3>3. CASE sessions[target[p]].open
      BY <1>2, <1>3, <3>2, <3>3 DEF OpenIds
    <3>4. CASE sessions[target[p]].closed_at > born[p]
      BY <1>1, <1>2, <1>3, <1>6, <3>4 DEF LateDaily
    <3> QED  BY <3>1, <3>3, <3>4 DEF Alive
  <2> QED  BY <2>1, <2>2
<1> QED  BY <1>4, <1>5, <1>6

(* Receipts, refunds, movements and dailies: a row is written on a session *)
(* that is open then; only a daily may come late, and never stale.         *)
THEOREM RowsOnOpenSessions == ASSUME UserSeeded PROVE Spec => OnlyDailiesAreLate
<1> DEFINE Inv == TypeInv /\ LockInv
           Live == TypeInv /\ LiveInv
           Rows == \A r \in Req :
                     row'[r] # row[r] => row'[r].session \in OpenIds \/ LateDaily(r)'
<1>1. Inv /\ Live /\ [Next]_vars => [Rows]_vars
  <2> SUFFICES ASSUME Inv, Live, [Next]_vars, NEW r \in Req, row'[r] # row[r]
               PROVE  row'[r].session \in OpenIds \/ LateDaily(r)'
    OBVIOUS
  <2>1. PICK p \in Proc : Record(p)
    BY RowSteps
  <2>2. r = p
    BY <2>1, RecordedFields
  <2> QED  BY <2>1, <2>2, RecordedLate
<1>2. Spec => []Inv
  BY LocksCorrect
<1>3. Spec => []Live
  <2>1. Init => Live
    BY InitTypes DEF Init, LiveInv, NoRow
  <2>2. Live /\ [Next]_vars => Live'
    BY NextTypes, NextLive
  <2> HIDE DEF Live
  <2> QED  BY <2>1, <2>2, PTL DEF Spec
<1>4. Spec => [][Next]_vars
  BY PTL DEF Spec
<1>5. [][Rows]_vars <=> OnlyDailiesAreLate
  BY DEF OnlyDailiesAreLate
<1> HIDE DEF Inv, Live, Rows
<1>6. Spec => [][Rows]_vars
  BY <1>1, <1>2, <1>3, <1>4, PTL
<1> QED  BY <1>5, <1>6, PTL

(* auto_close_cash_register: what it writes as counted is what is expected *)
(* of the drawer, then and for ever.                                       *)
THEOREM AutomaticClosesBalance == ASSUME UserSeeded PROVE Spec => []AutomaticCloseBalances
<1> DEFINE Inv == TypeInv /\ LockInv
<1>1. Init => AutomaticCloseBalances
  BY DEF Init, AutomaticCloseBalances, Ids
<1>2. Inv /\ Inv' /\ AutomaticCloseBalances /\ [Next]_vars => AutomaticCloseBalances'
  BY BalanceStep
<1>3. Spec => []Inv
  BY LocksCorrect
<1> HIDE DEF Inv
<1> QED  BY <1>1, <1>2, <1>3, PTL DEF Spec

(* auto_open_cash_register: a session it opens starts with what the one    *)
(* before it, which is the last one closed, ended with.                    *)
THEOREM DrawersAreHandedOver == ASSUME UserSeeded PROVE Spec => []DrawerIsHandedOver
<1> DEFINE Inv == TypeInv /\ LockInv
<1>1. Init => OrderInv /\ DrawerIsHandedOver
  BY DEF Init, OrderInv, DrawerIsHandedOver, Ids
<1>2. Inv /\ OrderInv /\ DrawerIsHandedOver /\ [Next]_vars => (OrderInv /\ DrawerIsHandedOver)'
  BY OrderStep, HandedStep
<1>3. Spec => []Inv
  BY LocksCorrect
<1> HIDE DEF Inv
<1> QED  BY <1>1, <1>2, <1>3, PTL DEF Spec

(* finalize_cash_session: the receipts and the card fees of a session      *)
(* enter the cash position when it closes, once, and stay what they were.  *)
THEOREM PositionShowsSessions == ASSUME UserSeeded PROVE Spec => []PositionShowsEachSessionOnce
<1> DEFINE Inv == TypeInv /\ LockInv
<1>1. Init => PositionInv
  BY DEF Init, PositionInv, PositionShowsEachSessionOnce, Ids
<1>2. Inv /\ Inv' /\ PositionInv /\ [Next]_vars => PositionInv'
  BY PositionStep
<1>3. PositionInv => PositionShowsEachSessionOnce
  BY DEF PositionInv
<1>4. Spec => []Inv
  BY LocksCorrect
<1> HIDE DEF Inv
<1> QED  BY <1>1, <1>2, <1>3, <1>4, PTL DEF Spec
=============================================================================
