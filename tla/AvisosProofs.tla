---------------------------- MODULE AvisosProofs ----------------------------
(***************************************************************************)
(* Theorems about Avisos, for any number of print jobs, requests and       *)
(* products: its types, and that no alert is doubled.                      *)
(*                                                                         *)
(* A sale writes an alert while it holds the row of the product, and       *)
(* between its search and its write nobody else can add one: people only   *)
(* settle alerts, and an alert read or resolved is never unread again.     *)
(***************************************************************************)
EXTENDS Avisos, FiniteSetTheorems, TLAPS

USE Avisos_Constants

(* One request: what it is about, by the step it is at.                    *)
RequestOK(r) ==
  /\ step[r] \in {"trava", "procura", "grava"} => about[r] \in Products
  /\ step[r] \in {"procura", "grava"} => kind[r] \in Alerts /\ productRow[about[r]] = r
  /\ step[r] \in {"carrega", "imprime", "escreve"} => about[r] \in DOMAIN notes
  /\ step[r] = "imprime" => notes[about[r]].type = "printer_failure"

(* A note is about what its type says.                                     *)
NoteOK(n) ==
  IF notes[n].type = "printer_failure" THEN notes[n].of \in Tickets ELSE notes[n].of \in Products

(* A print job is never at a step of a request.                            *)
TicketOK(t) == step[t] \in {"ocioso", "primeira", "segunda", "anotar", "fim"}

TypeInv ==
  /\ TypeOK
  /\ \A r \in Req : RequestOK(r)
  /\ \A n \in DOMAIN notes : NoteOK(n)
  /\ \A t \in Tickets : TicketOK(t)

(* The alerts: those of a type and a product that are unread are one, and  *)
(* none when a sale is about to add one.                                   *)
Unread(type, p) == NotesOn(type, p, {"unread"})

AlertInv ==
  /\ \A p \in Products, type \in Alerts : \A m, n \in Unread(type, p) : m = n
  /\ \A r \in Req : step[r] = "grava" => Unread(kind[r], about[r]) = {}

-----------------------------------------------------------------------------
LEMMA NoteTypes ==
  ASSUME TypeOK, NEW n \in DOMAIN notes
  PROVE  notes[n] \in Note /\ notes[n].status \in Status /\ n \in 1..Len(notes)
<1>1. notes \in Seq(Note) /\ n \in 1..Len(notes)
  BY DEF TypeOK
<1>2. notes[n] \in Note
  BY <1>1
<1> QED
  BY <1>1, <1>2 DEF Note

(* A rewriting of the notes in place.                                      *)
LEMMA NotesRewritten ==
  ASSUME TypeOK, NEW f, DOMAIN f = DOMAIN notes, f = [n \in DOMAIN notes |-> f[n]],
         \A n \in DOMAIN notes : f[n] \in Note
  PROVE  f \in Seq(Note)
<1>1. notes \in Seq(Note) /\ DOMAIN notes = 1..Len(notes) /\ Len(notes) \in Nat
  BY DEF TypeOK
<1>2. f \in [1..Len(notes) -> Note]
  BY <1>1
<1> QED
  BY <1>1, <1>2

LEMMA InitTypes == Init => TypeInv
BY DEF Init, TypeInv, TypeOK, RequestOK, NoteOK, TicketOK, Steps, Status, Proc, Kinds, Alerts

LEMMA NextTypes == TypeInv /\ [Next]_vars => TypeInv'
<1> SUFFICES ASSUME TypeInv, [Next]_vars PROVE TypeInv'
  OBVIOUS
<1> USE DEF TypeInv, TypeOK, RequestOK, NoteOK, TicketOK, Steps, Status, Proc, Kinds, Alerts
<1>1. ASSUME NEW t \in Tickets, Schedule(t) PROVE TypeInv'
  BY <1>1 DEF Schedule, Moves, rows, asked
<1>2. ASSUME NEW t \in Tickets, Attempt(t) PROVE TypeInv'
  BY <1>2 DEF Attempt, AfterError, Moves, rows, asked
<1>3. ASSUME NEW t \in Tickets, NoteFailure(t) PROVE TypeInv'
  BY <1>3 DEF NoteFailure, NewNote, Note, Moves, asked
<1>4. ASSUME NEW r \in Req, Arrive(r) PROVE TypeInv'
  <2>1. PICK k \in Kinds :
          /\ kind' = [kind EXCEPT ![r] = k]
          /\ \/ /\ \E p \in Products : about' = [about EXCEPT ![r] = p]
                /\ step' = [step EXCEPT ![r] = "trava"]
             \/ /\ \E n \in DOMAIN notes : about' = [about EXCEPT ![r] = n]
                /\ step' = [step EXCEPT ![r] = "carrega"]
    BY <1>4 DEF Arrive, Moves
  <2>2. UNCHANGED <<notes, productRow, seen, printed>> /\ step[r] = "ocioso"
    BY <1>4 DEF Arrive, rows
  <2>3. TypeOK'
    <3>1. kind' \in [Req -> Kinds \cup Alerts \cup {"nenhum"}]
      BY <2>1
    <3>2. about' \in [Req -> DOMAIN notes \cup Products \cup {0}]
      BY <2>1
    <3>3. step' \in [Proc -> Steps]
      BY <2>1
    <3>4. \A p \in Products : productRow[p] # NoProc => step'[productRow[p]] \in {"procura", "grava"}
      BY <2>1, <2>2
    <3> QED
      BY <2>2, <3>1, <3>2, <3>3, <3>4
  <2>4. \A q \in Req : RequestOK(q)'
    BY <2>1, <2>2
  <2> QED
    BY <2>1, <2>2, <2>3, <2>4
<1>5. ASSUME NEW r \in Req, LockProduct(r) PROVE TypeInv'
  BY <1>5 DEF LockProduct, LockFree, Moves
<1>6. ASSUME NEW r \in Req, LookForAlert(r) PROVE TypeInv'
  BY <1>6 DEF LookForAlert, Unlocked, Ends, Moves, asked
<1>7. ASSUME NEW r \in Req, AddAlert(r) PROVE TypeInv'
  BY <1>7 DEF AddAlert, NewNote, Note, Unlocked, Ends, Moves
<1>8. ASSUME NEW r \in Req, Load(r) PROVE TypeInv'
  <2>1. about[r] \in DOMAIN notes
    BY <1>8 DEF Load
  <2>2. notes[about[r]].status \in Status
    BY <2>1, NoteTypes
  <2>3. TypeOK'
    BY <1>8, <2>2 DEF Load, Moves, rows
  <2>4. \A q \in Req : RequestOK(q)'
    BY <1>8, <2>1 DEF Load, Moves, rows
  <2> QED
    BY <1>8, <2>3, <2>4 DEF Load, Moves, rows
<1>9. ASSUME NEW r \in Req, RefuseNote(r) PROVE TypeInv'
  BY <1>9 DEF RefuseNote, Ends, Moves, rows
<1>10. ASSUME NEW r \in Req, Reprint(r) PROVE TypeInv'
  <2>1. PICK paper \in BOOLEAN :
          printed' = [printed EXCEPT ![notes[about[r]].of] = @ \/ paper]
    BY <1>10 DEF Reprint
  <2>2. notes[about[r]].of \in Tickets
    BY <1>10 DEF Reprint
  <2>3. printed' \in [Tickets -> BOOLEAN]
    BY <2>1, <2>2
  <2>4. \/ Ends(r)
        \/ step' = [step EXCEPT ![r] = "escreve"] /\ UNCHANGED asked
    BY <1>10 DEF Reprint, Moves
  <2>5. UNCHANGED rows /\ step[r] = "imprime"
    BY <1>10 DEF Reprint
  <2>6. TypeOK'
    <3>1. CASE Ends(r)
      BY <2>3, <2>5, <3>1 DEF Ends, Moves, rows
    <3>2. CASE step' = [step EXCEPT ![r] = "escreve"] /\ UNCHANGED asked
      BY <2>3, <2>5, <3>2 DEF rows, asked
    <3> QED
      BY <2>4, <3>1, <3>2
  <2>7. \A q \in Req : RequestOK(q)'
    BY <2>4, <2>5 DEF Ends, Moves, rows, asked
  <2> QED
    BY <2>4, <2>5, <2>6, <2>7 DEF Ends, Moves, rows, asked
<1>11. ASSUME NEW r \in Req, Write(r) PROVE TypeInv'
  <2>1. about[r] \in DOMAIN notes /\ step[r] = "escreve"
    BY <1>11 DEF Write
  <2>2. Written(r) \in Status
    BY <2>1, NoteTypes DEF Written
  <2>3. /\ DOMAIN notes' = DOMAIN notes
        /\ \A n \in DOMAIN notes : /\ notes'[n].type = notes[n].type
                                  /\ notes'[n].of = notes[n].of
    BY <1>11, <2>1 DEF Write
  <2>4. notes' \in Seq(Note)
    <3>1. notes[about[r]] \in Note
      BY <2>1, NoteTypes
    <3>2. [notes[about[r]] EXCEPT !.status = Written(r)] \in Note
      BY <3>1, <2>2 DEF Note
    <3>3. notes' = [notes EXCEPT ![about[r]] = [notes[about[r]] EXCEPT !.status = Written(r)]]
      BY <1>11 DEF Write
    <3> QED
      BY <2>1, <3>2, <3>3
  <2>5. TypeOK'
    BY <1>11, <2>1, <2>3, <2>4 DEF Write, Ends, Moves
  <2>6. \A q \in Req : RequestOK(q)'
    BY <1>11, <2>1, <2>3 DEF Write, Ends, Moves
  <2> QED
    BY <1>11, <2>1, <2>3, <2>5, <2>6 DEF Write, Ends, Moves
<1>12. ASSUME NEW r \in Req, WriteFails(r) PROVE TypeInv'
  BY <1>12 DEF WriteFails, Ends, Moves, rows
<1>13. CASE Cleanup
  <2>1. PICK k \in DOMAIN notes :
          notes' = [n \in DOMAIN notes |->
                      IF n <= k THEN [notes[n] EXCEPT !.status = "apagada"] ELSE notes[n]]
    BY <1>13 DEF Cleanup
  <2>2. /\ DOMAIN notes' = DOMAIN notes
        /\ \A n \in DOMAIN notes : /\ notes'[n].type = notes[n].type
                                  /\ notes'[n].of = notes[n].of
    BY <2>1
  <2>3. notes' \in Seq(Note)
    <3>1. ASSUME NEW n \in DOMAIN notes PROVE notes'[n] \in Note
      BY <2>1, NoteTypes DEF Note
    <3> QED
      BY <2>1, <3>1, NotesRewritten
  <2>4. UNCHANGED <<productRow, step, asked, printed>>
    BY <1>13 DEF Cleanup
  <2>5. TypeOK'
    BY <2>2, <2>3, <2>4 DEF asked
  <2>6. \A r \in Req : RequestOK(r)'
    BY <2>2, <2>4 DEF asked
  <2>7. \A n \in DOMAIN notes' : NoteOK(n)'
    BY <2>2
  <2> QED
    BY <2>4, <2>5, <2>6, <2>7
<1>14. CASE UNCHANGED vars
  BY <1>14 DEF vars, rows, asked
<1> QED
  BY <1>1, <1>2, <1>3, <1>4, <1>5, <1>6, <1>7, <1>8, <1>9, <1>10, <1>11, <1>12, <1>13, <1>14
  DEF Next, PrintJob, Handles
-----------------------------------------------------------------------------
(* A step that only settles or removes alerts.                             *)
Settles ==
  /\ DOMAIN notes' = DOMAIN notes
  /\ \A n \in DOMAIN notes :
       /\ notes'[n].type = notes[n].type /\ notes'[n].of = notes[n].of
       /\ notes'[n].status = "unread" => notes[n].status = "unread"
  /\ \A r \in Req : step'[r] = "grava" =>
       step[r] = "grava" /\ kind'[r] = kind[r] /\ about'[r] = about[r]

LEMMA SettlingKeepsAlerts ==
  ASSUME AlertInv, Settles PROVE AlertInv'
BY DEF AlertInv, Settles, Unread, NotesOn

LEMMA InitAlerts == Init => AlertInv
BY DEF Init, AlertInv, Unread, NotesOn

LEMMA NextAlerts == TypeInv /\ AlertInv /\ [Next]_vars => AlertInv'
<1> SUFFICES ASSUME TypeInv, AlertInv, [Next]_vars PROVE AlertInv'
  OBVIOUS
<1> USE DEF Proc
<1>1. ASSUME NEW t \in Tickets, Schedule(t) \/ Attempt(t) PROVE AlertInv'
  BY <1>1, SettlingKeepsAlerts
  DEF Schedule, Attempt, Moves, rows, asked, Settles, TypeInv, TypeOK
<1>2. ASSUME NEW t \in Tickets, NoteFailure(t) PROVE AlertInv'
  <2>1. notes' = Append(notes, [type |-> "printer_failure", of |-> t, status |-> "unread"])
    BY <1>2 DEF NoteFailure, NewNote
  <2>2. \A type \in Alerts, p \in Products : Unread(type, p)' = Unread(type, p)
    BY <2>1 DEF Unread, NotesOn, TypeInv, TypeOK, Alerts
  <2>3. \A r \in Req : step'[r] = step[r]
    BY <1>2 DEF NoteFailure, Moves, TypeInv, TypeOK
  <2> QED
    BY <1>2, <2>2, <2>3 DEF AlertInv, NoteFailure, asked, TypeInv, RequestOK
<1>3. ASSUME NEW r \in Req, Arrive(r) \/ LockProduct(r) PROVE AlertInv'
  BY <1>3, SettlingKeepsAlerts
  DEF Arrive, LockProduct, Moves, rows, Settles, TypeInv, TypeOK
<1>4. ASSUME NEW r \in Req, LookForAlert(r) PROVE AlertInv'
  BY <1>4 DEF LookForAlert, Ends, Moves, asked, AlertInv, Unread, NotesOn, TypeInv, TypeOK
<1>5. ASSUME NEW r \in Req, AddAlert(r) PROVE AlertInv'
  <2> DEFINE n == Len(notes) + 1
  <2>1. notes' = Append(notes, [type |-> kind[r], of |-> about[r], status |-> "unread"])
    BY <1>5 DEF AddAlert, NewNote
  <2>2. Unread(kind[r], about[r]) = {} /\ step[r] = "grava"
    BY <1>5 DEF AddAlert, AlertInv
  <2>3. \A type \in Alerts, p \in Products :
          Unread(type, p)' = Unread(type, p) \cup
            (IF type = kind[r] /\ p = about[r] THEN {n} ELSE {})
    BY <2>1 DEF Unread, NotesOn, TypeInv, TypeOK, Alerts
  <2>4. \A p \in Products, type \in Alerts : \A i, j \in Unread(type, p)' : i = j
    BY <2>2, <2>3 DEF AlertInv
  <2>5. \A q \in Req : q # r /\ step[q] = "grava" =>
          about[q] # about[r] /\ about[q] \in Products /\ kind[q] \in Alerts
    BY <2>2 DEF TypeInv, RequestOK
  <2>6. \A q \in Req : step'[q] = "grava" =>
          q # r /\ step[q] = "grava" /\ kind'[q] = kind[q] /\ about'[q] = about[q]
    BY <1>5 DEF AddAlert, Ends, Moves, TypeInv, TypeOK
  <2>7. ASSUME NEW q \in Req, step'[q] = "grava" PROVE (Unread(kind[q], about[q]) = {})'
    BY <2>3, <2>5, <2>6, <2>7 DEF AlertInv
  <2> QED
    BY <2>4, <2>7 DEF AlertInv
<1>6. ASSUME NEW r \in Req, Load(r) \/ RefuseNote(r) \/ WriteFails(r) PROVE AlertInv'
  BY <1>6, SettlingKeepsAlerts
  DEF Load, RefuseNote, WriteFails, Ends, Moves, rows, Settles, TypeInv, TypeOK
<1>7. ASSUME NEW r \in Req, Reprint(r) PROVE AlertInv'
  BY <1>7, SettlingKeepsAlerts DEF Reprint, Ends, Moves, rows, asked, Settles, TypeInv, TypeOK
<1>8. ASSUME NEW r \in Req, Write(r) PROVE AlertInv'
  <2>1. about[r] \in DOMAIN notes /\ step[r] = "escreve"
    BY <1>8 DEF Write, TypeInv, RequestOK
  <2>2. Written(r) = "unread" => notes[about[r]].status = "unread"
    BY DEF Written
  <2>3. /\ DOMAIN notes' = DOMAIN notes
        /\ \A n \in DOMAIN notes :
             /\ notes'[n].type = notes[n].type /\ notes'[n].of = notes[n].of
             /\ notes'[n].status = "unread" => notes[n].status = "unread"
    BY <1>8, <2>1, <2>2 DEF Write, TypeInv, TypeOK
  <2>4. \A q \in Req : step'[q] = "grava" =>
          step[q] = "grava" /\ kind'[q] = kind[q] /\ about'[q] = about[q]
    BY <1>8 DEF Write, Ends, Moves, TypeInv, TypeOK
  <2> QED
    BY <2>3, <2>4, SettlingKeepsAlerts DEF Settles
<1>9. CASE Cleanup
  BY <1>9, SettlingKeepsAlerts DEF Cleanup, asked, Settles, TypeInv, TypeOK
<1>10. CASE UNCHANGED vars
  BY <1>10, SettlingKeepsAlerts DEF vars, rows, asked, Settles
<1> QED
  BY <1>1, <1>2, <1>3, <1>4, <1>5, <1>6, <1>7, <1>8, <1>9, <1>10 DEF Next, PrintJob, Handles

LEMMA AtMostOneIsSingle ==
  ASSUME NEW S, \A m, n \in S : m = n
  PROVE  Cardinality(S) <= 1
<1>1. CASE S = {}
  BY <1>1, FS_EmptySet
<1>2. CASE S # {}
  <2>1. PICK m : S = {m}
    BY <1>2
  <2>2. Cardinality({m}) = 1
    BY FS_Singleton
  <2> QED
    BY <2>1, <2>2
<1> QED
  BY <1>1, <1>2

-----------------------------------------------------------------------------
(* Avisos is well typed, and a product's row is only ever held by a sale   *)
(* between its lock and its commit.                                        *)
THEOREM TypeCorrect == Spec => []TypeOK
<1>1. TypeInv => TypeOK
  BY DEF TypeInv
<1> QED
  BY <1>1, InitTypes, NextTypes, PTL DEF Spec

(* notify_stock_alert: however many sales run at once and whatever people  *)
(* do to the alerts meanwhile, no alert is written twice.                  *)
THEOREM NoDoubledAlert == Spec => []OneUnreadAlert
<1>1. AlertInv => OneUnreadAlert
  BY AtMostOneIsSingle DEF AlertInv, OneUnreadAlert, Unread
<1>2. Init => TypeInv /\ AlertInv
  BY InitTypes, InitAlerts
<1>3. TypeInv /\ AlertInv /\ [Next]_vars => (TypeInv /\ AlertInv)'
  BY NextTypes, NextAlerts
<1> QED
  BY <1>1, <1>2, <1>3, PTL DEF Spec
=============================================================================
