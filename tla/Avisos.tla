------------------------------- MODULE Avisos -------------------------------
(***************************************************************************)
(* Notifications: the tickets that could not be printed, the alerts of the *)
(* stock, and what people do with them.                                    *)
(*                                                                         *)
(* A print job is a task of its own: one attempt, another after two        *)
(* seconds, then a notification.  A printer can report an error after it   *)
(* has printed.  Requests read, resolve or reprint a notification, or sell *)
(* a product whose stock is low; each is one database transaction, cut at  *)
(* its awaits, and ends with a broadcast (module Transmissao).             *)
(*                                                                         *)
(* Left out: what is printed, permissions, the notifications of the cash   *)
(* register (written by the one scheduler process, module Caixa), sales of *)
(* packs and the edition of min_stock, which write alerts without the row  *)
(* lock, a failure of the database, and a restart of the server, which     *)
(* loses the print tasks in flight.                                        *)
(***************************************************************************)
EXTENDS Integers, Sequences, FiniteSets

CONSTANTS
  Tickets,   \* print jobs, each a task
  Req,       \* requests; each runs once
  NoProc,    \* the holder of a free lock
  Products   \* with little stock left

Proc == Tickets \cup Req
Kinds == {"venda", "ler", "resolver", "reimprimir"}
Alerts == {"stock_risk", "stock_out"}

ASSUME Avisos_Constants ==
  Tickets \cap Req = {} /\ NoProc \notin Proc /\ Tickets \cap Products = {}

VARIABLES
  notes,      \* notifications
  productRow, \* who holds the row of each product
  step,       \* where each process is
  kind, about,   \* what a request does (a sale: the alert it calls for), and
              \* to which notification or product
  seen,       \* the status of the notification a request loaded
  printed     \* whether a ticket came out of a printer, once or more

rows == <<notes, productRow>>
asked == <<kind, about, seen>>
vars == <<rows, step, asked, printed>>

Status == {"unread", "read", "resolved", "apagada"}
Steps == {"ocioso", "primeira", "segunda", "anotar",                \* print task
          "trava", "procura", "grava",                              \* sale
          "carrega", "imprime", "escreve",                          \* note
          "fim"}

Note == [type : Alerts \cup {"printer_failure"}, of : Tickets \cup Products, status : Status]

(* Types; and only a sale between its lock and its commit holds a row.     *)
TypeOK ==
  /\ notes \in Seq(Note)
  /\ productRow \in [Products -> Req \cup {NoProc}]
  /\ step \in [Proc -> Steps]
  /\ \A p \in Products : productRow[p] # NoProc => step[productRow[p]] \in {"procura", "grava"}
  /\ kind \in [Req -> Kinds \cup Alerts \cup {"nenhum"}]
  /\ about \in [Req -> DOMAIN notes \cup Products \cup {0}]
  /\ seen \in [Req -> Status]
  /\ printed \in [Tickets -> BOOLEAN]

Init ==
  /\ notes = <<>>
  /\ productRow = [p \in Products |-> NoProc]
  /\ step = [p \in Proc |-> "ocioso"]
  /\ kind = [r \in Req |-> "nenhum"]
  /\ about = [r \in Req |-> 0]
  /\ seen = [r \in Req |-> "apagada"]
  /\ printed = [t \in Tickets |-> FALSE]

Moves(p, to) == step' = [step EXCEPT ![p] = to]

(* The end of a process: its locals are gone.                              *)
Ends(p) ==
  /\ Moves(p, "fim")
  /\ kind' = [r \in Req |-> IF r = p THEN "nenhum" ELSE kind[r]]
  /\ about' = [r \in Req |-> IF r = p THEN 0 ELSE about[r]]
  /\ seen' = [r \in Req |-> IF r = p THEN "apagada" ELSE seen[r]]

(* A new notification, and the ones of a type and a subject.               *)
NewNote(type, of) == Append(notes, [type |-> type, of |-> of, status |-> "unread"])
NotesOn(type, of, S) ==
  {n \in DOMAIN notes : notes[n].type = type /\ notes[n].of = of /\ notes[n].status \in S}

-----------------------------------------------------------------------------
(* Printing.                                                               *)
Schedule(t) ==
  /\ step[t] = "ocioso"
  /\ Moves(t, "primeira")
  /\ UNCHANGED <<rows, asked, printed>>

(* send_to_function_printer: paper may come out, and an error too.         *)
(* Mutant: a ticket that fails twice is only logged.                       *)
GivesUp(t) == IF step[t] = "primeira" THEN "segunda" ELSE "fim"
AfterError(t) == IF step[t] = "primeira" THEN "segunda" ELSE "anotar"
Attempt(t) ==
  /\ step[t] \in {"primeira", "segunda"}
  /\ \E paper, error \in BOOLEAN :
       /\ paper \/ error
       /\ printed' = [printed EXCEPT ![t] = @ \/ paper]
       /\ Moves(t, IF error THEN AfterError(t) ELSE "fim")
  /\ UNCHANGED <<rows, asked>>

(* create_printer_failure_notification.                                    *)
NoteFailure(t) ==
  /\ step[t] = "anotar"
  /\ notes' = NewNote("printer_failure", t)
  /\ Moves(t, "fim")
  /\ UNCHANGED <<productRow, asked, printed>>

-----------------------------------------------------------------------------
(* Requests.                                                               *)
Arrive(r) ==
  /\ step[r] = "ocioso"
  /\ \E k \in Kinds :
       /\ kind' = [kind EXCEPT ![r] = k]
       /\ \/ /\ k = "venda"
             /\ \E p \in Products : about' = [about EXCEPT ![r] = p]
             /\ Moves(r, "trava")
          \/ /\ k # "venda"
             /\ \E n \in DOMAIN notes : about' = [about EXCEPT ![r] = n]
             /\ Moves(r, "carrega")
  /\ UNCHANGED <<rows, seen, printed>>

(* A sale locks the product, and finds how little is left of it (refunds   *)
(* and entries of stock, not modelled here, may have raised it).  Mutant:  *)
(* it does not wait for the lock.                                          *)
NoLock(r) == TRUE
LockFree(r) == productRow[about[r]] = NoProc
LockProduct(r) ==
  /\ step[r] = "trava" /\ LockFree(r)
  /\ productRow' = [productRow EXCEPT ![about[r]] = r]
  /\ \E alert \in Alerts : kind' = [kind EXCEPT ![r] = alert]
  /\ Moves(r, "procura")
  /\ UNCHANGED <<notes, about, seen, printed>>

(* create_stock_notification looks for an alert that is not resolved, and  *)
(* adds one; the sale commits.                                             *)
Unlocked(r) == [p \in Products |-> IF productRow[p] = r THEN NoProc ELSE productRow[p]]
LookForAlert(r) ==
  /\ step[r] = "procura"
  /\ IF NotesOn(kind[r], about[r], {"unread", "read"}) = {}
     THEN Moves(r, "grava") /\ UNCHANGED <<productRow, asked>>
     ELSE Ends(r) /\ productRow' = Unlocked(r)
  /\ UNCHANGED <<notes, printed>>

AddAlert(r) ==
  /\ step[r] = "grava"
  /\ notes' = NewNote(kind[r], about[r])
  /\ productRow' = Unlocked(r)
  /\ Ends(r)
  /\ UNCHANGED printed

(* get_notification_by_id.                                                 *)
There(r) == notes[about[r]].status # "apagada"
Load(r) ==
  /\ step[r] = "carrega" /\ There(r)
  /\ kind[r] = "reimprimir" => notes[about[r]].type = "printer_failure"
  /\ seen' = [seen EXCEPT ![r] = notes[about[r]].status]
  /\ Moves(r, IF kind[r] = "reimprimir" THEN "imprime" ELSE "escreve")
  /\ UNCHANGED <<rows, kind, about, printed>>

RefuseNote(r) ==
  /\ step[r] = "carrega"
  /\ ~There(r) \/ (kind[r] = "reimprimir" /\ notes[about[r]].type # "printer_failure")
  /\ Ends(r)
  /\ UNCHANGED <<rows, printed>>

(* send_to_printer on another printer.                                     *)
Reprint(r) ==
  /\ step[r] = "imprime"
  /\ \E paper, error \in BOOLEAN :
       /\ paper \/ error
       /\ printed' = [printed EXCEPT ![notes[about[r]].of] = @ \/ paper]
       /\ IF error THEN Ends(r) ELSE Moves(r, "escreve") /\ UNCHANGED asked
  /\ UNCHANGED <<rows>>

(* mark_as_read or mark_as_resolved: the UPDATE carries the status only    *)
(* when it differs from the one loaded, and fails if the row is gone.      *)
Written(r) ==
  IF kind[r] = "ler" /\ seen[r] = "unread" THEN "read"
  ELSE IF kind[r] # "ler" /\ seen[r] # "resolved" THEN "resolved"
  ELSE notes[about[r]].status
Write(r) ==
  /\ step[r] = "escreve"
  /\ There(r)
  /\ notes' = [notes EXCEPT ![about[r]].status = Written(r)]
  /\ Ends(r)
  /\ UNCHANGED <<productRow, printed>>

WriteFails(r) ==
  /\ step[r] = "escreve" /\ ~There(r)
  /\ Ends(r)
  /\ UNCHANGED <<rows, printed>>

(* cleanup_old_notifications: the oldest ones go.                          *)
Cleanup ==
  /\ \E k \in DOMAIN notes :
       /\ notes[k].status # "apagada"
       /\ notes' = [n \in DOMAIN notes |->
            IF n <= k THEN [notes[n] EXCEPT !.status = "apagada"] ELSE notes[n]]
  /\ UNCHANGED <<productRow, step, asked, printed>>

-----------------------------------------------------------------------------
PrintJob(t) == Attempt(t) \/ NoteFailure(t)
Handles(r) ==
  \/ LockProduct(r) \/ LookForAlert(r) \/ AddAlert(r)
  \/ Load(r) \/ RefuseNote(r) \/ Reprint(r) \/ Write(r) \/ WriteFails(r)

Next ==
  \/ \E t \in Tickets : Schedule(t) \/ PrintJob(t)
  \/ \E r \in Req : Arrive(r) \/ Handles(r)
  \/ Cleanup

Spec == Init /\ [][Next]_vars

(* The event loop resumes every task; printers answer or time out.         *)
FairSpec ==
  /\ Spec
  /\ \A t \in Tickets : WF_vars(PrintJob(t))
  /\ \A r \in Req : WF_vars(Handles(r))

-----------------------------------------------------------------------------
(* Properties.                                                             *)

(* However sales interleave with each other and with what people do to the *)
(* alerts, a product has one unread alert of each type at most.            *)
OneUnreadAlert ==
  \A p \in Products : \A type \in Alerts : Cardinality(NotesOn(type, p, {"unread"})) <= 1

(* The print task of an order ends with a ticket on paper or with somebody *)
(* told that there is none, whatever the printers answer.                  *)
TicketsArePrintedOrAnnounced ==
  \A t \in Tickets :
    step[t] = "primeira" ~> printed[t] \/ \E n \in DOMAIN notes : notes[n].of = t
=============================================================================
