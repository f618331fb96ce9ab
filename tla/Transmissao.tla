----------------------------- MODULE Transmissao -----------------------------
(***************************************************************************)
(* A ConnectionManager: the list of WebSocket connections of the tables,   *)
(* of the notifications or of the stock, and the broadcasts over it.       *)
(*                                                                         *)
(* A broadcast walks the list while other tasks add to it and remove from  *)
(* it: Python's list iterator keeps an index, and every send is an await.  *)
(* Several broadcasts walk the same list at once.                          *)
(*                                                                         *)
(* A browser that reconnects is a new connection.  Left out: the token     *)
(* that is checked before a connection, the pings, and what a message      *)
(* says.                                                                   *)
(***************************************************************************)
EXTENDS Integers, Sequences, SequencesExt, Somas

CONSTANTS
  Senders,  \* tasks that broadcast, once each
  MaxConnections  \* bound of the instance

ASSUME Transmissao_Bound == MaxConnections \in Nat

(* WebSocket connections, numbered as they are accepted.                   *)
Clients == 1..MaxConnections

VARIABLES
  active,     \* active_connections
  alive,      \* whether each connection is up
  step,       \* where each sender is
  place,      \* the index of each broadcast in the list
  dead,       \* the connections it could not send to
  inbox,      \* copies a client has of each broadcast under way
  audience,   \* the clients connected when a broadcast began, and
  someoneLeft \* whether the list lost a connection since

list == <<active, alive>>
walk == <<place, dead>>
history == <<inbox, audience, someoneLeft>>
vars == <<list, step, walk, history>>

TypeOK ==
  /\ active \in Seq(Clients) /\ IsInjective(active)
  /\ alive \in [Clients -> {"fora", "ligado", "caiu"}]
  /\ step \in [Senders -> {"ocioso", "envia", "fim"}]
  /\ place \in [Senders -> 1..MaxConnections + 1]
  /\ dead \in [Senders -> SUBSET Clients]
  /\ inbox \in [Clients -> [Senders -> Nat]]
  /\ audience \in [Senders -> SUBSET Clients]
  /\ someoneLeft \in [Senders -> BOOLEAN]

Init ==
  /\ active = <<>>
  /\ alive = [c \in Clients |-> "fora"]
  /\ step = [s \in Senders |-> "ocioso"]
  /\ place = [s \in Senders |-> 1]
  /\ dead = [s \in Senders |-> {}]
  /\ inbox = [c \in Clients |-> [s \in Senders |-> 0]]
  /\ audience = [s \in Senders |-> {}]
  /\ someoneLeft = [s \in Senders |-> FALSE]

-----------------------------------------------------------------------------
(* connect.  Mutant: a new connection goes to the head of the list.        *)
JoinsFirst(c) == <<c>> \o active
Joined(c) == Append(active, c)
Connect(c) ==
  /\ alive[c] = "fora" /\ \A d \in 1..(c - 1) : alive[d] # "fora"
  /\ alive' = [alive EXCEPT ![c] = "ligado"]
  /\ active' = Joined(c)
  /\ UNCHANGED <<step, walk, history>>

(* The network or the browser closes the connection, as the socket of the  *)
(* server sees it.                                                         *)
Drop(c) ==
  /\ alive[c] = "ligado"
  /\ alive' = [alive EXCEPT ![c] = "caiu"]
  /\ UNCHANGED <<active, step, walk, history>>

(* disconnect of the connections in S, and the walks it disturbs.          *)
Without(S) == Kept(active, {i \in DOMAIN active : active[i] \notin S})
Sending(s) == step[s] = "envia"
Leave(S) ==
  /\ active' = Without(S)
  /\ someoneLeft' = [s \in Senders |->
       step'[s] = "envia" /\ (someoneLeft[s] \/ S \cap ToSet(active) # {})]

(* receive_text of the endpoint raises.                                    *)
Detect(c) ==
  /\ alive[c] = "caiu" /\ c \in ToSet(active)
  /\ UNCHANGED step
  /\ Leave({c})
  /\ UNCHANGED <<alive, walk, inbox, audience>>

-----------------------------------------------------------------------------
(* broadcast: one send at a time, to whoever is at the index by then.      *)
Begin(s) ==
  /\ step[s] = "ocioso"
  /\ step' = [step EXCEPT ![s] = "envia"]
  /\ audience' = [audience EXCEPT ![s] = ToSet(active)]
  /\ UNCHANGED <<list, walk, inbox, someoneLeft>>

More(s) == place[s] <= Len(active)
Target(s) == active[place[s]]
Deliver(s) ==
  /\ Sending(s) /\ More(s) /\ alive[Target(s)] = "ligado"
  /\ inbox' = [inbox EXCEPT ![Target(s)][s] = @ + 1]
  /\ place' = [place EXCEPT ![s] = @ + 1]
  /\ UNCHANGED <<list, step, dead, audience, someoneLeft>>

(* A failed send is noted and the walk goes on.  Mutants: it ends there;   *)
(* it tries again.                                                         *)
StopsThere(s) == Len(active) + 1
TriesAgain(s) == place[s]
AfterFailure(s) == place[s] + 1
SendFails(s) ==
  /\ Sending(s) /\ More(s) /\ alive[Target(s)] = "caiu"
  /\ dead' = [dead EXCEPT ![s] = @ \cup {Target(s)}]
  /\ place' = [place EXCEPT ![s] = AfterFailure(s)]
  /\ UNCHANGED <<list, step, history>>

(* The end of the walk removes them, and its locals are gone.              *)
Finishing(s) == Sending(s) /\ ~More(s)
Finish(s) ==
  /\ Finishing(s)
  /\ step' = [step EXCEPT ![s] = "fim"]
  /\ Leave(dead[s])
  /\ place' = [place EXCEPT ![s] = 1]
  /\ dead' = [dead EXCEPT ![s] = {}]
  /\ inbox' = [c \in Clients |-> [inbox[c] EXCEPT ![s] = 0]]
  /\ audience' = [audience EXCEPT ![s] = {}]
  /\ UNCHANGED alive

-----------------------------------------------------------------------------
Broadcast(s) == Deliver(s) \/ SendFails(s) \/ Finish(s)

Next ==
  \/ \E c \in Clients : Connect(c) \/ Drop(c) \/ Detect(c)
  \/ \E s \in Senders : Begin(s) \/ Broadcast(s)

Spec == Init /\ [][Next]_vars

(* A send returns or raises.  Nothing says when the endpoint of a lost     *)
(* connection notices, so Detect has no fairness.                          *)
FairSpec == Spec /\ \A s \in Senders : WF_vars(Broadcast(s))

-----------------------------------------------------------------------------
(* Properties.                                                             *)

(* The list changes under the walks, yet no client gets a message twice:   *)
(* removals make a walk skip, never step back.                             *)
NobodyHearsTwice == \A c \in Clients : \A s \in Senders : inbox[c][s] <= 1

(* A client that was connected when a broadcast began, and still is when   *)
(* it ends, misses it only if a connection was removed meanwhile.          *)
Heard(s) == \A c \in audience[s] : alive[c] = "ligado" => inbox[c][s] = 1
MissedOnlyWhenSomeoneLeft ==
  \A s \in Senders : Finishing(s) /\ ~someoneLeft[s] => Heard(s)

(* ws.py says of a broadcast that it reaches all connected clients.        *)
EveryClientHears == \A s \in Senders : Finishing(s) => Heard(s)

(* A broadcast ends, whoever joins, drops and leaves the list it walks: a  *)
(* request is not held by a lost screen.                                   *)
EveryBroadcastEnds == \A s \in Senders : Sending(s) ~> step[s] = "fim"
=============================================================================
