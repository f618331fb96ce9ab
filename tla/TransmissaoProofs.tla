------------------------- MODULE TransmissaoProofs -------------------------
(***************************************************************************)
(* Proofs about Transmissao, for any number of connections and broadcasts: *)
(* whatever joins, drops and leaves the list under the walks, no client    *)
(* hears a message twice, and one that was there all along misses it only  *)
(* when a removal made the walk skip.                                      *)
(***************************************************************************)
EXTENDS Transmissao, SomasProofs

-----------------------------------------------------------------------------
(* disconnect keeps the order of the list, and nobody moves up in it.      *)
LEMMA WithoutLaws ==
  ASSUME active \in Seq(Clients), IsInjective(active), NEW S
  PROVE  /\ Without(S) \in Seq(Clients) /\ IsInjective(Without(S))
         /\ DOMAIN Without(S) \subseteq DOMAIN active
         /\ \A k \in DOMAIN Without(S) :
              \E i \in DOMAIN active : Without(S)[k] = active[i] /\ k <= i
         /\ S \cap ToSet(active) = {} => Without(S) = active
<1> DEFINE n == Len(active)
           I == {i \in DOMAIN active : active[i] \notin S}
           c == Cardinality(I)
<1>1. n \in Nat /\ DOMAIN active = 1..n /\ active \in [1..n -> Clients]
  OBVIOUS
<1>2. Places(I, n)
  BY <1>1 DEF Places
<1>3. c \in Nat /\ c <= n
  BY <1>1, <1>2, FiniteNumbers DEF Places
<1>4. PICK e \in Bijection(1..c, I) :
        /\ Without(S) = [k \in 1..c |-> active[e[k]]]
        /\ \A k \in 1..c : k <= e[k]
  <2>1. \E e \in Bijection(1..c, I) :
          /\ \A s : Kept(s, I) = [k \in 1..c |-> s[e[k]]]
          /\ \A k \in 1..c : k <= e[k]
    <3> HIDE DEF I
    <3> QED  BY <1>1, <1>2, KeptPlaces
  <2> HIDE DEF I
  <2>2. Without(S) = Kept(active, I)
    BY DEF Without, I
  <2> QED  BY <2>1, <2>2
<1>5. e \in [1..c -> I] /\ \A k, l \in 1..c : e[k] = e[l] => k = l
  <2> DEFINE D == 1..c
  <2> HIDE DEF D, I
  <2>1. e \in Bijection(D, I)
    BY DEF D
  <2> QED  BY <2>1, BijectionFacts DEF D
<1>6. I \subseteq DOMAIN active
  OBVIOUS
<1>7. S \cap ToSet(active) = {} => Without(S) = active
  <2>1. ASSUME S \cap ToSet(active) = {} PROVE Without(S) = active
    <3>1. I = DOMAIN active
      BY <1>1, <2>1 DEF ToSet
    <3>2. Without(S) = Kept(active, DOMAIN active)
      BY <3>1 DEF Without
    <3> QED  BY <3>2, KeptAll
  <2> QED  BY <2>1
<1> HIDE DEF I, c
<1>8. Without(S) \in Seq(Clients) /\ DOMAIN Without(S) = 1..c
  BY <1>1, <1>3, <1>4, <1>5, <1>6
<1>9. \A k \in 1..c : Without(S)[k] = active[e[k]] /\ e[k] \in DOMAIN active /\ k <= e[k]
  BY <1>4, <1>5, <1>6
<1>10. IsInjective(Without(S))
  <2>1. ASSUME NEW k \in 1..c, NEW l \in 1..c, Without(S)[k] = Without(S)[l] PROVE k = l
    <3>1. e[k] = e[l]
      BY <1>9, <2>1 DEF IsInjective
    <3> QED  BY <1>5, <3>1
  <2> QED  BY <1>8, <2>1 DEF IsInjective
<1>11. DOMAIN Without(S) \subseteq DOMAIN active
  BY <1>1, <1>3, <1>8
<1> QED  BY <1>7, <1>8, <1>9, <1>10, <1>11

(* A list without repetitions is no longer than there are connections.     *)
LEMMA ListIsBounded ==
  ASSUME active \in Seq(Clients), IsInjective(active)
  PROVE  Len(active) \in Nat /\ Len(active) <= MaxConnections
<1> DEFINE D == 1..Len(active)
<1>1. Len(active) \in Nat /\ active \in [D -> Clients] /\ DOMAIN active = D
  OBVIOUS
<1>2. IsFiniteSet(Clients) /\ Cardinality(Clients) = MaxConnections
  BY Transmissao_Bound, FS_Interval DEF Clients
<1>3. Cardinality(D) = Len(active)
  BY <1>1, FS_Interval
<1> HIDE DEF D
<1>4. \A a, b \in D : active[a] = active[b] => a = b
  BY <1>1 DEF IsInjective
<1>5. active \in Injection(D, Clients)
  BY <1>1, <1>4, Fun_IsInj
<1>6. Cardinality(D) <= Cardinality(Clients)
  BY <1>2, <1>5, FS_Injection
<1> QED  BY <1>1, <1>2, <1>3, <1>6

-----------------------------------------------------------------------------
(* The invariant.                                                          *)

(* Only accepted connections are on the list, and have messages.           *)
ListedWereAccepted == \A i \in DOMAIN active : alive[active[i]] # "fora"
HearersWereAccepted ==
  \A c \in Clients : \A s \in Senders : alive[c] = "fora" => inbox[c][s] = 0

(* A walk is past every client it has reached: removals only bring those   *)
(* down the list.                                                          *)
WalkIsPast ==
  \A s \in Senders : \A i \in DOMAIN active : inbox[active[i]][s] # 0 => i < place[s]

(* Before a walk nothing is sent; while nobody leaves, everyone it began   *)
(* with is on the list, everyone it passed was reached or is down, and it  *)
(* stands at most one place beyond the end.                                *)
CleanBefore ==
  \A s \in Senders : step[s] # "envia" => place[s] = 1 /\ \A c \in Clients : inbox[c][s] = 0
NoneSkipped ==
  \A s \in Senders : Sending(s) /\ ~someoneLeft[s] =>
    /\ audience[s] \subseteq ToSet(active) /\ place[s] <= Len(active) + 1
    /\ \A i \in DOMAIN active :
         i < place[s] /\ alive[active[i]] = "ligado" => inbox[active[i]][s] = 1

Inv ==
  /\ TypeOK /\ NobodyHearsTwice
  /\ ListedWereAccepted /\ HearersWereAccepted /\ WalkIsPast /\ CleanBefore /\ NoneSkipped

LEMMA InvInit == Init => Inv
<1> SUFFICES ASSUME Init PROVE Inv
  OBVIOUS
<1>1. active \in Seq(Clients) /\ IsInjective(active) /\ DOMAIN active = {}
  BY DEF Init, IsInjective
<1>2. TypeOK
  BY <1>1, Transmissao_Bound DEF Init, TypeOK, Clients
<1> QED  BY <1>1, <1>2 DEF Init, Inv, NobodyHearsTwice, ListedWereAccepted, HearersWereAccepted,
            WalkIsPast, CleanBefore, NoneSkipped, Sending

(* A new connection goes to the end of the list, beyond every walk.        *)
LEMMA ConnectKeeps ==
  ASSUME Inv, NEW c \in Clients, Connect(c)
  PROVE  Inv'
<1> DEFINE n == Len(active)
<1>1. n \in Nat /\ n <= MaxConnections /\ DOMAIN active = 1..n
  BY ListIsBounded DEF Inv, TypeOK
<1>2. /\ active' \in Seq(Clients) /\ DOMAIN active' = 1..(n + 1) /\ active'[n + 1] = c
      /\ \A i \in 1..n : active'[i] = active[i] /\ active[i] \in Clients
  BY <1>1 DEF Connect, Joined, Inv, TypeOK
<1>3. alive[c] = "fora" /\ alive' = [alive EXCEPT ![c] = "ligado"]
      /\ UNCHANGED <<step, place, dead, inbox, audience, someoneLeft>>
  BY DEF Connect, walk, history
<1>4. \A i \in 1..n : active[i] # c
  BY <1>1, <1>3 DEF Inv, ListedWereAccepted
<1>5. \A i \in 1..(n + 1) : i \in 1..n \/ i = n + 1
  BY <1>1
<1> HIDE DEF n
<1>6. IsInjective(active')
  <2>1. ASSUME NEW a \in 1..(n + 1), NEW b \in 1..(n + 1), active'[a] = active'[b]
        PROVE  a = b
    BY <1>1, <1>2, <1>4, <1>5, <2>1 DEF Inv, TypeOK, IsInjective
  <2> QED  BY <1>2, <2>1 DEF IsInjective
<1>7. TypeOK'
  BY <1>2, <1>3, <1>6 DEF Inv, TypeOK
<1>8. /\ NobodyHearsTwice' /\ CleanBefore' /\ HearersWereAccepted'
  BY <1>3 DEF Inv, TypeOK, NobodyHearsTwice, CleanBefore, HearersWereAccepted
<1>9. ListedWereAccepted'
  BY <1>1, <1>2, <1>3, <1>5 DEF Inv, TypeOK, ListedWereAccepted
<1>10. WalkIsPast'
  BY <1>1, <1>2, <1>3, <1>5 DEF Inv, TypeOK, WalkIsPast, HearersWereAccepted
<1>11. NoneSkipped'
  <2>1. ToSet(active) \subseteq ToSet(active')
    BY <1>1, <1>2, <1>5 DEF ToSet
  <2>2. Len(active') = n + 1
    BY <1>1, <1>2
  <2>3. ASSUME NEW s \in Senders, Sending(s)', ~someoneLeft'[s]
        PROVE  /\ audience'[s] \subseteq ToSet(active') /\ place'[s] <= Len(active') + 1
               /\ \A i \in DOMAIN active' :
                    i < place'[s] /\ alive'[active'[i]] = "ligado" => inbox'[active'[i]][s] = 1
    <3>1. /\ audience[s] \subseteq ToSet(active) /\ place[s] <= n + 1 /\ place[s] \in Nat
          /\ \A i \in DOMAIN active :
                i < place[s] /\ alive[active[i]] = "ligado" => inbox[active[i]][s] = 1
      BY <1>3, <2>3 DEF Inv, TypeOK, NoneSkipped, Sending, n
    <3>2. ASSUME NEW i \in 1..(n + 1), i < place[s], alive'[active'[i]] = "ligado"
          PROVE  inbox[active'[i]][s] = 1
      <4>1. i \in 1..n
        BY <1>1, <3>1, <3>2
      <4> QED  BY <1>1, <1>2, <1>3, <1>4, <3>1, <3>2, <4>1 DEF Inv, TypeOK
    <3> QED  BY <1>1, <1>2, <1>3, <2>1, <2>2, <3>1, <3>2
  <2> QED  BY <2>3 DEF NoneSkipped
<1> QED  BY <1>7, <1>8, <1>9, <1>10, <1>11 DEF Inv

(* A connection that is lost stays on the list.                            *)
LEMMA DropKeeps ==
  ASSUME Inv, NEW c \in Clients, Drop(c)
  PROVE  Inv'
BY DEF Drop, walk, history, Inv, TypeOK, NobodyHearsTwice, ListedWereAccepted,
       HearersWereAccepted, WalkIsPast, CleanBefore, NoneSkipped, Sending

(* A removal, whichever walks are under way: what it does to the list.     *)
LEMMA LeaveLaws ==
  ASSUME Inv, NEW S, Leave(S)
  PROVE  /\ active' \in Seq(Clients) /\ IsInjective(active')
         /\ someoneLeft' \in [Senders -> BOOLEAN]
         /\ \A k \in DOMAIN active' :
              \E i \in DOMAIN active : active'[k] = active[i] /\ k <= i /\ k \in Nat /\ i \in Nat
         /\ \A s \in Senders : step'[s] = "envia" /\ ~someoneLeft'[s] =>
              ~someoneLeft[s] /\ active' = active
<1>1. active \in Seq(Clients) /\ IsInjective(active) /\ DOMAIN active \subseteq Nat
  BY DEF Inv, TypeOK
<1>2. active' = Without(S)
  BY DEF Leave
<1>3. ASSUME NEW k \in DOMAIN active'
      PROVE  \E i \in DOMAIN active : active'[k] = active[i] /\ k <= i /\ k \in Nat /\ i \in Nat
  BY <1>1, <1>2, WithoutLaws
<1>4. active' \in Seq(Clients) /\ IsInjective(active')
  BY <1>1, <1>2, WithoutLaws
<1>5. S \cap ToSet(active) = {} => active' = active
  BY <1>1, <1>2, WithoutLaws
<1>6. \A s \in Senders : someoneLeft'[s] =
        (step'[s] = "envia" /\ (someoneLeft[s] \/ S \cap ToSet(active) # {}))
  BY DEF Leave
<1>7. someoneLeft' \in [Senders -> BOOLEAN]
  BY DEF Leave
<1> QED  BY <1>3, <1>4, <1>5, <1>6, <1>7

LEMMA DetectKeeps ==
  ASSUME Inv, NEW c \in Clients, Detect(c)
  PROVE  Inv'
<1>1. /\ Leave({c}) /\ c \in ToSet(active)
      /\ UNCHANGED <<alive, step, place, dead, inbox, audience>>
  BY DEF Detect, walk
<1>2. /\ active' \in Seq(Clients) /\ IsInjective(active')
      /\ someoneLeft' \in [Senders -> BOOLEAN]
      /\ \A k \in DOMAIN active' :
           \E i \in DOMAIN active : active'[k] = active[i] /\ k <= i /\ k \in Nat /\ i \in Nat
  BY <1>1, LeaveLaws
<1>3. \A s \in Senders : step[s] = "envia" => someoneLeft'[s]
  BY <1>1 DEF Leave
<1>4. TypeOK' /\ NobodyHearsTwice' /\ HearersWereAccepted' /\ CleanBefore'
  BY <1>1, <1>2 DEF Inv, TypeOK, NobodyHearsTwice, HearersWereAccepted, CleanBefore
<1>5. ListedWereAccepted'
  BY <1>1, <1>2 DEF Inv, ListedWereAccepted
<1>6. WalkIsPast'
  <2>1. ASSUME NEW s \in Senders, NEW k \in DOMAIN active', inbox[active'[k]][s] # 0
        PROVE  k < place[s]
    <3>1. PICK i \in DOMAIN active : active'[k] = active[i] /\ k <= i /\ k \in Nat /\ i \in Nat
      BY <1>2
    <3>2. i < place[s] /\ place[s] \in Nat
      BY <2>1, <3>1 DEF Inv, TypeOK, WalkIsPast
    <3> QED  BY <3>1, <3>2
  <2> QED  BY <1>1, <2>1 DEF WalkIsPast
<1>7. NoneSkipped'
  BY <1>1, <1>3 DEF NoneSkipped, Sending
<1> QED  BY <1>4, <1>5, <1>6, <1>7 DEF Inv

LEMMA BeginKeeps ==
  ASSUME Inv, NEW s \in Senders, Begin(s)
  PROVE  Inv'
<1>1. /\ step[s] = "ocioso" /\ step' = [step EXCEPT ![s] = "envia"]
      /\ audience' = [audience EXCEPT ![s] = ToSet(active)]
      /\ UNCHANGED <<active, alive, place, dead, inbox, someoneLeft>>
  BY DEF Begin, list, walk
<1>2. ToSet(active) \subseteq Clients /\ Len(active) \in Nat /\ DOMAIN active \subseteq Nat \ {0}
  BY DEF Inv, TypeOK, ToSet
<1>3. TypeOK'
  BY <1>1, <1>2 DEF Inv, TypeOK
<1>4. /\ NobodyHearsTwice' /\ HearersWereAccepted' /\ CleanBefore' /\ ListedWereAccepted'
      /\ WalkIsPast'
  BY <1>1 DEF Inv, TypeOK, NobodyHearsTwice, HearersWereAccepted, CleanBefore,
              ListedWereAccepted, WalkIsPast
<1>5. place[s] = 1
  BY <1>1 DEF Inv, CleanBefore
<1>6. NoneSkipped'
  <2>1. ASSUME NEW t \in Senders, t = s
        PROVE  /\ audience'[t] \subseteq ToSet(active) /\ place[t] <= Len(active) + 1
               /\ \A i \in DOMAIN active : ~ (i < place[t])
    BY <1>1, <1>2, <1>5, <2>1 DEF Inv, TypeOK
  <2>2. ASSUME NEW t \in Senders, t # s
        PROVE  audience'[t] = audience[t] /\ step'[t] = step[t]
    BY <1>1, <2>2 DEF Inv, TypeOK
  <2> QED  BY <1>1, <2>1, <2>2 DEF Inv, NoneSkipped, Sending
<1> QED  BY <1>3, <1>4, <1>6 DEF Inv

(* A send reaches the client at the place of the walk, for the first time. *)
LEMMA DeliverKeeps ==
  ASSUME Inv, NEW s \in Senders, Deliver(s)
  PROVE  Inv'
<1> DEFINE c == active[place[s]]
<1>1. /\ step[s] = "envia" /\ place[s] <= Len(active) /\ alive[c] = "ligado"
      /\ inbox' = [inbox EXCEPT ![c][s] = @ + 1]
      /\ place' = [place EXCEPT ![s] = @ + 1]
      /\ UNCHANGED <<active, alive, step, dead, audience, someoneLeft>>
  BY DEF Deliver, Sending, More, Target, list
<1>2. /\ Len(active) \in Nat /\ Len(active) <= MaxConnections /\ DOMAIN active = 1..Len(active)
      /\ place[s] \in DOMAIN active /\ c \in Clients /\ place[s] \in Nat
      /\ \A i \in DOMAIN active : active[i] \in Clients /\ i \in Nat
  BY <1>1, ListIsBounded DEF Inv, TypeOK
<1>3. inbox[c][s] = 0
  BY <1>2 DEF Inv, TypeOK, WalkIsPast
<1> HIDE DEF c
<1>4. /\ inbox' \in [Clients -> [Senders -> Nat]] /\ inbox'[c][s] = 1
      /\ \A d \in Clients : \A t \in Senders : ~ (d = c /\ t = s) => inbox'[d][t] = inbox[d][t]
  BY <1>1, <1>2, <1>3 DEF Inv, TypeOK
<1>5. place' \in [Senders -> 1..MaxConnections + 1]
  BY <1>1, <1>2, Transmissao_Bound DEF Inv, TypeOK
<1>6. TypeOK'
  BY <1>1, <1>4, <1>5 DEF Inv, TypeOK
<1>7. NobodyHearsTwice' /\ HearersWereAccepted' /\ ListedWereAccepted'
  BY <1>1, <1>4 DEF Inv, NobodyHearsTwice, HearersWereAccepted, ListedWereAccepted
<1>8. CleanBefore'
  BY <1>1, <1>4 DEF Inv, TypeOK, CleanBefore
<1>9. \A i \in DOMAIN active : active[i] = c => i = place[s]
  BY <1>2 DEF Inv, TypeOK, IsInjective, c
<1>10. \A t \in Senders : place'[t] = IF t = s THEN place[s] + 1 ELSE place[t]
  BY <1>1 DEF Inv, TypeOK
<1>11. WalkIsPast'
  <2>1. ASSUME NEW t \in Senders, NEW i \in DOMAIN active, inbox'[active[i]][t] # 0
        PROVE  i < place'[t]
    <3>1. CASE active[i] = c /\ t = s
      BY <1>2, <1>9, <1>10, <3>1
    <3>2. CASE ~ (active[i] = c /\ t = s)
      <4>1. inbox[active[i]][t] # 0
        BY <1>2, <1>4, <2>1, <3>2
      <4>2. i < place[t]
        BY <4>1 DEF Inv, WalkIsPast
      <4>3. place[t] \in Nat /\ i \in Nat
        BY <1>2 DEF Inv, TypeOK
      <4> QED  BY <1>2, <1>10, <4>2, <4>3
    <3> QED  BY <3>1, <3>2
  <2> QED  BY <1>1, <2>1 DEF WalkIsPast
<1>12. NoneSkipped'
  <2>1. ASSUME NEW t \in Senders, step[t] = "envia", ~someoneLeft[t]
        PROVE  /\ audience[t] \subseteq ToSet(active) /\ place'[t] <= Len(active) + 1
               /\ \A i \in DOMAIN active :
                    i < place'[t] /\ alive[active[i]] = "ligado" => inbox'[active[i]][t] = 1
    <3>1. /\ audience[t] \subseteq ToSet(active) /\ place[t] <= Len(active) + 1
          /\ \A i \in DOMAIN active :
               i < place[t] /\ alive[active[i]] = "ligado" => inbox[active[i]][t] = 1
      BY <2>1 DEF Inv, NoneSkipped, Sending
    <3>2. ASSUME NEW i \in DOMAIN active, i < place'[t], alive[active[i]] = "ligado"
          PROVE  inbox'[active[i]][t] = 1
      <4>1. CASE t = s /\ i = place[s]
        BY <1>4, <4>1 DEF c
      <4>2. CASE ~ (t = s /\ i = place[s])
        <5>1. i < place[t]
          BY <1>2, <1>10, <3>2, <4>2 DEF Inv, TypeOK
        <5>2. ~ (active[i] = c /\ t = s)
          BY <1>9, <4>2
        <5> QED  BY <1>2, <1>4, <3>1, <3>2, <5>1, <5>2
      <4> QED  BY <4>1, <4>2
    <3> QED  BY <1>1, <1>2, <1>10, <3>1, <3>2
  <2> QED  BY <1>1, <2>1 DEF NoneSkipped, Sending
<1> QED  BY <1>6, <1>7, <1>8, <1>11, <1>12 DEF Inv

(* A failed send passes a client that is down.                             *)
LEMMA SendFailsKeeps ==
  ASSUME Inv, NEW s \in Senders, SendFails(s)
  PROVE  Inv'
<1> DEFINE c == active[place[s]]
<1>1. /\ step[s] = "envia" /\ place[s] <= Len(active) /\ alive[c] = "caiu"
      /\ dead' = [dead EXCEPT ![s] = @ \cup {c}]
      /\ place' = [place EXCEPT ![s] = place[s] + 1]
      /\ UNCHANGED <<active, alive, step, inbox, audience, someoneLeft>>
  BY DEF SendFails, Sending, More, Target, AfterFailure, list, history
<1>2. /\ Len(active) \in Nat /\ Len(active) <= MaxConnections /\ DOMAIN active = 1..Len(active)
      /\ place[s] \in DOMAIN active /\ c \in Clients /\ place[s] \in Nat
      /\ \A i \in DOMAIN active : active[i] \in Clients /\ i \in Nat
  BY <1>1, ListIsBounded DEF Inv, TypeOK
<1>3. /\ place' \in [Senders -> 1..MaxConnections + 1]
      /\ \A t \in Senders : place'[t] = IF t = s THEN place[s] + 1 ELSE place[t]
  BY <1>1, <1>2, Transmissao_Bound DEF Inv, TypeOK
<1>4. TypeOK'
  BY <1>1, <1>2, <1>3 DEF Inv, TypeOK
<1>5. NobodyHearsTwice' /\ HearersWereAccepted' /\ ListedWereAccepted'
  BY <1>1 DEF Inv, NobodyHearsTwice, HearersWereAccepted, ListedWereAccepted
<1>6. CleanBefore'
  BY <1>1, <1>3 DEF Inv, TypeOK, CleanBefore
<1>7. WalkIsPast'
  BY <1>1, <1>2, <1>3 DEF Inv, TypeOK, WalkIsPast
<1>8. NoneSkipped'
  <2>1. ASSUME NEW t \in Senders, step[t] = "envia", ~someoneLeft[t]
        PROVE  /\ audience[t] \subseteq ToSet(active) /\ place'[t] <= Len(active) + 1
               /\ \A i \in DOMAIN active :
                    i < place'[t] /\ alive[active[i]] = "ligado" => inbox[active[i]][t] = 1
    <3>1. /\ audience[t] \subseteq ToSet(active) /\ place[t] <= Len(active) + 1
          /\ \A i \in DOMAIN active :
               i < place[t] /\ alive[active[i]] = "ligado" => inbox[active[i]][t] = 1
      BY <2>1 DEF Inv, NoneSkipped, Sending
    <3>2. ASSUME NEW i \in DOMAIN active, i < place'[t], alive[active[i]] = "ligado"
          PROVE  i < place[t]
      BY <1>1, <1>2, <1>3, <3>2 DEF Inv, TypeOK
    <3> QED  BY <1>1, <1>2, <1>3, <3>1, <3>2
  <2> QED  BY <1>1, <2>1 DEF NoneSkipped, Sending
<1> QED  BY <1>4, <1>5, <1>6, <1>7, <1>8 DEF Inv

(* The end of a walk removes the connections it could not reach.           *)
LEMMA FinishKeeps ==
  ASSUME Inv, NEW s \in Senders, Finish(s)
  PROVE  Inv'
<1>1. /\ step' = [step EXCEPT ![s] = "fim"] /\ Leave(dead[s])
      /\ place' = [place EXCEPT ![s] = 1] /\ dead' = [dead EXCEPT ![s] = {}]
      /\ inbox' = [c \in Clients |-> [inbox[c] EXCEPT ![s] = 0]]
      /\ audience' = [audience EXCEPT ![s] = {}] /\ alive' = alive
  BY DEF Finish
<1>2. /\ active' \in Seq(Clients) /\ IsInjective(active')
      /\ someoneLeft' \in [Senders -> BOOLEAN]
      /\ \A k \in DOMAIN active' :
           \E i \in DOMAIN active : active'[k] = active[i] /\ k <= i /\ k \in Nat /\ i \in Nat
      /\ \A t \in Senders : step'[t] = "envia" /\ ~someoneLeft'[t] =>
           ~someoneLeft[t] /\ active' = active
  BY <1>1, LeaveLaws
<1>3. /\ inbox' \in [Clients -> [Senders -> Nat]]
      /\ \A c \in Clients : \A t \in Senders :
           inbox'[c][t] = IF t = s THEN 0 ELSE inbox[c][t]
  BY <1>1 DEF Inv, TypeOK
<1>4. /\ place' \in [Senders -> 1..MaxConnections + 1]
      /\ \A t \in Senders : /\ place'[t] = IF t = s THEN 1 ELSE place[t]
                            /\ step'[t] = IF t = s THEN "fim" ELSE step[t]
                            /\ t # s => audience'[t] = audience[t]
  BY <1>1, Transmissao_Bound DEF Inv, TypeOK
<1>5. TypeOK'
  BY <1>1, <1>2, <1>3, <1>4 DEF Inv, TypeOK
<1>6. NobodyHearsTwice' /\ HearersWereAccepted'
  BY <1>1, <1>3 DEF Inv, NobodyHearsTwice, HearersWereAccepted
<1>7. ListedWereAccepted'
  BY <1>1, <1>2 DEF Inv, ListedWereAccepted
<1>8. CleanBefore'
  BY <1>3, <1>4 DEF Inv, CleanBefore
<1>9. WalkIsPast'
  <2>1. ASSUME NEW t \in Senders, NEW k \in DOMAIN active', inbox'[active'[k]][t] # 0
        PROVE  k < place'[t]
    <3>1. PICK i \in DOMAIN active : active'[k] = active[i] /\ k <= i /\ k \in Nat /\ i \in Nat
      BY <1>2
    <3>2. active[i] \in Clients
      BY DEF Inv, TypeOK
    <3>3. t # s /\ inbox[active[i]][t] # 0
      BY <1>3, <2>1, <3>1, <3>2
    <3>4. i < place[t] /\ place[t] \in Nat
      BY <3>3 DEF Inv, TypeOK, WalkIsPast
    <3> QED  BY <1>4, <3>1, <3>3, <3>4
  <2> QED  BY <2>1 DEF WalkIsPast
<1>10. NoneSkipped'
  <2>1. ASSUME NEW t \in Senders, step'[t] = "envia", ~someoneLeft'[t]
        PROVE  /\ audience'[t] \subseteq ToSet(active') /\ place'[t] <= Len(active') + 1
               /\ \A i \in DOMAIN active' :
                    i < place'[t] /\ alive'[active'[i]] = "ligado" => inbox'[active'[i]][t] = 1
    <3>1. t # s /\ step[t] = "envia" /\ ~someoneLeft[t] /\ active' = active
      BY <1>2, <1>4, <2>1
    <3>2. \A i \in DOMAIN active : active[i] \in Clients
      BY DEF Inv, TypeOK
    <3> QED  BY <1>1, <1>3, <1>4, <3>1, <3>2 DEF Inv, NoneSkipped, Sending
  <2> QED  BY <2>1 DEF NoneSkipped, Sending
<1> QED  BY <1>5, <1>6, <1>7, <1>8, <1>9, <1>10 DEF Inv

LEMMA InvStep == Inv /\ [Next]_vars => Inv'
<1> SUFFICES ASSUME Inv, [Next]_vars PROVE Inv'
  OBVIOUS
<1>1. CASE UNCHANGED vars
  BY <1>1 DEF vars, list, walk, history, Inv, TypeOK, NobodyHearsTwice, ListedWereAccepted,
              HearersWereAccepted, WalkIsPast, CleanBefore, NoneSkipped, Sending
<1>2. CASE Next
  BY <1>2, ConnectKeeps, DropKeeps, DetectKeeps, BeginKeeps, DeliverKeeps, SendFailsKeeps,
     FinishKeeps DEF Next, Broadcast
<1> QED  BY <1>1, <1>2

-----------------------------------------------------------------------------
(* ConnectionManager: the list holds each connection at most once, and the *)
(* index of every walk stays within it, for any number of connections and  *)
(* of broadcasts.                                                          *)
THEOREM TransmissaoTypes == Spec => []TypeOK
<1>1. Inv => TypeOK
  BY DEF Inv
<1> QED  BY <1>1, InvInit, InvStep, PTL DEF Spec

(* broadcast: no client gets the same message twice.                       *)
THEOREM NobodyHearsTwiceAlways == Spec => []NobodyHearsTwice
<1>1. Inv => NobodyHearsTwice
  BY DEF Inv
<1> QED  BY <1>1, InvInit, InvStep, PTL DEF Spec

(* broadcast: at the end of a walk, a client that was connected when it    *)
(* began and still is has the message, unless some connection was removed. *)
THEOREM MissedOnlyWhenSomeoneLeftAlways == Spec => []MissedOnlyWhenSomeoneLeft
<1>1. Inv => MissedOnlyWhenSomeoneLeft
  <2> SUFFICES ASSUME Inv, NEW s \in Senders, Finishing(s), ~someoneLeft[s],
                      NEW c \in audience[s], alive[c] = "ligado"
               PROVE  inbox[c][s] = 1
    BY DEF MissedOnlyWhenSomeoneLeft, Heard
  <2>1. /\ audience[s] \subseteq ToSet(active)
        /\ \A i \in DOMAIN active :
             i < place[s] /\ alive[active[i]] = "ligado" => inbox[active[i]][s] = 1
    BY DEF Inv, NoneSkipped, Finishing
  <2>2. PICK i \in DOMAIN active : c = active[i]
    BY <2>1 DEF ToSet
  <2>3. i < place[s]
    BY DEF Inv, TypeOK, Finishing, More
  <2> QED  BY <2>1, <2>2, <2>3
<1> QED  BY <1>1, InvInit, InvStep, PTL DEF Spec
=============================================================================
