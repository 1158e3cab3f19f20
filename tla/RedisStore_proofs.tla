-------------------------- MODULE RedisStore_proofs --------------------------
(***************************************************************************)
(* Proofs about the queue in Redis and the hybrid ticket store, for any    *)
(* number of tickets, reservations, workers, requests and faults.          *)
(***************************************************************************)
EXTENDS RedisStore, TLAPS

\* What the keys of Redis satisfy after every command.
Keys ==
  /\ known \subseteq Tickets
  /\ pools \subseteq Tickets
  /\ DOMAIN reservations \subseteq known
  /\ \A t \in DOMAIN reservations : reservations[t] \in Reservations
  /\ RedisAgrees

\* The tickets Redis offers, or gives back when their deadline passes.
Findable == pools \cup DOMAIN expiry

Waits(t) == rows[t].state \in {"QUEUED", "RESERVED"}

\* A worker that has drawn an id.
Active(w) == worker[w].pc \notin {"idle", "recover", "pick"}

\* The ids of the attempts in progress are different.
IdsAreFresh ==
  \A v, w \in Workers : v # w /\ Active(v) /\ Active(w) => worker[v].id # worker[w].id

\* What the attempt of worker w may find under its id.
AttemptOK(w) ==
  LET id == worker[w].id IN
  /\ id \in Reservations
  /\ HeldBy(id) \subseteq worker[w].roster
  /\ \A t \in Tickets : rows[t].id = id => t \in worker[w].roster
  /\ \A c \in Clients :
       client[c].row.id = id => client[c].ticket \in worker[w].roster
  /\ worker[w].pc \in {"reserve", "reservePg"} =>
       /\ \A t \in Tickets : rows[t].id # id
       /\ \A c \in Clients : client[c].row.id # id
  /\ worker[w].pc \in {"make", "assign"} =>
       \/ ReservationRows(id) = worker[w].roster
       \/ ReservationRows(id) = {} /\ id \in lapsed
  /\ worker[w].pc = "finalize" =>
       \A t \in worker[w].roster : rows[t].state = "ASSIGNED"

\* What request c knows of its ticket.
RequestOK(c) ==
  /\ client[c].pc = "idle" => client[c].row = Absent
  /\ client[c].pc # "idle" =>
       client[c].ticket \in Tickets /\ rows[client[c].ticket] # Absent
  /\ client[c].pc \in {"look", "remove"} =>
       Decided(client[c].ticket) /\ client[c].row = rows[client[c].ticket]

\* Redis holds ticket t as the table says.
Restored(t) ==
  /\ rows[t].state = "QUEUED" => InState(t, "QUEUED") /\ t \in pools
  /\ rows[t].state = "RESERVED" => ReservedBy(t, rows[t].id)

\* Before the service is up nothing else runs, and what has been restored is
\* in Redis.
BootOK ==
  /\ ~Serving => /\ \A w \in Workers : worker[w].pc = "idle"
                 /\ \A c \in Clients : client[c].pc = "idle"
  /\ boot.pc = "restore" => \A t \in Tickets \ boot.todo : Restored(t)

IInv ==
  /\ TypeOK
  /\ Keys
  /\ IdsAreFresh
  /\ \A w \in Workers : Active(w) => AttemptOK(w)
  /\ \A c \in Clients : RequestOK(c)
  /\ BootOK
  /\ \A t \in accepted : rows[t] # Absent
  /\ NoTicketForgotten

-----------------------------------------------------------------------------
(* The commands of Redis *)

\* HeldBy and ReservationRows after the step, of the same id.
HeldAfter(id) == {t \in DOMAIN reservations' : reservations'[t] = id}
RowsAfter(id) == {t \in Tickets : rows'[t].state = "RESERVED" /\ rows'[t].id = id}

\* No reservation gains a ticket.
NothingHeld == \A r \in Reservations : HeldAfter(r) \subseteq HeldBy(r)

\* Every ticket that could be found still can.
NothingLost == Findable \subseteq Findable'

\* The keys agree when all are empty.
LEMMA EmptyKeys ==
  ASSUME states = << >>, known = {}, pools = {}, reservations = << >>, expiry = << >>
  PROVE  Keys /\ \A r \in Reservations : HeldBy(r) = {}
<1>1. DOMAIN << >> = {}
  OBVIOUS
<1>2. \A t \in Tickets : \A s : ~InState(t, s)
  BY <1>1 DEF InState
<1>3. QED
  BY <1>1, <1>2 DEF Keys, RedisAgrees, HeldBy

\* The tickets that go back to their pools.
LEMMA RequeueKeys ==
  ASSUME Keys, NEW S \in SUBSET Tickets, Requeue(S),
         expiry' = DeleteAll(expiry, S), UNCHANGED known
  PROVE  Keys' /\ NothingHeld /\ NothingLost
<1>1. /\ states' = PutAll(states, S, "QUEUED")
      /\ reservations' = DeleteAll(reservations, S)
      /\ pools' = pools \cup S
  BY DEF Requeue
<1>2. /\ expiry = reservations
      /\ DOMAIN reservations = {t \in Tickets : InState(t, "RESERVED")}
  BY DEF Keys, RedisAgrees
<1>3. \A t \in Tickets : /\ InState(t, "RESERVED")' <=> InState(t, "RESERVED") /\ t \notin S
                         /\ InState(t, "QUEUED")' <=> InState(t, "QUEUED") \/ t \in S
  BY <1>1 DEF InState, PutAll
<1>4. DOMAIN reservations' = DOMAIN reservations \ S
  BY <1>1 DEF DeleteAll, Restrict
<1>5. \A t \in DOMAIN reservations' : reservations'[t] = reservations[t]
  BY <1>1, <1>4 DEF DeleteAll, Restrict
<1>6. expiry' = reservations'
  BY <1>1, <1>2
<1>7. Keys'
  <2>1. DOMAIN reservations' = {t \in Tickets : InState(t, "RESERVED")'}
    BY <1>2, <1>3, <1>4
  <2>2. \A t \in Tickets : /\ InState(t, "QUEUED")' => t \in pools'
                           /\ InState(t, "RESERVED")' => t \notin pools'
    BY <1>1, <1>3 DEF Keys, RedisAgrees
  <2>3. /\ known' \subseteq Tickets /\ pools' \subseteq Tickets
        /\ DOMAIN reservations' \subseteq known'
    BY <1>1, <1>4 DEF Keys
  <2>4. \A t \in DOMAIN reservations' : reservations'[t] \in Reservations
    BY <1>4, <1>5 DEF Keys
  <2>5. QED
    BY <1>6, <2>1, <2>2, <2>3, <2>4 DEF Keys, RedisAgrees
<1>8. NothingHeld
  BY <1>4, <1>5 DEF NothingHeld, HeldBy, HeldAfter
<1>9. NothingLost
  BY <1>1, <1>2, <1>4, <1>6, <1>7 DEF NothingLost, Findable, Keys
<1>10. QED
  BY <1>7, <1>8, <1>9

\* A reservation takes its tickets, which the expiry index gives back.
LEMMA ReserveKeys ==
  ASSUME Keys, NEW S, NEW r \in Reservations, ReserveScript(S, r)
  PROVE  /\ Keys' /\ NothingLost
         /\ \A x \in Reservations :
              HeldAfter(x) \subseteq HeldBy(x) \cup (IF x = r THEN S ELSE {})
<1>1. S \subseteq known /\ S \subseteq Tickets
  BY DEF ReserveScript, CanReserve, Keys
<1>2. /\ states' = PutAll(states, S, "RESERVED")
      /\ reservations' = PutAll(reservations, S, r)
      /\ expiry' = PutAll(expiry, S, r)
      /\ pools' = pools \ S /\ known' = known
  BY DEF ReserveScript
<1>3. \A t \in Tickets : /\ InState(t, "RESERVED")' <=> InState(t, "RESERVED") \/ t \in S
                         /\ InState(t, "QUEUED")' <=> InState(t, "QUEUED") /\ t \notin S
  BY <1>2 DEF InState, PutAll
<1>4. /\ expiry = reservations
      /\ DOMAIN reservations = {t \in Tickets : InState(t, "RESERVED")}
  BY DEF Keys, RedisAgrees
<1>5. DOMAIN reservations' = DOMAIN reservations \cup S
  BY <1>2 DEF PutAll
<1>6. \A t \in DOMAIN reservations' :
        reservations'[t] = IF t \in S THEN r ELSE reservations[t]
  BY <1>2, <1>5 DEF PutAll
<1>7. expiry' = reservations'
  BY <1>2, <1>4
<1>8. Keys'
  <2>1. DOMAIN reservations' = {t \in Tickets : InState(t, "RESERVED")'}
    BY <1>1, <1>3, <1>4, <1>5
  <2>2. \A t \in Tickets : /\ InState(t, "QUEUED")' => t \in pools'
                           /\ InState(t, "RESERVED")' => t \notin pools'
    BY <1>2, <1>3 DEF Keys, RedisAgrees
  <2>3. /\ known' \subseteq Tickets /\ pools' \subseteq Tickets
        /\ DOMAIN reservations' \subseteq known'
    BY <1>1, <1>2, <1>5 DEF Keys
  <2>4. \A t \in DOMAIN reservations' : reservations'[t] \in Reservations
    BY <1>5, <1>6 DEF Keys
  <2>5. QED
    BY <1>7, <2>1, <2>2, <2>3, <2>4 DEF Keys, RedisAgrees
<1>9. NothingLost
  BY <1>2, <1>4, <1>5, <1>7 DEF NothingLost, Findable
<1>10. QED
  BY <1>5, <1>6, <1>8, <1>9 DEF HeldBy, HeldAfter

\* A release that is not a conflict.
LEMMA ReleaseKeys ==
  ASSUME Keys, NEW r \in Reservations, ReleaseScript(r)
  PROVE  Keys' /\ NothingHeld /\ NothingLost
<1>1. TicketsOf(r) \subseteq Tickets
  BY DEF ReleaseScript, CanRelease, Keys
<1>2. QED
  BY <1>1, RequeueKeys DEF ReleaseScript

\* The recovery finds all that is in the index, because the keys agree.
LEMMA RecoverKeys ==
  ASSUME Keys, NEW over, RecoverScript(over)
  PROVE  Keys' /\ NothingHeld /\ NothingLost
<1> DEFINE due == {t \in DOMAIN expiry : expiry[t] \in over}
           back == {t \in due : /\ InState(t, "RESERVED")
                                /\ t \in DOMAIN reservations
                                /\ t \in known}
<1>1. due = back /\ back \subseteq Tickets
  BY DEF Keys, RedisAgrees
<1>2. Requeue(back) /\ expiry' = DeleteAll(expiry, due) /\ UNCHANGED known
  BY DEF RecoverScript
<1> HIDE DEF back, due
<1>3. QED
  BY <1>1, <1>2, RequeueKeys

\* The tickets of a match leave the index.
LEMMA FinalizeKeys ==
  ASSUME Keys, NEW r \in Reservations, FinalizeScript(r)
  PROVE  /\ Keys' /\ NothingHeld
         /\ Findable \subseteq Findable' \cup HeldBy(r)
<1> DEFINE S == {t \in TicketsOf(r) : ReservedBy(t, r)}
<1>1. /\ states' = PutAll(states, S, "ASSIGNED")
      /\ reservations' = DeleteAll(reservations, S)
      /\ expiry' = DeleteAll(expiry, S)
      /\ pools' = pools /\ known' = known
  BY DEF FinalizeScript
<1>2. S \subseteq HeldBy(r)
  BY DEF ReservedBy
<1> HIDE DEF S
<1>3. /\ expiry = reservations
      /\ DOMAIN reservations = {t \in Tickets : InState(t, "RESERVED")}
  BY DEF Keys, RedisAgrees
<1>4. \A t \in Tickets : /\ InState(t, "RESERVED")' <=> InState(t, "RESERVED") /\ t \notin S
                         /\ InState(t, "QUEUED")' <=> InState(t, "QUEUED") /\ t \notin S
  BY <1>1 DEF InState, PutAll
<1>5. DOMAIN reservations' = DOMAIN reservations \ S
  BY <1>1 DEF DeleteAll, Restrict
<1>6. \A t \in DOMAIN reservations' : reservations'[t] = reservations[t]
  BY <1>1, <1>5 DEF DeleteAll, Restrict
<1>7. expiry' = reservations'
  BY <1>1, <1>3
<1>8. Keys'
  <2>1. DOMAIN reservations' = {t \in Tickets : InState(t, "RESERVED")'}
    BY <1>3, <1>4, <1>5
  <2>2. \A t \in Tickets : /\ InState(t, "QUEUED")' => t \in pools'
                           /\ InState(t, "RESERVED")' => t \notin pools'
    BY <1>1, <1>4 DEF Keys, RedisAgrees
  <2>3. /\ known' \subseteq Tickets /\ pools' \subseteq Tickets
        /\ DOMAIN reservations' \subseteq known'
    BY <1>1, <1>5 DEF Keys
  <2>4. \A t \in DOMAIN reservations' : reservations'[t] \in Reservations
    BY <1>5, <1>6 DEF Keys
  <2>5. QED
    BY <1>7, <2>1, <2>2, <2>3, <2>4 DEF Keys, RedisAgrees
<1>9. NothingHeld
  BY <1>5, <1>6 DEF NothingHeld, HeldBy, HeldAfter
<1>10. Findable \subseteq Findable' \cup HeldBy(r)
  BY <1>1, <1>2, <1>3, <1>5, <1>7 DEF Findable
<1>11. QED
  BY <1>8, <1>9, <1>10

\* A snapshot of a row, however old.
LEMMA UpsertKeys ==
  ASSUME Keys, NEW t \in Tickets, NEW row \in Row, UpsertTicket(t, row)
  PROVE  /\ Keys' /\ NothingLost
         /\ t \in Findable'
         /\ \A x \in Reservations :
              HeldAfter(x) \subseteq HeldBy(x) \cup (IF x = row.id THEN {t} ELSE {})
<1>1. /\ states' = Put(states, t, row.state)
      /\ known' = known \cup {t}
  BY DEF UpsertTicket
<1>2. /\ expiry = reservations
      /\ DOMAIN reservations = {u \in Tickets : InState(u, "RESERVED")}
  BY DEF Keys, RedisAgrees
<1>3. \A u \in Tickets : \A s : InState(u, s)' <=> IF u = t THEN row.state = s ELSE InState(u, s)
  BY <1>1 DEF InState, Put
<1>4. CASE row.state = "QUEUED"
  <2>1. /\ pools' = pools \cup {t}
        /\ reservations' = Delete(reservations, t)
        /\ expiry' = Delete(expiry, t)
    BY <1>4 DEF UpsertTicket
  <2>2. DOMAIN reservations' = DOMAIN reservations \ {t}
    BY <2>1 DEF Delete, Restrict
  <2>3. \A u \in DOMAIN reservations' : reservations'[u] = reservations[u]
    BY <2>1, <2>2 DEF Delete, Restrict
  <2>4. expiry' = reservations'
    BY <1>2, <2>1
  <2>5. Keys'
    BY <1>1, <1>2, <1>3, <1>4, <2>1, <2>2, <2>3, <2>4 DEF Keys, RedisAgrees
  <2>6. NothingLost /\ t \in Findable'
    BY <1>2, <2>1, <2>2, <2>4 DEF NothingLost, Findable
  <2>7. QED
    BY <2>2, <2>3, <2>5, <2>6 DEF HeldBy, HeldAfter
<1>5. CASE row.state = "RESERVED"
  <2>1. /\ pools' = pools \ {t}
        /\ reservations' = Put(reservations, t, row.id)
        /\ expiry' = Put(expiry, t, row.id)
    BY <1>5 DEF UpsertTicket
  <2>2. row.id \in Reservations
    BY <1>5 DEF Row, Absent
  <2>3. DOMAIN reservations' = DOMAIN reservations \cup {t}
    BY <2>1 DEF Put
  <2>4. \A u \in DOMAIN reservations' :
          reservations'[u] = IF u = t THEN row.id ELSE reservations[u]
    BY <2>1, <2>3 DEF Put
  <2>5. expiry' = reservations'
    BY <1>2, <2>1
  <2>6. Keys'
    BY <1>1, <1>2, <1>3, <1>5, <2>1, <2>2, <2>3, <2>4, <2>5 DEF Keys, RedisAgrees
  <2>7. NothingLost /\ t \in Findable'
    BY <1>2, <2>1, <2>3, <2>5 DEF NothingLost, Findable
  <2>8. QED
    BY <2>3, <2>4, <2>6, <2>7 DEF HeldBy, HeldAfter
<1>6. QED
  BY <1>4, <1>5 DEF UpsertTicket

\* The removal of one ticket, whatever was read before.
LEMMA RemoveKeys ==
  ASSUME Keys, NEW t \in Tickets, NEW state, NEW inPool, NEW heldBy,
         state \notin {"QUEUED", "RESERVED"}, RemoveTicket(t, state, inPool, heldBy)
  PROVE  /\ Keys' /\ NothingHeld
         /\ Findable \subseteq Findable' \cup {t}
<1>1. /\ states' = Put(states, t, state)
      /\ reservations' = Delete(reservations, t)
      /\ expiry' = Delete(expiry, t)
      /\ known' = known
      /\ pools' \subseteq pools /\ pools \subseteq pools' \cup {t}
  BY DEF RemoveTicket
<1>2. /\ expiry = reservations
      /\ DOMAIN reservations = {u \in Tickets : InState(u, "RESERVED")}
  BY DEF Keys, RedisAgrees
<1>3. \A u \in Tickets : \A s : InState(u, s)' <=> IF u = t THEN state = s ELSE InState(u, s)
  BY <1>1 DEF InState, Put
<1>4. DOMAIN reservations' = DOMAIN reservations \ {t}
  BY <1>1 DEF Delete, Restrict
<1>5. \A u \in DOMAIN reservations' : reservations'[u] = reservations[u]
  BY <1>1, <1>4 DEF Delete, Restrict
<1>6. expiry' = reservations'
  BY <1>1, <1>2
<1>7. Keys'
  BY <1>1, <1>2, <1>3, <1>4, <1>5, <1>6 DEF Keys, RedisAgrees
<1>8. NothingHeld
  BY <1>4, <1>5 DEF NothingHeld, HeldBy, HeldAfter
<1>9. Findable \subseteq Findable' \cup {t}
  BY <1>1, <1>2, <1>4, <1>6 DEF Findable
<1>10. QED
  BY <1>7, <1>8, <1>9

\* The keys RedisAgrees speaks of are left alone.
LEMMA QuietKeys ==
  ASSUME Keys, UNCHANGED <<states, known, pools, reservations, expiry>>
  PROVE  Keys' /\ NothingHeld /\ NothingLost
  BY DEF Keys, RedisAgrees, InState, NothingHeld, HeldBy, HeldAfter, NothingLost, Findable

-----------------------------------------------------------------------------
(* What a step may do to the attempts and requests of others *)

WorkerState == [pc : WorkerPC, id : Reservations \cup {None}, roster : SUBSET Tickets]

ClientState ==
  [pc : ClientPC, ticket : Tickets \cup {None}, row : Row, pool : BOOLEAN,
   held : Reservations \cup {None}]

\* Rows only move forward: a decision stands, a row stays, and only a new
\* row, or one that waited, waits.
RowsKeep ==
  /\ rows' \in [Tickets -> Row]
  /\ \A t \in Tickets :
       /\ Decided(t) => rows'[t] = rows[t]
       /\ rows[t] # Absent => rows'[t] # Absent
       /\ rows'[t].state \in {"QUEUED", "RESERVED"} => Waits(t) \/ rows[t] = Absent

\* A ticket that still waits can still be found.
StaysFindable ==
  \A t \in Findable : rows'[t].state \in {"QUEUED", "RESERVED"} => t \in Findable'

\* The tickets of a reservation may be written by a request that has read it.
ReadWith(id) == {t \in Tickets : \E c \in Clients :
                   client[c].ticket = t /\ client[c].row.id = id}

\* The step leaves reservation id alone, or its deadline is past.
LeavesAlone(id) ==
  /\ HeldAfter(id) \subseteq HeldBy(id) \cup ReadWith(id)
  /\ \A t \in Tickets : rows'[t].id = id => rows[t].id = id
  /\ \/ RowsAfter(id) = ReservationRows(id)
     \/ RowsAfter(id) = {} /\ id \in lapsed

\* The attempt of another worker is not disturbed.
LEMMA AttemptSurvives ==
  ASSUME IInv, NEW v \in Workers, Active(v), worker'[v] = worker[v],
         RowsKeep, lapsed \subseteq lapsed', LeavesAlone(worker[v].id),
         \A c \in Clients : client'[c].row.id = worker[v].id =>
           \/ client'[c] = client[c]
           \/ /\ client'[c].ticket \in Tickets
              /\ rows[client'[c].ticket].id = worker[v].id
  PROVE  AttemptOK(v)'
<1>1. AttemptOK(v) /\ worker[v].roster \subseteq Tickets
  BY DEF IInv, TypeOK
<1>2. PICK id \in Reservations : id = worker[v].id
  BY <1>1 DEF AttemptOK
<1>3. worker'[v].id = id /\ LeavesAlone(id)
  BY <1>2
<1>4. HeldAfter(id) \subseteq worker[v].roster
  BY <1>1, <1>2, <1>3 DEF AttemptOK, LeavesAlone, ReadWith
<1>5. \A t \in Tickets : rows'[t].id = id => t \in worker[v].roster
  BY <1>1, <1>2, <1>3 DEF AttemptOK, LeavesAlone
<1>6. \A c \in Clients : client'[c].row.id = id => client'[c].ticket \in worker[v].roster
  BY <1>1, <1>2 DEF AttemptOK
<1>7. worker[v].pc \in {"reserve", "reservePg"} =>
        /\ \A t \in Tickets : rows'[t].id # id
        /\ \A c \in Clients : client'[c].row.id # id
  BY <1>1, <1>2, <1>3 DEF AttemptOK, LeavesAlone
<1>8. worker[v].pc \in {"make", "assign"} =>
        \/ RowsAfter(id) = worker[v].roster
        \/ RowsAfter(id) = {} /\ id \in lapsed'
  BY <1>1, <1>2, <1>3 DEF AttemptOK, LeavesAlone
<1>9. worker[v].pc = "finalize" => \A t \in worker[v].roster : rows'[t].state = "ASSIGNED"
  BY <1>1 DEF AttemptOK, RowsKeep, Decided
<1>10. QED
  BY <1>3, <1>4, <1>5, <1>6, <1>7, <1>8, <1>9
  DEF AttemptOK, HeldBy, HeldAfter, ReservationRows, RowsAfter, InTable

\* The request of another client is not disturbed.
LEMMA RequestSurvives ==
  ASSUME IInv, NEW c \in Clients, client'[c] = client[c], RowsKeep
  PROVE  RequestOK(c)'
  BY DEF IInv, RequestOK, RowsKeep, Decided

\* The tickets of the requests that were answered can still be found.
LEMMA AcceptedSurvive ==
  ASSUME IInv, RowsKeep, StaysFindable, Serving' => Serving,
         accepted' \subseteq Tickets,
         \A t \in accepted' \ accepted : rows'[t] # Absent /\ t \in Findable'
  PROVE  /\ \A t \in accepted' : rows'[t] # Absent
         /\ NoTicketForgotten'
<1>1. \A t \in accepted' : rows'[t] # Absent
  BY DEF IInv, TypeOK, RowsKeep
<1>2. ASSUME Serving', NEW t \in accepted', rows'[t].state \in {"QUEUED", "RESERVED"}
      PROVE  t \in Findable'
  <2>1. CASE t \in accepted
    <3>1. Waits(t)
      BY <1>2, <2>1 DEF IInv, TypeOK, RowsKeep
    <3>2. t \in Findable
      BY <1>2, <2>1, <3>1 DEF IInv, NoTicketForgotten, Findable, Waits
    <3>3. QED
      BY <1>2, <3>2 DEF StaysFindable
  <2>2. CASE t \notin accepted
    BY <1>2, <2>2
  <2>3. QED
    BY <2>1, <2>2
<1>3. NoTicketForgotten'
  BY <1>2 DEF NoTicketForgotten, Findable
<1>4. QED
  BY <1>1, <1>3

\* What a step of worker w that leaves it as x has to show.
LEMMA OneWorker ==
  ASSUME IInv, Serving, NEW w \in Workers, NEW x \in WorkerState,
         worker' = [worker EXCEPT ![w] = x],
         UNCHANGED <<lapsed, client, boot, accepted>>,
         RowsKeep, Keys', StaysFindable,
         \A v \in Workers \ {w} : Active(v) => LeavesAlone(worker[v].id),
         x.pc \notin {"idle", "recover", "pick"} =>
           /\ AttemptOK(w)'
           /\ \A v \in Workers \ {w} : Active(v) => worker[v].id # x.id
  PROVE  IInv'
<1>1. TypeOK'
  BY DEF IInv, TypeOK, WorkerState, RowsKeep
<1>2. \A v \in Workers : worker'[v] = IF v = w THEN x ELSE worker[v]
  BY DEF IInv, TypeOK
<1>3. IdsAreFresh'
  BY <1>2 DEF IInv, IdsAreFresh, Active
<1>4. ASSUME NEW v \in Workers, Active(v)' PROVE AttemptOK(v)'
  <2>1. CASE v = w
    BY <1>2, <1>4, <2>1 DEF Active
  <2>2. CASE v # w
    <3>1. worker'[v] = worker[v] /\ Active(v) /\ LeavesAlone(worker[v].id)
      BY <1>2, <1>4, <2>2 DEF Active
    <3>2. QED
      BY <3>1, AttemptSurvives
  <2>3. QED
    BY <2>1, <2>2
<1>5. \A c \in Clients : RequestOK(c)'
  BY RequestSurvives
<1>6. BootOK'
  BY DEF BootOK, Serving, Up
<1>7. (\A t \in accepted' : rows'[t] # Absent) /\ NoTicketForgotten'
  BY AcceptedSurvive DEF IInv, TypeOK, Serving
<1>8. QED
  BY <1>1, <1>3, <1>4, <1>5, <1>6, <1>7 DEF IInv

\* A step that leaves the table alone.
LEMMA SameRows ==
  ASSUME IInv, UNCHANGED rows
  PROVE  /\ RowsKeep
         /\ NothingLost => StaysFindable
         /\ \A id \in Reservations : NothingHeld => LeavesAlone(id)
  BY DEF IInv, TypeOK, RowsKeep, Waits, NothingLost, StaysFindable, NothingHeld,
         LeavesAlone, ReservationRows, RowsAfter, InTable

\* A step that leaves both databases alone.
LEMMA SameData ==
  ASSUME IInv, UNCHANGED <<redisVars, rows>>
  PROVE  /\ RowsKeep /\ Keys' /\ StaysFindable
         /\ \A id \in Reservations : LeavesAlone(id)
  BY SameRows, QuietKeys DEF IInv, redisVars

\* The worker goes back to the start of its loop, or through its recovery.
LEMMA LoopsIInv ==
  ASSUME IInv, Serving, NEW w \in Workers, NEW x \in WorkerState,
         x.pc \in {"idle", "recover", "pick"},
         worker' = [worker EXCEPT ![w] = x],
         UNCHANGED <<lapsed, client, boot, accepted>>,
         RowsKeep, Keys', StaysFindable,
         \A id \in Reservations : LeavesAlone(id)
  PROVE  IInv'
<1>1. \A v \in Workers : Active(v) => worker[v].id \in Reservations
  BY DEF IInv, AttemptOK
<1>2. QED
  BY <1>1, OneWorker

\* The attempt of worker w goes on to pc.
LEMMA MovesOn ==
  ASSUME IInv, Serving, NEW w \in Workers, Active(w), NEW pc \in WorkerPC,
         worker' = [worker EXCEPT ![w].pc = pc],
         UNCHANGED <<lapsed, client, boot, accepted>>,
         RowsKeep, Keys', StaysFindable,
         \A id \in Reservations \ {worker[w].id} : LeavesAlone(id),
         HeldAfter(worker[w].id) \subseteq worker[w].roster,
         \A t \in Tickets : rows'[t].id = worker[w].id => t \in worker[w].roster,
         pc \in {"reserve", "reservePg"} =>
           worker[w].pc \in {"reserve", "reservePg"} /\ UNCHANGED rows,
         pc \in {"make", "assign"} =>
           \/ RowsAfter(worker[w].id) = worker[w].roster
           \/ RowsAfter(worker[w].id) = {} /\ worker[w].id \in lapsed,
         pc = "finalize" => \A t \in worker[w].roster : rows'[t].state = "ASSIGNED"
  PROVE  IInv'
<1> DEFINE x == [worker[w] EXCEPT !.pc = pc]
<1>1. AttemptOK(w)
  BY DEF IInv
<1>2. /\ x \in WorkerState /\ worker' = [worker EXCEPT ![w] = x]
      /\ x.pc = pc /\ x.id = worker[w].id /\ x.roster = worker[w].roster
  BY DEF IInv, TypeOK, WorkerState
<1> HIDE DEF x
<1>3. worker'[w] = x
  BY <1>2 DEF IInv, TypeOK
<1>4. AttemptOK(w)'
  <2>1. PICK id \in Reservations : id = worker[w].id
    BY <1>1 DEF AttemptOK
  <2>2. worker'[w].id = id /\ worker'[w].pc = pc /\ worker'[w].roster = worker[w].roster
    BY <1>2, <1>3, <2>1
  <2>3. \A c \in Clients : client'[c].row.id = id => client'[c].ticket \in worker[w].roster
    BY <1>1, <2>1 DEF AttemptOK
  <2>4. pc \in {"reserve", "reservePg"} =>
          /\ \A t \in Tickets : rows'[t].id # id
          /\ \A c \in Clients : client'[c].row.id # id
    BY <1>1, <2>1 DEF AttemptOK
  <2>5. QED
    BY <2>1, <2>2, <2>3, <2>4
    DEF AttemptOK, HeldBy, HeldAfter, ReservationRows, RowsAfter, InTable
<1>5. \A v \in Workers \ {w} : Active(v) =>
        worker[v].id # x.id /\ worker[v].id \in Reservations
  BY <1>2 DEF IInv, IdsAreFresh, AttemptOK
<1>6. \A v \in Workers \ {w} : Active(v) => LeavesAlone(worker[v].id)
  BY <1>2, <1>5
<1>7. x.pc \notin {"idle", "recover", "pick"} =>
        /\ AttemptOK(w)'
        /\ \A v \in Workers \ {w} : Active(v) => worker[v].id # x.id
  BY <1>4, <1>5
<1>8. x \in WorkerState /\ worker' = [worker EXCEPT ![w] = x]
  BY <1>2
<1>9. QED
  BY <1>6, <1>7, <1>8, OneWorker

\* What worker w knows of its attempt, in the terms of the previous lemma.
LEMMA OwnAttempt ==
  ASSUME IInv, NEW w \in Workers, Active(w)
  PROVE  /\ worker[w].id \in Reservations /\ worker[w].roster \subseteq Tickets
         /\ HeldBy(worker[w].id) \subseteq worker[w].roster
         /\ \A t \in Tickets : rows[t].id = worker[w].id => t \in worker[w].roster
  BY DEF IInv, TypeOK, AttemptOK

\* The attempt fails, or goes on without a change of the databases.
LEMMA QuietMove ==
  ASSUME IInv, Serving, NEW w \in Workers, Active(w), NEW pc \in WorkerPC,
         GoTo(w, pc), UNCHANGED <<redisVars, rows, lapsed, client, boot, accepted>>,
         pc \in {"release", "releaseRedis"} \/ (pc = "assign" /\ worker[w].pc = "make")
  PROVE  IInv'
<1>1. /\ RowsKeep /\ Keys' /\ StaysFindable
      /\ \A id \in Reservations : LeavesAlone(id)
  BY SameData
<1>2. HeldAfter(worker[w].id) = HeldBy(worker[w].id)
  BY DEF HeldAfter, HeldBy, redisVars
<1>3. pc = "assign" =>
        \/ RowsAfter(worker[w].id) = worker[w].roster
        \/ RowsAfter(worker[w].id) = {} /\ worker[w].id \in lapsed
  BY DEF IInv, AttemptOK, RowsAfter, ReservationRows, InTable
<1>4. QED
  BY <1>1, <1>2, <1>3, OwnAttempt, MovesOn DEF GoTo

\* The attempt ends, or none was begun, without a change of the databases.
LEMMA QuietLoop ==
  ASSUME IInv, Serving, NEW w \in Workers, GoIdle(w),
         UNCHANGED <<redisVars, rows, lapsed, client, boot, accepted>>
  PROVE  IInv'
<1>1. IdleWorker \in WorkerState /\ IdleWorker.pc = "idle"
  BY DEF IdleWorker, WorkerState, WorkerPC
<1>2. QED
  BY <1>1, SameData, LoopsIInv DEF GoIdle

-----------------------------------------------------------------------------
(* Updates of the table *)

\* Rows S are updated.
LEMMA UpdatedRows ==
  ASSUME IInv, NEW S \in SUBSET Tickets, NEW s, NEW id,
         [state |-> s, id |-> id] \in Row, rows' = Updated(S, s, id)
  PROVE  /\ rows' \in [Tickets -> Row]
         /\ \A t \in Tickets :
              rows'[t] = IF t \in S THEN [state |-> s, id |-> id] ELSE rows[t]
  BY DEF IInv, TypeOK, Updated

\* Rows that waited are updated.
LEMMA WaitingMove ==
  ASSUME IInv, NEW S \in SUBSET Tickets, \A t \in S : Waits(t), NEW s, NEW id,
         [state |-> s, id |-> id] \in Row, s # "ABSENT", rows' = Updated(S, s, id),
         UNCHANGED redisVars
  PROVE  RowsKeep /\ StaysFindable /\ Keys'
<1>1. /\ rows' \in [Tickets -> Row]
      /\ \A t \in Tickets :
           rows'[t] = IF t \in S THEN [state |-> s, id |-> id] ELSE rows[t]
  BY UpdatedRows
<1>2. RowsKeep
  BY <1>1 DEF RowsKeep, Decided, Waits, Absent
<1>3. StaysFindable /\ Keys'
  BY QuietKeys DEF IInv, StaysFindable, NothingLost, redisVars
<1>4. QED
  BY <1>2, <1>3

\* They leave a reservation alone that neither had nor gets one of them.
LEMMA OthersLeftAlone ==
  ASSUME IInv, NEW S \in SUBSET Tickets, NEW s, NEW id,
         [state |-> s, id |-> id] \in Row, rows' = Updated(S, s, id),
         UNCHANGED redisVars,
         NEW x \in Reservations, x # id, S \cap ReservationRows(x) = {}
  PROVE  LeavesAlone(x)
<1>1. \A t \in Tickets :
        rows'[t] = IF t \in S THEN [state |-> s, id |-> id] ELSE rows[t]
  BY UpdatedRows
<1>2. RowsAfter(x) = ReservationRows(x)
  BY <1>1 DEF RowsAfter, ReservationRows, InTable
<1>3. HeldAfter(x) = HeldBy(x)
  BY DEF HeldAfter, HeldBy, redisVars
<1>4. QED
  BY <1>1, <1>2, <1>3 DEF LeavesAlone

\* The recovery in PostgreSQL, by a worker or at the start.
LEMMA ExpiredRowsReturn ==
  ASSUME IInv, rows' = Updated(ExpiredRows, "QUEUED", None), UNCHANGED redisVars
  PROVE  /\ RowsKeep /\ StaysFindable /\ Keys'
         /\ \A id \in Reservations : LeavesAlone(id)
<1>1. ExpiredRows \in SUBSET Tickets /\ \A t \in ExpiredRows : Waits(t)
  BY DEF ExpiredRows, InTable, Waits
<1>2. [state |-> "QUEUED", id |-> None] \in Row
  BY DEF Row
<1>3. RowsKeep /\ StaysFindable /\ Keys'
  BY <1>1, <1>2, WaitingMove
<1>4. ASSUME NEW id \in Reservations PROVE LeavesAlone(id)
  <2>1. id # None
    BY NoneAssumption
  <2>2. \A t \in Tickets :
          rows'[t] = IF t \in ExpiredRows THEN [state |-> "QUEUED", id |-> None] ELSE rows[t]
    BY <1>1, <1>2, UpdatedRows
  <2>3. CASE id \in lapsed
    <3>1. RowsAfter(id) = {}
      BY <2>1, <2>2, <2>3 DEF RowsAfter, ExpiredRows, InTable
    <3>2. HeldAfter(id) = HeldBy(id)
      BY DEF HeldAfter, HeldBy, redisVars
    <3>3. \A t \in Tickets : rows'[t].id = id => rows[t].id = id
      BY <2>1, <2>2
    <3>4. QED
      BY <2>3, <3>1, <3>2, <3>3 DEF LeavesAlone
  <2>4. CASE id \notin lapsed
    <3>1. ExpiredRows \cap ReservationRows(id) = {}
      BY <2>4 DEF ExpiredRows, ReservationRows
    <3>2. QED
      BY <1>1, <1>2, <2>1, <3>1, OthersLeftAlone
  <2>5. QED
    BY <2>3, <2>4
<1>5. QED
  BY <1>3, <1>4

-----------------------------------------------------------------------------
(* The steps of a worker *)

\* The recovery before a search, and the search itself.
LEMMA SearchIInv ==
  ASSUME IInv, NEW w \in Workers,
         RecoverPg(w) \/ RecoverRedis(w) \/ PickTickets(w) \/ NoMatch(w)
  PROVE  IInv'
<1>1. CASE RecoverPg(w)
  <2> DEFINE x == [worker[w] EXCEPT !.pc = "recover"]
  <2>1. /\ Serving /\ worker[w].pc = "idle" /\ worker[w] \in WorkerState
        /\ rows' = Updated(ExpiredRows, "QUEUED", None) /\ UNCHANGED redisVars
        /\ UNCHANGED <<lapsed, client, boot, accepted>>
        /\ worker' = [worker EXCEPT ![w] = x] \/ worker' = worker
    BY <1>1 DEF RecoverPg, At, GoTo, IInv, TypeOK, WorkerState
  <2>2. x \in WorkerState /\ x.pc = "recover"
    BY <2>1 DEF WorkerState, WorkerPC
  <2>3. worker' = worker => worker' = [worker EXCEPT ![w] = worker[w]]
    BY DEF IInv, TypeOK
  <2> HIDE DEF x
  <2>4. QED
    BY <2>1, <2>2, <2>3, ExpiredRowsReturn, LoopsIInv
<1>2. CASE RecoverRedis(w)
  <2> DEFINE x == [worker[w] EXCEPT !.pc = "pick"]
  <2>1. /\ Serving /\ worker[w].pc = "recover" /\ worker[w] \in WorkerState
        /\ UNCHANGED <<rows, lapsed, client, boot, accepted>>
    BY <1>2 DEF RecoverRedis, At, IInv, TypeOK, WorkerState
  <2>2. CASE UNCHANGED redisVars /\ GoIdle(w)
    BY <2>1, <2>2, QuietLoop
  <2>3. CASE RecoverScript(lapsed) /\ GoTo(w, "pick")
    <3>1. Keys' /\ NothingHeld /\ NothingLost
      BY <2>3, RecoverKeys DEF IInv
    <3>2. RowsKeep /\ StaysFindable /\ \A id \in Reservations : LeavesAlone(id)
      BY <2>1, <3>1, SameRows
    <3>3. x \in WorkerState /\ x.pc = "pick" /\ worker' = [worker EXCEPT ![w] = x]
      BY <2>1, <2>3 DEF GoTo, WorkerState, WorkerPC
    <3> HIDE DEF x
    <3>4. QED
      BY <2>1, <3>1, <3>2, <3>3, LoopsIInv
  <2>4. QED
    BY <1>2, <2>2, <2>3 DEF RecoverRedis
<1>3. CASE PickTickets(w)
  <2>1. PICK S \in kSubset(MatchSize, pools), r \in FreshIds :
          worker' = [worker EXCEPT ![w] = [pc |-> "reserve", id |-> r, roster |-> S]]
    BY <1>3 DEF PickTickets
  <2> DEFINE x == [pc |-> "reserve", id |-> r, roster |-> S]
  <2>2. S \subseteq Tickets
    BY DEF kSubset, IInv, Keys
  <2>3. /\ r \in Reservations /\ HeldBy(r) = {}
        /\ \A v \in Workers : worker[v].id # r
        /\ \A c \in Clients : client[c].row.id # r
        /\ \A t \in Tickets : rows[t].id # r
    BY DEF FreshIds
  <2>4. /\ Serving /\ worker' = [worker EXCEPT ![w] = x]
        /\ UNCHANGED <<redisVars, rows, lapsed, client, boot, accepted>>
    BY <1>3, <2>1 DEF PickTickets, At
  <2>5. /\ x \in WorkerState /\ x.pc = "reserve" /\ x.id = r /\ x.roster = S
    BY <2>2, <2>3 DEF WorkerState, WorkerPC
  <2> HIDE DEF x
  <2>6. worker'[w] = x
    BY <2>4 DEF IInv, TypeOK
  <2>7. /\ RowsKeep /\ Keys' /\ StaysFindable
        /\ \A id \in Reservations : LeavesAlone(id)
    BY <2>4, SameData
  <2>8. reservations' = reservations
    BY <2>4 DEF redisVars
  <2>9. AttemptOK(w)'
    BY <2>3, <2>4, <2>5, <2>6, <2>8 DEF AttemptOK, HeldBy
  <2>10. \A v \in Workers \ {w} : Active(v) => LeavesAlone(worker[v].id)
    BY <2>7 DEF IInv, AttemptOK
  <2>11. x.pc \notin {"idle", "recover", "pick"} =>
           /\ AttemptOK(w)'
           /\ \A v \in Workers \ {w} : Active(v) => worker[v].id # x.id
    BY <2>3, <2>5, <2>9
  <2>12. x \in WorkerState
    BY <2>5
  <2>13. QED
    BY <2>4, <2>7, <2>10, <2>11, <2>12, OneWorker
<1>4. CASE NoMatch(w)
  BY <1>4, QuietLoop DEF NoMatch, At
<1>5. QED
  BY <1>1, <1>2, <1>3, <1>4

\* The reservation, first in Redis and then in PostgreSQL.
LEMMA ReserveIInv ==
  ASSUME IInv, NEW w \in Workers,
         ReserveInRedis(w) \/ RedisRefuses(w) \/ ReserveInPg(w) \/ PgRefuses(w)
  PROVE  IInv'
<1>1. CASE ReserveInRedis(w)
  <2> DEFINE S == worker[w].roster
  <2>1. /\ Serving /\ worker[w].pc = "reserve" /\ Active(w)
        /\ ReserveScript(S, worker[w].id)
        /\ UNCHANGED <<rows, lapsed, client, boot, accepted>>
        /\ GoTo(w, "reservePg") \/ GoIdle(w) \/ UNCHANGED worker
    BY <1>1 DEF ReserveInRedis, At, Active
  <2>2. PICK r \in Reservations : r = worker[w].id
    BY <2>1, OwnAttempt
  <2>3. /\ Keys' /\ NothingLost
        /\ \A x \in Reservations :
             HeldAfter(x) \subseteq HeldBy(x) \cup (IF x = r THEN S ELSE {})
    BY <2>1, <2>2, ReserveKeys DEF IInv
  <2>4. RowsKeep /\ StaysFindable
    BY <2>1, <2>3, SameRows
  <2>5. \A id \in Reservations \ {worker[w].id} : LeavesAlone(id)
    BY <2>1, <2>2, <2>3 DEF LeavesAlone, RowsAfter, ReservationRows, InTable
  <2>6. HeldAfter(worker[w].id) \subseteq S
    BY <2>1, <2>2, <2>3, OwnAttempt
  <2>7. \A t \in Tickets : rows'[t].id = worker[w].id => t \in S
    BY <2>1, OwnAttempt
  <2>8. \A pc \in {"reserve", "reservePg"} : GoTo(w, pc) => IInv'
    BY <2>1, <2>3, <2>4, <2>5, <2>6, <2>7, MovesOn DEF GoTo, WorkerPC
  <2>9. UNCHANGED worker => GoTo(w, "reserve")
    BY <2>1 DEF GoTo, IInv, TypeOK
  <2>10. CASE GoIdle(w)
    <3>1. IdleWorker \in WorkerState /\ IdleWorker.pc = "idle"
      BY DEF IdleWorker, WorkerState, WorkerPC
    <3>2. \A v \in Workers \ {w} : Active(v) =>
            worker[v].id \in Reservations \ {worker[w].id}
      BY <2>1 DEF IInv, AttemptOK, IdsAreFresh
    <3>3. \A v \in Workers \ {w} : Active(v) => LeavesAlone(worker[v].id)
      BY <2>5, <3>2
    <3>4. QED
      BY <2>1, <2>3, <2>4, <2>10, <3>1, <3>3, OneWorker DEF GoIdle
  <2>11. QED
    BY <2>1, <2>8, <2>9, <2>10
<1>2. CASE RedisRefuses(w)
  BY <1>2, QuietLoop DEF RedisRefuses, At
<1>3. CASE ReserveInPg(w)
  <2> DEFINE S == worker[w].roster
  <2>1. /\ Serving /\ worker[w].pc = "reservePg" /\ Active(w)
        /\ S \subseteq InTable({"QUEUED"})
        /\ rows' = Updated(S, "RESERVED", worker[w].id)
        /\ UNCHANGED redisVars /\ UNCHANGED <<lapsed, client, boot, accepted>>
        /\ GoTo(w, "make") \/ GoTo(w, "releaseRedis")
    BY <1>3 DEF ReserveInPg, At, Active, AllCandidates
  <2>2. PICK r \in Reservations : r = worker[w].id
    BY <2>1, OwnAttempt
  <2>3. /\ S \in SUBSET Tickets /\ \A t \in S : Waits(t)
        /\ [state |-> "RESERVED", id |-> r] \in Row
        /\ rows' = Updated(S, "RESERVED", r)
    BY <2>1, <2>2 DEF InTable, Waits, Row
  <2>4. RowsKeep /\ StaysFindable /\ Keys'
    BY <2>1, <2>3, WaitingMove
  <2>5. \A id \in Reservations : S \cap ReservationRows(id) = {}
    BY <2>1 DEF ReservationRows, InTable
  <2>6. \A id \in Reservations \ {worker[w].id} : LeavesAlone(id)
    BY <2>1, <2>2, <2>3, <2>5, OthersLeftAlone
  <2>7. \A t \in Tickets :
          rows'[t] = IF t \in S THEN [state |-> "RESERVED", id |-> r] ELSE rows[t]
    BY <2>3, UpdatedRows
  <2>8. \A t \in Tickets : rows[t].id # r
    BY <2>1, <2>2 DEF IInv, AttemptOK
  <2>9. RowsAfter(r) = S /\ \A t \in Tickets : rows'[t].id = r => t \in S
    BY <2>3, <2>7, <2>8 DEF RowsAfter
  <2>10. HeldAfter(worker[w].id) \subseteq S
    BY <2>1, OwnAttempt DEF HeldAfter, HeldBy, redisVars
  <2>11. \A pc \in {"make", "releaseRedis"} : GoTo(w, pc) => IInv'
    BY <2>1, <2>2, <2>4, <2>6, <2>9, <2>10, MovesOn DEF GoTo, WorkerPC
  <2>12. QED
    BY <2>1, <2>11
<1>4. CASE PgRefuses(w)
  BY <1>4, QuietMove DEF PgRefuses, At, Active, WorkerPC
<1>5. QED
  BY <1>1, <1>2, <1>3, <1>4

\* The rows of the reservation of worker w are updated as a whole.
LEMMA OwnRows ==
  ASSUME IInv, NEW w \in Workers, Active(w), NEW s, NEW id,
         id \in {None, worker[w].id}, s # "ABSENT",
         [state |-> s, id |-> id] \in Row,
         rows' = Updated(ReservationRows(worker[w].id), s, id), UNCHANGED redisVars
  PROVE  /\ RowsKeep /\ StaysFindable /\ Keys'
         /\ \A x \in Reservations \ {worker[w].id} : LeavesAlone(x)
         /\ HeldAfter(worker[w].id) \subseteq worker[w].roster
         /\ \A t \in Tickets : rows'[t].id = worker[w].id => t \in worker[w].roster
<1> DEFINE S == ReservationRows(worker[w].id)
<1>1. S \in SUBSET Tickets /\ \A t \in S : Waits(t)
  BY DEF ReservationRows, InTable, Waits
<1>2. RowsKeep /\ StaysFindable /\ Keys'
  BY <1>1, WaitingMove
<1>3. \A x \in Reservations \ {worker[w].id} : x # id /\ S \cap ReservationRows(x) = {}
  BY NoneAssumption DEF ReservationRows
<1>4. \A x \in Reservations \ {worker[w].id} : LeavesAlone(x)
  BY <1>1, <1>3, OthersLeftAlone
<1>5. HeldAfter(worker[w].id) \subseteq worker[w].roster
  BY OwnAttempt DEF HeldAfter, HeldBy, redisVars
<1>6. S \subseteq worker[w].roster
  BY OwnAttempt DEF ReservationRows, InTable
<1>7. \A t \in Tickets : rows'[t] = IF t \in S THEN [state |-> s, id |-> id] ELSE rows[t]
  BY <1>1, UpdatedRows
<1>8. \A t \in Tickets : rows'[t].id = worker[w].id => t \in worker[w].roster
  BY <1>6, <1>7, OwnAttempt
<1>9. QED
  BY <1>2, <1>4, <1>5, <1>8

\* The match is made, its tickets are assigned and leave Redis.
LEMMA AssignIInv ==
  ASSUME IInv, NEW w \in Workers,
         MakeMatch(w) \/ AssignInPg(w) \/ AssignRefused(w) \/ Finalize(w)
  PROVE  IInv'
<1>1. CASE MakeMatch(w)
  <2>1. /\ Serving /\ worker[w].pc = "make" /\ Active(w)
        /\ UNCHANGED <<redisVars, rows, lapsed, client, boot, accepted>>
        /\ GoTo(w, "assign") \/ GoTo(w, "release")
    BY <1>1 DEF MakeMatch, At, Active
  <2>2. QED
    BY <2>1, QuietMove DEF WorkerPC
<1>2. CASE AssignInPg(w)
  <2> DEFINE S == ReservationRows(worker[w].id)
  <2>1. /\ Serving /\ worker[w].pc = "assign" /\ Active(w) /\ S # {}
        /\ rows' = Updated(S, "ASSIGNED", worker[w].id)
        /\ UNCHANGED redisVars /\ UNCHANGED <<lapsed, client, boot, accepted>>
        /\ GoTo(w, "finalize") \/ GoTo(w, "release")
    BY <1>2 DEF AssignInPg, At, Active
  <2>2. worker[w].id \in Reservations
    BY <2>1, OwnAttempt
  <2>3. [state |-> "ASSIGNED", id |-> worker[w].id] \in Row
    BY <2>2 DEF Row
  <2>4. /\ RowsKeep /\ StaysFindable /\ Keys'
        /\ \A x \in Reservations \ {worker[w].id} : LeavesAlone(x)
        /\ HeldAfter(worker[w].id) \subseteq worker[w].roster
        /\ \A t \in Tickets : rows'[t].id = worker[w].id => t \in worker[w].roster
    BY <2>1, <2>3, OwnRows
  <2>5. S = worker[w].roster /\ S \in SUBSET Tickets
    BY <2>1 DEF IInv, AttemptOK, ReservationRows, InTable
  <2>6. \A t \in worker[w].roster : rows'[t].state = "ASSIGNED"
    BY <2>1, <2>3, <2>5, UpdatedRows
  <2>7. \A pc \in {"finalize", "release"} : GoTo(w, pc) => IInv'
    BY <2>1, <2>4, <2>6, MovesOn DEF GoTo, WorkerPC
  <2>8. QED
    BY <2>1, <2>7
<1>3. CASE AssignRefused(w)
  BY <1>3, QuietMove DEF AssignRefused, At, Active, WorkerPC
<1>4. CASE Finalize(w)
  <2>1. /\ Serving /\ worker[w].pc = "finalize" /\ Active(w) /\ GoIdle(w)
        /\ UNCHANGED <<rows, lapsed, client, boot, accepted>>
    BY <1>4 DEF Finalize, At, Active
  <2>2. CASE UNCHANGED redisVars
    BY <2>1, <2>2, QuietLoop
  <2>3. CASE FinalizeScript(worker[w].id)
    <3>1. worker[w].id \in Reservations
      BY <2>1, OwnAttempt
    <3>2. /\ Keys' /\ NothingHeld
          /\ Findable \subseteq Findable' \cup HeldBy(worker[w].id)
      BY <2>3, <3>1, FinalizeKeys DEF IInv
    <3>3. RowsKeep /\ \A id \in Reservations : LeavesAlone(id)
      BY <2>1, <3>2, SameRows
    <3>4. \A t \in HeldBy(worker[w].id) : rows[t].state = "ASSIGNED"
      BY <2>1 DEF IInv, AttemptOK
    <3>5. StaysFindable
      BY <2>1, <3>2, <3>4 DEF StaysFindable
    <3>6. IdleWorker \in WorkerState /\ IdleWorker.pc = "idle"
      BY DEF IdleWorker, WorkerState, WorkerPC
    <3>7. QED
      BY <2>1, <3>2, <3>3, <3>5, <3>6, LoopsIInv DEF GoIdle
  <2>4. QED
    BY <1>4, <2>2, <2>3 DEF Finalize
<1>5. QED
  BY <1>1, <1>2, <1>3, <1>4

\* An attempt that failed gives its tickets back.
LEMMA ReleaseIInv ==
  ASSUME IInv, NEW w \in Workers, ReleaseInPg(w) \/ ReleaseInRedis(w)
  PROVE  IInv'
<1>1. CASE ReleaseInPg(w)
  <2>1. /\ Serving /\ worker[w].pc = "release" /\ Active(w)
        /\ UNCHANGED redisVars /\ UNCHANGED <<lapsed, client, boot, accepted>>
        /\ \/ GoIdle(w) /\ UNCHANGED rows
           \/ /\ rows' = Updated(ReservationRows(worker[w].id), "QUEUED", None)
              /\ GoTo(w, "releaseRedis") \/ GoIdle(w)
    BY <1>1 DEF ReleaseInPg, At, Active
  <2>2. CASE GoIdle(w) /\ UNCHANGED rows
    BY <2>1, <2>2, QuietLoop
  <2>3. CASE rows' = Updated(ReservationRows(worker[w].id), "QUEUED", None)
    <3>1. /\ RowsKeep /\ StaysFindable /\ Keys'
          /\ \A x \in Reservations \ {worker[w].id} : LeavesAlone(x)
          /\ HeldAfter(worker[w].id) \subseteq worker[w].roster
          /\ \A t \in Tickets : rows'[t].id = worker[w].id => t \in worker[w].roster
      BY <2>1, <2>3, OwnRows DEF Row
    <3>2. CASE GoTo(w, "releaseRedis")
      BY <2>1, <3>1, <3>2, MovesOn DEF GoTo, WorkerPC
    <3>3. CASE GoIdle(w)
      <4>1. IdleWorker \in WorkerState /\ IdleWorker.pc = "idle"
        BY DEF IdleWorker, WorkerState, WorkerPC
      <4>2. \A v \in Workers \ {w} : Active(v) =>
              worker[v].id \in Reservations \ {worker[w].id}
        BY <2>1 DEF IInv, AttemptOK, IdsAreFresh
      <4>3. \A v \in Workers \ {w} : Active(v) => LeavesAlone(worker[v].id)
        BY <3>1, <4>2
      <4>4. QED
        BY <2>1, <3>1, <3>3, <4>1, <4>3, OneWorker DEF GoIdle
    <3>4. QED
      BY <2>1, <2>3, <3>2, <3>3 DEF GoIdle
  <2>4. QED
    BY <2>1, <2>2, <2>3
<1>2. CASE ReleaseInRedis(w)
  <2>1. /\ Serving /\ worker[w].pc = "releaseRedis" /\ Active(w) /\ GoIdle(w)
        /\ UNCHANGED <<rows, lapsed, client, boot, accepted>>
    BY <1>2 DEF ReleaseInRedis, At, Active
  <2>2. CASE UNCHANGED redisVars
    BY <2>1, <2>2, QuietLoop
  <2>3. CASE ReleaseScript(worker[w].id)
    <3>1. worker[w].id \in Reservations
      BY <2>1, OwnAttempt
    <3>2. Keys' /\ NothingHeld /\ NothingLost
      BY <2>3, <3>1, ReleaseKeys DEF IInv
    <3>3. RowsKeep /\ StaysFindable /\ \A id \in Reservations : LeavesAlone(id)
      BY <2>1, <3>2, SameRows
    <3>4. IdleWorker \in WorkerState /\ IdleWorker.pc = "idle"
      BY DEF IdleWorker, WorkerState, WorkerPC
    <3>5. QED
      BY <2>1, <3>2, <3>3, <3>4, LoopsIInv DEF GoIdle
  <2>4. QED
    BY <1>2, <2>2, <2>3 DEF ReleaseInRedis
<1>3. QED
  BY <1>1, <1>2

-----------------------------------------------------------------------------
(* The steps of a request *)

\* What a step of request c that leaves it as x has to show.
LEMMA OneClient ==
  ASSUME IInv, Serving, NEW c \in Clients, NEW x \in ClientState,
         client' = [client EXCEPT ![c] = x],
         UNCHANGED <<lapsed, worker, boot>>,
         RowsKeep, Keys', StaysFindable,
         \A id \in Reservations : LeavesAlone(id),
         x.row.id \in Reservations =>
           x = client[c] \/ (x.ticket \in Tickets /\ rows[x.ticket].id = x.row.id),
         RequestOK(c)',
         accepted' \subseteq Tickets,
         \A t \in accepted' \ accepted : rows'[t] # Absent /\ t \in Findable'
  PROVE  IInv'
<1>1. TypeOK'
  BY DEF IInv, TypeOK, ClientState, RowsKeep
<1>2. \A d \in Clients : client'[d] = IF d = c THEN x ELSE client[d]
  BY DEF IInv, TypeOK
<1>3. IdsAreFresh'
  BY DEF IInv, IdsAreFresh, Active
<1>4. ASSUME NEW v \in Workers, Active(v)' PROVE AttemptOK(v)'
  <2>1. Active(v) /\ worker'[v] = worker[v]
    BY <1>4 DEF Active
  <2>2. worker[v].id \in Reservations
    BY <2>1 DEF IInv, AttemptOK
  <2>3. \A d \in Clients : client'[d].row.id = worker[v].id =>
          \/ client'[d] = client[d]
          \/ /\ client'[d].ticket \in Tickets
             /\ rows[client'[d].ticket].id = worker[v].id
    BY <1>2, <2>2
  <2>4. QED
    BY <2>1, <2>2, <2>3, AttemptSurvives
<1>5. \A d \in Clients : RequestOK(d)'
  BY <1>2, RequestSurvives
<1>6. BootOK'
  BY DEF BootOK, Serving, Up
<1>7. (\A t \in accepted' : rows'[t] # Absent) /\ NoTicketForgotten'
  BY AcceptedSurvive DEF Serving
<1>8. QED
  BY <1>1, <1>3, <1>4, <1>5, <1>6, <1>7 DEF IInv

\* The request ends.
LEMMA Finishes ==
  ASSUME IInv, Serving, NEW c \in Clients, Finish(c),
         UNCHANGED <<lapsed, worker, boot>>,
         RowsKeep, Keys', StaysFindable,
         \A id \in Reservations : LeavesAlone(id),
         accepted' \subseteq Tickets,
         \A t \in accepted' \ accepted : rows'[t] # Absent /\ t \in Findable'
  PROVE  IInv'
<1>1. /\ IdleClient \in ClientState /\ IdleClient.pc = "idle"
      /\ IdleClient.row.id \notin Reservations
  BY NoneAssumption DEF IdleClient, ClientState, ClientPC, Row, Absent
<1>2. client' = [client EXCEPT ![c] = IdleClient] /\ client'[c] = IdleClient
  BY DEF Finish, IInv, TypeOK
<1>3. RequestOK(c)'
  BY <1>2 DEF RequestOK, IdleClient
<1>4. QED
  BY <1>1, <1>2, <1>3, OneClient

\* A row that no reservation has is written, and none gets it.
LEMMA PlainRow ==
  ASSUME IInv, NEW t \in Tickets, NEW s \in {"QUEUED", "CANCELLED"},
         rows' = Updated({t}, s, None), UNCHANGED redisVars,
         \/ rows[t] = Absent \/ rows[t].state = "QUEUED"
         \/ rows[t].state = "CANCELLED" /\ s = "CANCELLED"
  PROVE  /\ RowsKeep /\ StaysFindable /\ Keys'
         /\ \A id \in Reservations : LeavesAlone(id)
         /\ rows'[t] = [state |-> s, id |-> None]
<1>1. [state |-> s, id |-> None] \in Row /\ {t} \in SUBSET Tickets /\ rows[t] \in Row
  <2>1. [state |-> s, id |-> None] \in Row
    BY DEF Row
  <2>2. rows[t] \in Row
    BY DEF IInv, TypeOK
  <2>3. QED
    BY <2>1, <2>2
<1>2. /\ rows' \in [Tickets -> Row]
      /\ \A u \in Tickets :
           rows'[u] = IF u = t THEN [state |-> s, id |-> None] ELSE rows[u]
  <2>1. rows' = [u \in Tickets |->
                   IF u = t THEN [state |-> s, id |-> None] ELSE rows[u]]
    BY DEF Updated
  <2>2. rows \in [Tickets -> Row]
    BY DEF IInv, TypeOK
  <2>3. QED
    BY <1>1, <2>1, <2>2
<1>3. rows[t].state = "CANCELLED" => rows[t] = [state |-> "CANCELLED", id |-> None]
  BY <1>1 DEF Row, Absent
<1>4. RowsKeep
  BY <1>2, <1>3 DEF RowsKeep, Decided, Waits, Absent
<1>5. StaysFindable /\ Keys'
  BY QuietKeys DEF IInv, StaysFindable, NothingLost, redisVars
<1>6. ASSUME NEW id \in Reservations PROVE LeavesAlone(id)
  <2>1. id # None /\ {t} \cap ReservationRows(id) = {}
    BY NoneAssumption DEF ReservationRows, InTable, Absent
  <2>2. QED
    BY <1>1, <2>1, OthersLeftAlone
<1>7. QED
  BY <1>2, <1>4, <1>5, <1>6

\* The steps of a ticket request.
LEMMA ClientIInv ==
  ASSUME IInv, NEW c \in Clients,
         \/ \E t \in Tickets : InsertTicket(c, t) \/ CancelInPg(c, t)
         \/ ClientStep(c)
         \/ AbortRequest(c)
  PROVE  IInv'
<1>1. client[c] \in ClientState /\ RequestOK(c)
  BY DEF IInv, TypeOK, ClientState
<1>2. /\ accepted \subseteq Tickets
      /\ client[c].row \in Row /\ client[c].ticket \in Tickets \cup {None}
  BY <1>1 DEF IInv, TypeOK, ClientState
<1>3. ASSUME NEW t \in Tickets, InsertTicket(c, t) PROVE IInv'
  <2> DEFINE x == [client[c] EXCEPT !.pc = "get", !.ticket = t]
  <2>1. /\ Serving /\ client' = [client EXCEPT ![c] = x] /\ UNCHANGED redisVars
        /\ UNCHANGED <<lapsed, worker, boot, accepted>>
        /\ rows' = IF rows[t] = Absent THEN Updated({t}, "QUEUED", None) ELSE rows
    BY <1>3 DEF InsertTicket, ClientAt
  <2>2. /\ x \in ClientState /\ x.pc = "get" /\ x.ticket = t /\ x.row = client[c].row
    BY <1>1 DEF ClientState, ClientPC
  <2> HIDE DEF x
  <2>3. /\ RowsKeep /\ StaysFindable /\ Keys'
        /\ \A id \in Reservations : LeavesAlone(id)
        /\ rows'[t] # Absent
    <3>1. CASE rows[t] = Absent
      BY <2>1, <3>1, PlainRow DEF Absent
    <3>2. CASE rows[t] # Absent
      BY <2>1, <3>2, SameData
    <3>3. QED
      BY <3>1, <3>2
  <2>4. client'[c] = x
    BY <2>1 DEF IInv, TypeOK
  <2>5. RequestOK(c)'
    BY <2>2, <2>3, <2>4 DEF RequestOK
  <2>6. x.row.id \notin Reservations
    BY <1>1, <1>3, <2>2, NoneAssumption DEF InsertTicket, ClientAt, RequestOK, Absent
  <2>7. QED
    BY <1>2, <2>1, <2>2, <2>3, <2>5, <2>6, OneClient
<1>4. ASSUME NEW t \in Tickets, CancelInPg(c, t) PROVE IInv'
  <2> DEFINE x == [client[c] EXCEPT !.pc = "look", !.ticket = t, !.row = rows'[t]]
  <2>1. /\ Serving /\ client' = [client EXCEPT ![c] = x] /\ UNCHANGED redisVars
        /\ UNCHANGED <<lapsed, worker, boot, accepted>>
        /\ rows' = Updated({t}, "CANCELLED", None)
        /\ rows[t].state \in {"QUEUED", "CANCELLED"}
    BY <1>4 DEF CancelInPg, ClientAt
  <2>2. /\ RowsKeep /\ StaysFindable /\ Keys'
        /\ \A id \in Reservations : LeavesAlone(id)
        /\ rows'[t] = [state |-> "CANCELLED", id |-> None]
    BY <2>1, PlainRow
  <2>3. rows'[t] \in Row
    BY <2>2 DEF Row
  <2>4. /\ x \in ClientState /\ x.pc = "look" /\ x.ticket = t
        /\ x.row = [state |-> "CANCELLED", id |-> None]
    BY <1>1, <2>2, <2>3 DEF ClientState, ClientPC
  <2> HIDE DEF x
  <2>5. client'[c] = x
    BY <2>1 DEF IInv, TypeOK
  <2>6. RequestOK(c)'
    BY <2>2, <2>4, <2>5 DEF RequestOK, Decided, Absent
  <2>7. x.row.id \notin Reservations
    BY <2>4, NoneAssumption
  <2>8. QED
    BY <1>2, <2>1, <2>2, <2>4, <2>6, <2>7, OneClient
<1>5. CASE GetTicket(c)
  <2> DEFINE row == rows[client[c].ticket]
             pc == IF row.state \in {"QUEUED", "RESERVED"} THEN "upsert" ELSE "look"
             x == [client[c] EXCEPT !.row = row, !.pc = pc]
  <2>1. /\ Serving /\ client' = [client EXCEPT ![c] = x] /\ client[c].pc = "get"
        /\ UNCHANGED <<redisVars, rows, lapsed, worker, boot, accepted>>
    BY <1>5 DEF GetTicket, ClientAt
  <2>2. client[c].ticket \in Tickets /\ row # Absent /\ row \in Row
    BY <1>1, <2>1 DEF RequestOK, IInv, TypeOK
  <2>3. /\ x \in ClientState /\ x.pc = pc /\ x.ticket = client[c].ticket /\ x.row = row
    BY <1>1, <2>2 DEF ClientState, ClientPC
  <2> HIDE DEF x
  <2>4. client'[c] = x
    BY <2>1 DEF IInv, TypeOK
  <2>5. pc = "look" => Decided(client[c].ticket)
    BY <2>2 DEF Decided, Row
  <2>6. RequestOK(c)'
    BY <2>1, <2>2, <2>3, <2>4, <2>5 DEF RequestOK, Decided
  <2>7. /\ RowsKeep /\ Keys' /\ StaysFindable
        /\ \A id \in Reservations : LeavesAlone(id)
    BY <2>1, SameData
  <2>8. QED
    BY <1>2, <2>1, <2>2, <2>3, <2>6, <2>7, OneClient
<1>6. CASE Upsert(c)
  <2> DEFINE t == client[c].ticket
  <2>1. /\ Serving /\ client[c].pc = "upsert" /\ Finish(c)
        /\ UpsertTicket(t, client[c].row)
        /\ accepted' = accepted \cup {t} /\ UNCHANGED <<rows, lapsed, worker, boot>>
    BY <1>6 DEF Upsert, ClientAt
  <2>2. t \in Tickets /\ rows[t] # Absent
    BY <1>1, <2>1 DEF RequestOK
  <2>3. /\ Keys' /\ NothingLost /\ t \in Findable'
        /\ \A x \in Reservations :
             HeldAfter(x) \subseteq HeldBy(x) \cup (IF x = client[c].row.id THEN {t} ELSE {})
    BY <1>2, <2>1, <2>2, UpsertKeys DEF IInv
  <2>4. RowsKeep /\ StaysFindable
    BY <2>1, <2>3, SameRows
  <2>5. \A id \in Reservations : LeavesAlone(id)
    BY <2>1, <2>2, <2>3 DEF LeavesAlone, ReadWith, RowsAfter, ReservationRows, InTable
  <2>6. QED
    BY <1>2, <2>1, <2>2, <2>3, <2>4, <2>5, Finishes
<1>7. CASE Look(c)
  <2>1. PICK p \in BOOLEAN, h \in Reservations \cup {None} :
          client' = [client EXCEPT ![c].pc = "remove", ![c].pool = p, ![c].held = h]
    <3> DEFINE t == client[c].ticket
               held == IF t \in DOMAIN reservations THEN reservations[t] ELSE None
               After(p, h) ==
                 client' = [client EXCEPT ![c].pc = "remove", ![c].pool = p, ![c].held = h]
    <3>1. held \in Reservations \cup {None}
      BY DEF IInv, Keys
    <3>2. After(t \in known, held) \/ After(FALSE, held) \/ After(t \in known, None)
      BY <1>7 DEF Look
    <3>3. (t \in known) \in BOOLEAN
      OBVIOUS
    <3>4. QED
      BY <3>1, <3>2, <3>3
  <2> DEFINE x == [client[c] EXCEPT !.pc = "remove", !.pool = p, !.held = h]
  <2>2. /\ Serving /\ client' = [client EXCEPT ![c] = x] /\ client[c].pc = "look"
        /\ UNCHANGED <<redisVars, rows, lapsed, worker, boot, accepted>>
    BY <1>7, <2>1 DEF Look, ClientAt
  <2>3. /\ x \in ClientState /\ x.pc = "remove" /\ x.ticket = client[c].ticket
        /\ x.row = client[c].row
    BY <1>1 DEF ClientState, ClientPC
  <2> HIDE DEF x
  <2>4. client'[c] = x
    BY <2>2 DEF IInv, TypeOK
  <2>5. RequestOK(c)'
    BY <1>1, <2>2, <2>3, <2>4 DEF RequestOK, Decided
  <2>6. /\ RowsKeep /\ Keys' /\ StaysFindable
        /\ \A id \in Reservations : LeavesAlone(id)
    BY <2>2, SameData
  <2>7. x.ticket \in Tickets /\ rows[x.ticket].id = x.row.id
    BY <1>1, <2>2, <2>3 DEF RequestOK
  <2>8. QED
    BY <1>2, <2>2, <2>3, <2>5, <2>6, <2>7, OneClient
<1>8. CASE Remove(c)
  <2> DEFINE t == client[c].ticket
  <2>1. /\ Serving /\ client[c].pc = "remove" /\ Finish(c)
        /\ RemoveTicket(t, client[c].row.state, client[c].pool, client[c].held)
        /\ UNCHANGED <<rows, lapsed, worker, boot, accepted>>
    BY <1>8 DEF Remove, ClientAt
  <2>2. t \in Tickets /\ Decided(t) /\ client[c].row = rows[t]
    BY <1>1, <2>1 DEF RequestOK
  <2>3. Keys' /\ NothingHeld /\ Findable \subseteq Findable' \cup {t}
    BY <2>1, <2>2, RemoveKeys DEF IInv, Decided
  <2>4. RowsKeep /\ \A id \in Reservations : LeavesAlone(id)
    BY <2>1, <2>3, SameRows
  <2>5. StaysFindable
    BY <2>1, <2>2, <2>3 DEF StaysFindable, Decided
  <2>6. QED
    BY <1>2, <2>1, <2>3, <2>4, <2>5, Finishes
<1>9. CASE AbortRequest(c)
  BY <1>2, <1>9, SameData, Finishes DEF AbortRequest
<1>10. QED
  BY <1>3, <1>4, <1>5, <1>6, <1>7, <1>8, <1>9 DEF ClientStep

-----------------------------------------------------------------------------
(* Start-up and time *)

\* A step of the rebuild: nothing else runs.
LEMMA OneBoot ==
  ASSUME IInv, ~Serving, UNCHANGED <<lapsed, worker, client, accepted>>,
         boot' \in [pc : BootPC, todo : SUBSET Tickets],
         rows' \in [Tickets -> Row], RowsKeep, Keys',
         boot'.pc = "restore" => \A t \in Tickets \ boot'.todo : Restored(t)',
         Serving' => /\ boot.pc = "restore" /\ boot.todo = {}
                     /\ UNCHANGED <<rows, Findable>>
  PROVE  IInv'
<1>1. TypeOK'
  BY DEF IInv, TypeOK
<1>2. /\ \A w \in Workers : worker[w].pc = "idle"
      /\ \A c \in Clients : client[c].pc = "idle"
  BY DEF IInv, BootOK
<1>3. IdsAreFresh' /\ \A w \in Workers : Active(w)' => AttemptOK(w)'
  BY <1>2 DEF IdsAreFresh, Active
<1>4. \A c \in Clients : RequestOK(c)'
  BY <1>2 DEF RequestOK, IInv
<1>5. BootOK'
  BY <1>2 DEF BootOK
<1>6. \A t \in accepted' : rows'[t] # Absent
  BY DEF IInv, TypeOK, RowsKeep
<1>7. ASSUME Serving' PROVE \A t \in Tickets : Waits(t)' => t \in Findable'
  <2>1. \A t \in Tickets : Restored(t)
    BY <1>7 DEF IInv, BootOK
  <2>2. \A t \in Tickets : Restored(t) /\ Waits(t) => t \in Findable
    BY DEF Restored, ReservedBy, HeldBy, Waits, Findable, IInv, Keys, RedisAgrees
  <2>3. QED
    BY <1>7, <2>1, <2>2 DEF Waits
<1>8. NoTicketForgotten'
  BY <1>7 DEF NoTicketForgotten, IInv, TypeOK, Waits, Findable
<1>9. QED
  BY <1>1, <1>3, <1>4, <1>5, <1>6, <1>8 DEF IInv

\* A restored ticket is held as its row says, and the others as before.
LEMMA UpsertRestores ==
  ASSUME NEW t, NEW row, UpsertTicket(t, row)
  PROVE  /\ \A u, s : InState(u, s)' <=> IF u = t THEN row.state = s ELSE InState(u, s)
         /\ \A u : u # t => /\ u \in pools' <=> u \in pools
                            /\ \A r : u \in HeldAfter(r) <=> u \in HeldBy(r)
         /\ row.state = "QUEUED" => t \in pools'
         /\ row.state = "RESERVED" => t \in HeldAfter(row.id)
<1>1. \A u, s : InState(u, s)' <=> IF u = t THEN row.state = s ELSE InState(u, s)
  BY DEF UpsertTicket, InState, Put
<1>2. CASE row.state = "QUEUED"
  BY <1>1, <1>2 DEF UpsertTicket, Delete, Restrict, HeldAfter, HeldBy
<1>3. CASE row.state = "RESERVED"
  BY <1>1, <1>3 DEF UpsertTicket, Put, HeldAfter, HeldBy
<1>4. QED
  BY <1>2, <1>3 DEF UpsertTicket

\* The rebuild.
LEMMA RebuildIInv ==
  ASSUME IInv, Rebuild
  PROVE  IInv'
<1>1. boot \in [pc : BootPC, todo : SUBSET Tickets]
  BY DEF IInv, TypeOK
<1>2. CASE RebuildRecoversPg
  <2>1. /\ boot.pc = "recoverPg" /\ boot' = [boot EXCEPT !.pc = "recoverRedis"]
        /\ rows' = Updated(ExpiredRows, "QUEUED", None) /\ UNCHANGED redisVars
        /\ UNCHANGED <<lapsed, worker, client, accepted>>
    BY <1>2 DEF RebuildRecoversPg
  <2>2. /\ boot' \in [pc : BootPC, todo : SUBSET Tickets] /\ boot'.pc = "recoverRedis"
    BY <1>1, <2>1 DEF BootPC
  <2>3. RowsKeep /\ Keys'
    BY <2>1, ExpiredRowsReturn
  <2>4. QED
    BY <2>1, <2>2, <2>3, OneBoot DEF Serving, Up, RowsKeep
<1>3. CASE RebuildRecoversRedis
  <2>1. /\ boot.pc = "recoverRedis" /\ boot' = [boot EXCEPT !.pc = "read"]
        /\ RecoverScript(lapsed)
        /\ UNCHANGED <<rows, lapsed, worker, client, accepted>>
    BY <1>3 DEF RebuildRecoversRedis
  <2>2. /\ boot' \in [pc : BootPC, todo : SUBSET Tickets] /\ boot'.pc = "read"
    BY <1>1, <2>1 DEF BootPC
  <2>3. RowsKeep /\ Keys'
    BY <2>1, RecoverKeys, SameRows DEF IInv
  <2>4. QED
    BY <2>1, <2>2, <2>3, OneBoot DEF Serving, Up, RowsKeep
<1>4. CASE RebuildReads
  <2>1. /\ boot.pc = "read"
        /\ boot' = [pc |-> "restore", todo |-> InTable({"QUEUED", "RESERVED"})]
        /\ UNCHANGED <<redisVars, rows, lapsed, worker, client, accepted>>
    BY <1>4 DEF RebuildReads
  <2>2. /\ boot' \in [pc : BootPC, todo : SUBSET Tickets] /\ boot'.pc = "restore"
        /\ \A t \in Tickets \ boot'.todo : Restored(t)'
    BY <2>1 DEF BootPC, InTable, Restored
  <2>3. RowsKeep /\ Keys'
    BY <2>1, SameData
  <2>4. QED
    BY <2>1, <2>2, <2>3, OneBoot DEF Serving, Up, RowsKeep
<1>5. ASSUME NEW t \in Tickets, RebuildRestores(t) PROVE IInv'
  <2>1. /\ boot.pc = "restore" /\ t \in boot.todo
        /\ boot' = [boot EXCEPT !.todo = @ \ {t}] /\ UpsertTicket(t, rows[t])
        /\ UNCHANGED <<rows, lapsed, worker, client, accepted>>
    BY <1>5 DEF RebuildRestores
  <2>2. /\ boot' \in [pc : BootPC, todo : SUBSET Tickets] /\ boot'.pc = "restore"
        /\ boot'.todo = boot.todo \ {t}
    BY <1>1, <2>1
  <2>3. Keys'
    BY <2>1, UpsertKeys DEF IInv, TypeOK
  <2>4. \A u \in Tickets \ boot'.todo : Restored(u)'
    <3>1. rows[t] \in Row /\ \A u \in (Tickets \ boot'.todo) \ {t} : Restored(u)
      BY <2>1, <2>2 DEF IInv, TypeOK, BootOK
    <3>2. QED
      BY <2>1, <3>1, UpsertRestores DEF Restored, ReservedBy, HeldBy, HeldAfter
  <2>5. RowsKeep
    BY <2>1, SameRows
  <2>6. QED
    BY <2>1, <2>2, <2>3, <2>4, <2>5, OneBoot DEF Serving, Up, RowsKeep
<1>6. CASE RebuildEnds
  <2>1. /\ boot.pc = "restore" /\ boot.todo = {} /\ boot' = Up
        /\ UNCHANGED <<redisVars, rows, lapsed, worker, client, accepted>>
    BY <1>6 DEF RebuildEnds
  <2>2. boot' \in [pc : BootPC, todo : SUBSET Tickets] /\ boot'.pc = "up"
    BY <2>1 DEF BootPC, Up
  <2>3. RowsKeep /\ Keys'
    BY <2>1, SameData
  <2>4. UNCHANGED Findable
    BY <2>1 DEF Findable, redisVars
  <2>5. QED
    BY <2>1, <2>2, <2>3, <2>4, OneBoot DEF Serving, Up, RowsKeep
<1>7. QED
  BY <1>2, <1>3, <1>4, <1>5, <1>6 DEF Rebuild

\* A restart, with the data of Redis or without.
LEMMA RestartIInv ==
  ASSUME IInv, Restart
  PROVE  IInv'
<1>1. /\ worker' = [w \in Workers |-> IdleWorker]
      /\ client' = [c \in Clients |-> IdleClient]
      /\ boot' = [pc |-> "recoverPg", todo |-> {}]
      /\ RedisEmptied \/ UNCHANGED redisVars
      /\ UNCHANGED <<rows, lapsed, accepted>>
  BY DEF Restart
<1>2. IdleWorker \in WorkerState /\ IdleClient \in ClientState
  BY DEF IdleWorker, WorkerState, WorkerPC, IdleClient, ClientState, ClientPC, Row, Absent
<1>3. TypeOK'
  BY <1>1, <1>2 DEF IInv, TypeOK, WorkerState, ClientState, BootPC
<1>4. Keys'
  <2>1. CASE RedisEmptied
    <3>1. /\ states' = << >> /\ known' = {} /\ pools' = {} /\ reservations' = << >>
          /\ expiry' = << >>
      BY <2>1 DEF RedisEmptied
    <3>2. DOMAIN << >> = {}
      OBVIOUS
    <3>3. QED
      BY <3>1, <3>2 DEF Keys, RedisAgrees, InState
  <2>2. CASE UNCHANGED redisVars
    BY <2>2, QuietKeys DEF IInv, redisVars
  <2>3. QED
    BY <1>1, <2>1, <2>2
<1>5. ~Serving'
  BY <1>1 DEF Serving, Up
<1>6. /\ \A w \in Workers : worker'[w].pc = "idle"
      /\ \A c \in Clients : client'[c].pc = "idle" /\ client'[c].row = Absent
  BY <1>1 DEF IdleWorker, IdleClient
<1>7. IdsAreFresh' /\ \A w \in Workers : Active(w)' => AttemptOK(w)'
  BY <1>6 DEF IdsAreFresh, Active
<1>8. \A c \in Clients : RequestOK(c)'
  BY <1>6 DEF RequestOK
<1>9. BootOK' /\ NoTicketForgotten'
  BY <1>1, <1>5, <1>6 DEF BootOK, NoTicketForgotten
<1>10. \A t \in accepted' : rows'[t] # Absent
  BY <1>1 DEF IInv
<1>11. QED
  BY <1>3, <1>4, <1>7, <1>8, <1>9, <1>10 DEF IInv

\* Deadlines pass, and the sets of reservations disappear.
LEMMA TimeIInv ==
  ASSUME IInv, NEW r \in Reservations, Lapse(r) \/ SetExpires(r)
  PROVE  IInv'
<1>1. /\ UNCHANGED <<states, known, pools, reservations, expiry>>
      /\ UNCHANGED <<rows, worker, client, boot, accepted>>
      /\ lapsed \subseteq lapsed' /\ lapsed' \subseteq Reservations
  BY DEF Lapse, SetExpires, ExpireSet, redisVars, IInv, TypeOK
<1>2. TypeOK'
  BY <1>1 DEF IInv, TypeOK
<1>3. Keys' /\ NothingHeld
  BY <1>1, QuietKeys DEF IInv
<1>4. RowsKeep /\ \A id \in Reservations : LeavesAlone(id)
  BY <1>1, <1>3, SameRows
<1>5. ASSUME NEW v \in Workers, Active(v)' PROVE AttemptOK(v)'
  <2>1. Active(v) /\ worker'[v] = worker[v] /\ LeavesAlone(worker[v].id)
    BY <1>1, <1>4, <1>5 DEF Active, IInv, AttemptOK
  <2>2. QED
    BY <1>1, <1>4, <2>1, AttemptSurvives
<1>6. IdsAreFresh' /\ BootOK' /\ NoTicketForgotten'
  BY <1>1 DEF IInv, IdsAreFresh, Active, BootOK, Serving, Restored, ReservedBy, InState,
              HeldBy, NoTicketForgotten
<1>7. \A c \in Clients : RequestOK(c)'
  BY <1>1, <1>4, RequestSurvives
<1>8. \A t \in accepted' : rows'[t] # Absent
  BY <1>1 DEF IInv
<1>9. QED
  BY <1>2, <1>3, <1>5, <1>6, <1>7, <1>8 DEF IInv

-----------------------------------------------------------------------------
(* The specification *)

\* Nothing runs yet, and Redis is empty.
LEMMA InitIInv == Init => IInv
<1> SUFFICES ASSUME Init PROVE IInv
  OBVIOUS
<1>1. Keys
  BY EmptyKeys DEF Init, RedisInit
<1>2. TypeOK
  BY DEF Init, TypeOK, Row, Absent, IdleWorker, WorkerPC, IdleClient, ClientPC, BootPC
<1>3. /\ \A w \in Workers : worker[w].pc = "idle"
      /\ \A c \in Clients : client[c].pc = "idle" /\ client[c].row = Absent
  BY DEF Init, IdleWorker, IdleClient
<1>4. IdsAreFresh /\ \A w \in Workers : Active(w) => AttemptOK(w)
  BY <1>3 DEF IdsAreFresh, Active
<1>5. \A c \in Clients : RequestOK(c)
  BY <1>3 DEF RequestOK
<1>6. BootOK /\ NoTicketForgotten /\ \A t \in accepted : rows[t] # Absent
  BY <1>3 DEF Init, BootOK, NoTicketForgotten
<1>7. QED
  BY <1>1, <1>2, <1>4, <1>5, <1>6 DEF IInv

\* Every step keeps the invariant.
LEMMA NextIInv == IInv /\ [Next]_vars => IInv'
<1> SUFFICES ASSUME IInv, [Next]_vars PROVE IInv'
  OBVIOUS
<1>1. ASSUME NEW w \in Workers, WorkerStep(w) PROVE IInv'
  BY <1>1, SearchIInv, ReserveIInv, AssignIInv, ReleaseIInv DEF WorkerStep
<1>2. ASSUME NEW c \in Clients,
             \/ \E t \in Tickets : InsertTicket(c, t) \/ CancelInPg(c, t)
             \/ ClientStep(c)
             \/ AbortRequest(c)
      PROVE  IInv'
  BY <1>2, ClientIInv
<1>3. CASE \E r \in Reservations : Lapse(r) \/ SetExpires(r)
  BY <1>3, TimeIInv
<1>4. CASE Rebuild
  BY <1>4, RebuildIInv
<1>5. CASE Restart
  BY <1>5, RestartIInv
<1>6. CASE UNCHANGED vars
  BY <1>6
  DEF vars, redisVars, IInv, TypeOK, Keys, RedisAgrees, InState, IdsAreFresh, Active,
      AttemptOK, HeldBy, ReservationRows, InTable, RequestOK, Decided, BootOK, Serving,
      Restored, ReservedBy, NoTicketForgotten
<1>7. QED
  BY <1>1, <1>2, <1>3, <1>4, <1>5, <1>6 DEF Next

\* No statement updates the row of a ticket that was cancelled or matched.
LEMMA DecidedRowsStay ==
  ASSUME IInv, [Next]_vars, NEW t \in Tickets, Decided(t)
  PROVE  rows'[t] = rows[t]
<1>1. rows[t] \in Row /\ rows[t] # Absent
  BY DEF IInv, TypeOK, Decided, Absent
<1>2. ASSUME NEW w \in Workers, WorkerStep(w) PROVE rows'[t] = rows[t]
  <2>1. \/ rows' = rows
        \/ \E S \in SUBSET InTable({"QUEUED", "RESERVED"}) :
             \E s, id : rows' = Updated(S, s, id)
    <3>1. CASE RecoverPg(w)
      BY <3>1 DEF RecoverPg, ExpiredRows, InTable
    <3>2. CASE ReserveInPg(w)
      BY <3>2 DEF ReserveInPg, AllCandidates, InTable
    <3>3. CASE AssignInPg(w) \/ ReleaseInPg(w)
      BY <3>3 DEF AssignInPg, ReleaseInPg, ReservationRows, InTable
    <3>4. CASE ~(RecoverPg(w) \/ ReserveInPg(w) \/ AssignInPg(w) \/ ReleaseInPg(w))
      BY <1>2, <3>4
      DEF WorkerStep, RecoverRedis, PickTickets, NoMatch, ReserveInRedis, RedisRefuses,
          PgRefuses, MakeMatch, AssignRefused, Finalize, ReleaseInRedis
    <3>5. QED
      BY <3>1, <3>2, <3>3, <3>4
  <2>2. QED
    BY <2>1 DEF Updated, InTable, Decided
<1>3. ASSUME NEW c \in Clients, NEW u \in Tickets, InsertTicket(c, u)
      PROVE  rows'[t] = rows[t]
  BY <1>1, <1>3 DEF InsertTicket, Updated
<1>4. ASSUME NEW c \in Clients, NEW u \in Tickets, CancelInPg(c, u)
      PROVE  rows'[t] = rows[t]
  BY <1>1, <1>4 DEF CancelInPg, Updated, Decided, Row
<1>5. CASE \E c \in Clients : ClientStep(c) \/ AbortRequest(c)
  BY <1>5 DEF ClientStep, GetTicket, Upsert, Look, Remove, AbortRequest
<1>6. CASE Rebuild
  BY <1>6 DEF Rebuild, RebuildRecoversPg, RebuildRecoversRedis, RebuildReads,
              RebuildRestores, RebuildEnds, Updated, ExpiredRows, InTable, Decided
<1>7. CASE \/ \E r \in Reservations : Lapse(r) \/ SetExpires(r)
           \/ Restart \/ UNCHANGED vars
  BY <1>7 DEF Lapse, SetExpires, Restart, vars
<1>8. QED
  BY <1>2, <1>3, <1>4, <1>5, <1>6, <1>7 DEF Next

\* The invariant holds throughout.
THEOREM InvariantHolds == Spec => []IInv
  BY InitIInv, NextIInv, PTL DEF Spec

\* The scripts and pipelines of queue.go keep the keys of Redis in agreement,
\* however they are interleaved, repeated or given up, whatever a request had
\* read before its pipeline, and through rebuilds and the loss of all data.
THEOREM KeysAgree == Spec => []RedisAgrees
<1>1. IInv => RedisAgrees
  BY DEF IInv, Keys
<1>2. QED
  BY <1>1, InvariantHolds, PTL

\* A reservation that PostgreSQL accepted keeps its whole roster there until its
\* worker gives it up or its deadline passes, whatever Redis offers to others.
THEOREM ReservationsAreWhole == Spec => []LiveReservationIsWhole
<1>1. IInv => LiveReservationIsWhole
  BY DEF IInv, LiveReservationIsWhole, Active, AttemptOK
<1>2. QED
  BY <1>1, InvariantHolds, PTL

\* A ticket whose creation was answered with success, and which waits in
\* PostgreSQL, can be found in its pool or through the expiry index.
THEOREM TicketsAreNotForgotten == Spec => []NoTicketForgotten
<1>1. IInv => NoTicketForgotten
  BY DEF IInv
<1>2. QED
  BY <1>1, InvariantHolds, PTL

\* A cancelled or matched ticket that Redis still offers is not matched again.
THEOREM DecisionsAreFinal == Spec => DecisionsStand
<1>1. IInv /\ [Next]_vars => [\A t \in Tickets : Decided(t) => rows'[t] = rows[t]]_vars
  BY DecidedRowsStay
<1>2. QED
  BY <1>1, InvariantHolds, PTL DEF Spec, DecisionsStand

\* At the end of a rebuild Redis holds every waiting and every reserved ticket as
\* the table does.
THEOREM RebuildsAreComplete == Spec => RebuildIsComplete
<1> DEFINE Step ==
      RebuildEnds => \A t \in Tickets :
        /\ rows[t].state = "QUEUED" => InState(t, "QUEUED") /\ t \in pools
        /\ rows[t].state = "RESERVED" => ReservedBy(t, rows[t].id)
<1>1. IInv /\ [Next]_vars => [Step]_vars
  BY DEF IInv, BootOK, RebuildEnds, Restored
<1>2. QED
  BY <1>1, InvariantHolds, PTL DEF Spec, RebuildIsComplete

=============================================================================
