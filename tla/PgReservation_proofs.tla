------------------------- MODULE PgReservation_proofs -------------------------
(***************************************************************************)
(* Proofs about the PostgreSQL ticket and match repositories, for any sets *)
(* of tickets, attempts, workers and clients, any size of a match and any  *)
(* number of crashes.                                                      *)
(***************************************************************************)
EXTENDS PgReservation, FiniteSetTheorems, TLAPS

\* The transactions in which a worker locks rows.
Locking == {"recover", "reserve", "assign", "release"}

\* What a transaction has read it may rely on: it holds the locks.
LocksHold ==
  /\ \A w \in Workers : \A t \in worker[w].got : lock[t] = w
  /\ \A c \in Clients : client[c] \in Tickets => lock[client[c]] = c

\* What the rows that worker w's transaction is to return are like.
Returned(w) ==
  /\ worker[w].pc \notin Locking => worker[w].got = {} /\ worker[w].todo = {}
  /\ At(w, "recover") => worker[w].got \subseteq ExpiredRows
  /\ At(w, "reserve") => worker[w].got \cup worker[w].todo = worker[w].roster
  /\ worker[w].pc \in {"assign", "release"} =>
       \A t \in worker[w].got : Held(rows[t], worker[w].id)

\* An attempt has an id of its own.
IdsDiffer ==
  /\ \A w \in Workers :
       worker[w].id = None <=> worker[w].pc \in {"idle", "recover", "pick"}
  /\ \A v, w \in Workers : worker[v].id = worker[w].id /\ v # w => worker[v].id = None

\* What the tables hold of the attempt of worker w.
Attempt(w) ==
  LET m == worker[w].id IN
  /\ At(w, "reserve") =>
       m \notin DOMAIN matches \cup lapsed /\ \A t \in Tickets : rows[t].id # m
  /\ At(w, "create") =>
       /\ m \notin DOMAIN matches
       /\ ReservationRows(m) \subseteq worker[w].roster
  /\ worker[w].pc \in {"allocate", "assign", "fail"} =>
       /\ m \in DOMAIN matches
       /\ matches[m] = [state |-> "ALLOCATING", roster |-> worker[w].roster]
  /\ worker[w].pc \in {"releasing", "release"} =>
       m \in DOMAIN matches /\ matches[m].state = "FAILED"

\* As long as its reservation has not lapsed nothing takes a ticket away from
\* an attempt, and the statement that assigns its tickets finds them all.
OnTime(w) ==
  worker[w].id \notin lapsed =>
    /\ worker[w].pc \in {"create", "allocate", "assign"} =>
         worker[w].roster \subseteq ReservationRows(worker[w].id)
    /\ At(w, "assign") =>
         worker[w].roster \subseteq worker[w].got \cup worker[w].todo

\* A ticket is only held by, or in, a match that has it on its roster; a
\* match in the making or failed has no ticket.
OnRoster ==
  \A t \in Tickets :
    /\ rows[t].state = "RESERVED" /\ rows[t].id \in DOMAIN matches =>
         t \in matches[rows[t].id].roster
    /\ rows[t].state = "ASSIGNED" =>
         /\ rows[t].id \in DOMAIN matches
         /\ t \in matches[rows[t].id].roster
         /\ rows[t].active => matches[rows[t].id].state \in {"READY", "RUNNING"}
         /\ ~rows[t].active => matches[rows[t].id].state = "FINISHED"

\* A finished match has released its whole roster.
Released(m) ==
  matches[m].state = "FINISHED" =>
    \A t \in matches[m].roster :
      rows[t] = [state |-> "ASSIGNED", id |-> m, active |-> FALSE]

IInv ==
  /\ TypeOK
  /\ LocksHold
  /\ \A w \in Workers : Returned(w)
  /\ IdsDiffer
  /\ \A w \in Workers : Attempt(w)
  /\ \A w \in Workers : OnTime(w)
  /\ OnRoster
  /\ \A m \in DOMAIN matches : Released(m)
  /\ OnTimeMatchIsComplete

USE DEF At, Free, Held

-----------------------------------------------------------------------------
(* Rows and workers *)

WorkerRecord ==
  [pc : PC, id : Matches \cup {None}, roster : SUBSET Tickets,
   todo : SUBSET Tickets, got : SUBSET Tickets]

\* What a worker may be.
LEMMA WorkerRecords ==
  \A pc \in PC, id \in Matches \cup {None}, R, T, G \in SUBSET Tickets :
     [pc |-> pc, id |-> id, roster |-> R, todo |-> T, got |-> G] \in WorkerRecord
  BY DEF WorkerRecord

\* What a row is in each of its states.
LEMMA RowShape ==
  ASSUME NEW x \in Row
  PROVE  /\ x = [state |-> x.state, id |-> x.id, active |-> x.active]
         /\ x.state \in {"QUEUED", "RESERVED", "ASSIGNED", "CANCELLED"}
         /\ x.id \in Matches \cup {None}
         /\ x.active \in BOOLEAN
         /\ x.state \in {"QUEUED", "CANCELLED"} <=> x.id = None
         /\ x.state \in {"QUEUED", "RESERVED"} => x.active
         /\ x.state = "CANCELLED" => ~x.active
  BY NobodyAssumption DEF Row

\* The rows that the program writes are rows that it can read.
LEMMA WrittenRows ==
  /\ \A x \in Row : x.state = "RESERVED" =>
       Queued(x) = [state |-> "QUEUED", id |-> None, active |-> TRUE]
  /\ \A x \in Row, m \in Matches : x.state = "QUEUED" =>
       [x EXCEPT !.state = "RESERVED", !.id = m]
         = [state |-> "RESERVED", id |-> m, active |-> TRUE]
  /\ \A x \in Row : x.state = "RESERVED" =>
       [x EXCEPT !.state = "ASSIGNED"]
         = [state |-> "ASSIGNED", id |-> x.id, active |-> TRUE]
  /\ \A x \in Row : x.state = "ASSIGNED" =>
       [x EXCEPT !.active = FALSE]
         = [state |-> "ASSIGNED", id |-> x.id, active |-> FALSE]
  /\ \A x \in Row :
       [x EXCEPT !.state = "CANCELLED", !.id = None, !.active = FALSE]
         = [state |-> "CANCELLED", id |-> None, active |-> FALSE]
  /\ \A m \in Matches, a \in BOOLEAN : [state |-> "ASSIGNED", id |-> m, active |-> a] \in Row
  /\ \A m \in Matches : [state |-> "RESERVED", id |-> m, active |-> TRUE] \in Row
  /\ [state |-> "QUEUED", id |-> None, active |-> TRUE] \in Row
  /\ [state |-> "CANCELLED", id |-> None, active |-> FALSE] \in Row
<1> DEFINE Rows(s, i, a) == [state : {s}, id : {i}, active : {a}]
<1>0. ASSUME NEW s, NEW i, NEW a, NEW y \in Rows(s, i, a)
      PROVE  y = [state |-> s, id |-> i, active |-> a]
  OBVIOUS
<1>1. ASSUME NEW x \in Row, x.state = "RESERVED"
      PROVE  Queued(x) = [state |-> "QUEUED", id |-> None, active |-> TRUE]
  <2>1. x \in Rows("RESERVED", x.id, TRUE)
    BY <1>1 DEF Row
  <2>2. [x EXCEPT !.state = "QUEUED", !.id = None] \in Rows("QUEUED", None, TRUE)
    BY <2>1
  <2>3. QED
    BY <1>0, <1>1, <2>2 DEF Queued
<1>2. ASSUME NEW x \in Row, NEW m \in Matches, x.state = "QUEUED"
      PROVE  [x EXCEPT !.state = "RESERVED", !.id = m]
               = [state |-> "RESERVED", id |-> m, active |-> TRUE]
  <2>1. x \in Rows("QUEUED", x.id, TRUE)
    BY <1>2 DEF Row
  <2>2. [x EXCEPT !.state = "RESERVED", !.id = m] \in Rows("RESERVED", m, TRUE)
    BY <2>1
  <2>3. QED
    BY <1>0, <2>2
<1>3. ASSUME NEW x \in Row, x.state = "RESERVED"
      PROVE  [x EXCEPT !.state = "ASSIGNED"]
               = [state |-> "ASSIGNED", id |-> x.id, active |-> TRUE]
  <2>1. x \in Rows("RESERVED", x.id, TRUE)
    BY <1>3 DEF Row
  <2>2. [x EXCEPT !.state = "ASSIGNED"] \in Rows("ASSIGNED", x.id, TRUE)
    BY <2>1
  <2>3. QED
    BY <1>0, <2>2
<1>4. ASSUME NEW x \in Row, x.state = "ASSIGNED"
      PROVE  [x EXCEPT !.active = FALSE]
               = [state |-> "ASSIGNED", id |-> x.id, active |-> FALSE]
  <2>1. x \in Rows("ASSIGNED", x.id, x.active)
    BY <1>4, RowShape
  <2>2. [x EXCEPT !.active = FALSE] \in Rows("ASSIGNED", x.id, FALSE)
    BY <2>1
  <2>3. QED
    BY <1>0, <2>2
<1>5. ASSUME NEW x \in Row
      PROVE  [x EXCEPT !.state = "CANCELLED", !.id = None, !.active = FALSE]
               = [state |-> "CANCELLED", id |-> None, active |-> FALSE]
  <2>1. x \in Rows(x.state, x.id, x.active)
    BY RowShape
  <2>2. [x EXCEPT !.state = "CANCELLED", !.id = None, !.active = FALSE]
          \in Rows("CANCELLED", None, FALSE)
    BY <2>1
  <2>3. QED
    BY <1>0, <2>2
<1>6. /\ \A m \in Matches, a \in BOOLEAN :
           [state |-> "ASSIGNED", id |-> m, active |-> a] \in Row
      /\ \A m \in Matches : [state |-> "RESERVED", id |-> m, active |-> TRUE] \in Row
      /\ [state |-> "QUEUED", id |-> None, active |-> TRUE] \in Row
      /\ [state |-> "CANCELLED", id |-> None, active |-> FALSE] \in Row
  BY DEF Row
<1>7. QED
  BY <1>1, <1>2, <1>3, <1>4, <1>5, <1>6

\* A stored match.
LEMMA StoredMatch ==
  ASSUME TypeOK, NEW m \in DOMAIN matches
  PROVE  /\ m \in Matches
         /\ matches[m].state \in MatchState
         /\ matches[m].roster \in SUBSET Tickets
         /\ matches[m] \in [state : MatchState, roster : SUBSET Tickets]
  BY DEF TypeOK, IsMap

\* A step that changes what one worker knows and the row locks, and no table.
LEMMA PrivateStep ==
  ASSUME IInv, NEW w \in Workers,
         UNCHANGED <<rows, matches, lapsed>>,
         crashes' \in 0 .. MaxCrashes,
         lock' \in [Tickets -> Workers \cup Clients \cup {None}],
         client' \in [Clients -> Tickets \cup {None, Done}],
         worker' = [worker EXCEPT ![w] = worker'[w]],
         worker'[w] \in WorkerRecord,
         LocksHold', Returned(w)', Attempt(w)', OnTime(w)',
         worker'[w].id = None <=> worker'[w].pc \in {"idle", "recover", "pick"},
         \A v \in Workers \ {w} : worker'[w].id = worker[v].id => worker[v].id = None
  PROVE  IInv'
<1>1. \A v \in Workers \ {w} : worker'[v] = worker[v]
  BY DEF IInv, TypeOK
<1>2. TypeOK'
  BY <1>1 DEF IInv, TypeOK, IsMap, WorkerRecord
<1>3. IdsDiffer'
  BY <1>1 DEF IInv, IdsDiffer
<1>4. \A v \in Workers : Returned(v)'
  BY <1>1 DEF IInv, Returned, ExpiredRows
<1>5. \A v \in Workers : Attempt(v)'
  BY <1>1 DEF IInv, Attempt, ReservationRows
<1>6. \A v \in Workers : OnTime(v)'
  BY <1>1 DEF IInv, OnTime, ReservationRows
<1>7. (\A m \in DOMAIN matches : Released(m))' /\ OnRoster' /\ OnTimeMatchIsComplete'
  BY DEF IInv, Released, OnRoster, OnTimeMatchIsComplete, Open
<1>8. QED
  BY <1>2, <1>3, <1>4, <1>5, <1>6, <1>7 DEF IInv

\* A worker's state before and after a step of its own.
LEMMA WorkerState ==
  ASSUME IInv, NEW w \in Workers
  PROVE  /\ worker[w].pc \in PC /\ worker[w].id \in Matches \cup {None}
         /\ worker[w].roster \in SUBSET Tickets /\ worker[w].todo \in SUBSET Tickets
         /\ worker[w].got \in SUBSET Tickets
         /\ worker[w] \in WorkerRecord
  BY DEF IInv, TypeOK, WorkerRecord

\* The end of a transaction frees its own rows and no other.
LEMMA UnlockedRows ==
  ASSUME IInv, NEW x \in Workers \cup Clients, lock' = Unlocked(x)
  PROVE  /\ lock' \in [Tickets -> Workers \cup Clients \cup {None}]
         /\ \A t \in Tickets : lock[t] # x => lock'[t] = lock[t]
  BY DEF IInv, TypeOK, Unlocked

\* A worker that gives up leaves nothing that others rely on.
LEMMA GoIdlePrivate ==
  ASSUME IInv, NEW w \in Workers, GoIdle(w), crashes' \in 0 .. MaxCrashes,
         UNCHANGED <<rows, matches, lapsed, client>>
  PROVE  IInv'
<1>1. worker'[w] = Idle /\ worker' = [worker EXCEPT ![w] = worker'[w]]
      /\ \A v \in Workers \ {w} : worker'[v] = worker[v]
  BY DEF GoIdle, IInv, TypeOK
<1>2. Idle \in WorkerRecord
  BY WorkerRecords DEF Idle, PC
<1>3. LocksHold'
  BY <1>1, UnlockedRows, TransactionsAssumption
  DEF IInv, TypeOK, LocksHold, GoIdle, Idle
<1>4. Returned(w)' /\ Attempt(w)' /\ OnTime(w)'
  BY <1>1 DEF Returned, Attempt, OnTime, Idle, Locking
<1>5. \A v \in Workers \ {w} : worker'[w].id = worker[v].id => worker[v].id = None
  BY <1>1 DEF Idle
<1>6. QED
  BY <1>1, <1>2, <1>3, <1>4, <1>5, UnlockedRows, PrivateStep
  DEF IInv, TypeOK, GoIdle, Idle

-----------------------------------------------------------------------------
(* Steps that change no table *)

\* A worker moves on and takes the snapshot of a statement.
Snapshot(w, pc, S) ==
  worker' = [worker EXCEPT ![w].pc = pc, ![w].todo = S]

\* A snapshot by a worker that holds no lock.
LEMMA SnapshotPrivate ==
  ASSUME IInv, NEW w \in Workers, NEW pc \in PC, NEW S \in SUBSET Tickets,
         Snapshot(w, pc, S),
         UNCHANGED <<rows, lock, matches, lapsed, client, crashes>>,
         worker[w].got = {},
         pc \notin Locking => S = {},
         pc # "reserve",
         worker[w].id = None <=> pc \in {"idle", "recover", "pick"},
         Attempt(w)', OnTime(w)'
  PROVE  IInv'
<1>1. worker'[w] = [pc |-> pc, id |-> worker[w].id, roster |-> worker[w].roster,
                    todo |-> S, got |-> {}]
  BY WorkerState DEF IInv, TypeOK, Snapshot
<1>2. /\ worker' = [worker EXCEPT ![w] = worker'[w]]
      /\ \A v \in Workers \ {w} : worker'[v] = worker[v]
  BY DEF IInv, TypeOK, Snapshot
<1>3. /\ worker'[w].pc = pc /\ worker'[w].id = worker[w].id
      /\ worker'[w].todo = S /\ worker'[w].got = {}
  BY <1>1
<1>4. LocksHold'
  BY <1>2, <1>3 DEF IInv, LocksHold
<1>5. Returned(w)'
  BY <1>3 DEF Returned, Locking
<1>6. \A v \in Workers \ {w} : worker'[w].id = worker[v].id => worker[v].id = None
  BY <1>3 DEF IInv, IdsDiffer
<1>7. worker'[w] \in WorkerRecord
  <2>1. /\ worker[w].id \in Matches \cup {None}
        /\ worker[w].roster \in SUBSET Tickets /\ {} \in SUBSET Tickets
    BY WorkerState
  <2>2. QED
    BY <1>1, <2>1, WorkerRecords
<1>8. /\ client' \in [Clients -> Tickets \cup {None, Done}] /\ crashes' \in 0 .. MaxCrashes
      /\ lock' \in [Tickets -> Workers \cup Clients \cup {None}]
  BY DEF IInv, TypeOK
<1>9. QED
  BY <1>2, <1>3, <1>4, <1>5, <1>6, <1>7, <1>8, PrivateStep

\* The recovery begins.
LEMMA BeginRecoveryIInv ==
  ASSUME IInv, NEW w \in Workers, BeginRecovery(w)
  PROVE  IInv'
<1>1. worker[w].id = None /\ worker[w].got = {}
  BY DEF BeginRecovery, IInv, IdsDiffer, Returned, Locking
<1>2. worker'[w].pc = "recover" /\ worker'[w].id = None
  BY <1>1 DEF BeginRecovery, IInv, TypeOK
<1>3. Attempt(w)' /\ OnTime(w)'
  BY <1>2 DEF Attempt, OnTime
<1>4. ExpiredRows \in SUBSET Tickets
  BY DEF ExpiredRows
<1>5. QED
  BY <1>1, <1>3, <1>4, SnapshotPrivate DEF BeginRecovery, Snapshot, PC, Locking

\* A row is taken over by the recovery, or passed by.
LEMMA RecoverRowIInv ==
  ASSUME IInv, NEW w \in Workers, RecoverRow(w)
  PROVE  IInv'
<1>1. PICK t \in worker[w].todo :
        /\ lock' = IF Free(t) THEN [lock EXCEPT ![t] = w] ELSE lock
        /\ worker' = [worker EXCEPT
             ![w].todo = @ \ {t},
             ![w].got = IF Free(t) /\ t \in ExpiredRows THEN @ \cup {t} ELSE @]
  BY DEF RecoverRow
<1> DEFINE G == IF Free(t) /\ t \in ExpiredRows
                THEN worker[w].got \cup {t} ELSE worker[w].got
           x == worker'[w]
<1>2. t \in Tickets /\ worker[w].id = None /\ worker[w].pc = "recover"
  BY WorkerState DEF RecoverRow, IInv, IdsDiffer
<1>3. x = [worker[w] EXCEPT !.todo = worker[w].todo \ {t}, !.got = G]
  BY <1>1 DEF IInv, TypeOK
<1>4. /\ worker' = [worker EXCEPT ![w] = x]
      /\ \A v \in Workers \ {w} : worker'[v] = worker[v]
  BY <1>1, <1>2 DEF IInv, TypeOK
<1>5. /\ lock' \in [Tickets -> Workers \cup Clients \cup {None}]
      /\ \A u \in Tickets : lock[u] # None => lock'[u] = lock[u]
      /\ lock[t] = None => lock'[t] = w
  BY <1>1, <1>2 DEF IInv, TypeOK
<1>6. /\ G \in SUBSET Tickets /\ worker[w].todo \ {t} \in SUBSET Tickets
      /\ \A u \in G : u \in worker[w].got \/ (u = t /\ lock[t] = None /\ t \in ExpiredRows)
  BY <1>2, WorkerState
<1> HIDE DEF G, x
<1>7. /\ x.pc = "recover" /\ x.id = None /\ x.got = G
      /\ x \in WorkerRecord
  BY <1>2, <1>3, <1>6, WorkerState DEF WorkerRecord
<1>8. UNCHANGED <<rows, matches, lapsed, client, crashes>>
  BY DEF RecoverRow
<1>9. LocksHold'
  <2>1. ASSUME NEW v \in Workers, NEW u \in worker'[v].got
        PROVE  lock'[u] = v
    <3>1. CASE v = w
      BY <1>5, <1>6, <1>7, <3>1, NobodyAssumption, WorkerState DEF IInv, LocksHold, x
    <3>2. CASE v # w
      BY <1>4, <1>5, <3>2, NobodyAssumption, WorkerState DEF IInv, LocksHold
    <3>3. QED
      BY <3>1, <3>2
  <2>2. ASSUME NEW c \in Clients, client'[c] \in Tickets
        PROVE  lock'[client'[c]] = c
    BY <1>5, <1>8, <2>2, NobodyAssumption DEF IInv, LocksHold
  <2>3. QED
    BY <2>1, <2>2 DEF LocksHold
<1>10. Returned(w)'
  <2>1. worker[w].got \subseteq ExpiredRows
    BY <1>2 DEF IInv, Returned
  <2>2. x.got \subseteq ExpiredRows'
    BY <1>6, <1>7, <1>8, <2>1 DEF ExpiredRows
  <2>3. QED
    BY <1>7, <2>2 DEF Returned, Locking, x
<1>11. Attempt(w)' /\ OnTime(w)'
  BY <1>7 DEF Attempt, OnTime, x
<1>12. /\ client' \in [Clients -> Tickets \cup {None, Done}] /\ crashes' \in 0 .. MaxCrashes
       /\ UNCHANGED <<rows, matches, lapsed>>
  BY <1>8 DEF IInv, TypeOK
<1>13. QED
  BY <1>4, <1>5, <1>7, <1>9, <1>10, <1>11, <1>12, PrivateStep DEF x

\* The ids that are still free are nowhere in the tables.
LEMMA PickTicketsIInv ==
  ASSUME IInv, NEW w \in Workers, PickTickets(w)
  PROVE  IInv'
<1>1. PICK S \in kSubset(MatchSize, {t \in Tickets : rows[t].state = "QUEUED"}),
           m \in FreshIds :
        worker' = [worker EXCEPT
          ![w] = [Idle EXCEPT !.pc = "reserve", !.id = m, !.roster = S, !.todo = S]]
  BY DEF PickTickets
<1>2. S \in SUBSET Tickets
  BY DEF kSubset
<1>3. /\ m \in Matches /\ m \notin DOMAIN matches \cup lapsed
      /\ \A v \in Workers : worker[v].id # m
      /\ \A t \in Tickets : rows[t].id # m
  BY DEF FreshIds
<1>4. /\ worker'[w] = [pc |-> "reserve", id |-> m, roster |-> S, todo |-> S, got |-> {}]
      /\ worker' = [worker EXCEPT ![w] = worker'[w]]
      /\ \A v \in Workers \ {w} : worker'[v] = worker[v]
  BY <1>1 DEF IInv, TypeOK, Idle
<1>5. UNCHANGED <<rows, lock, matches, lapsed, client, crashes>>
  BY DEF PickTickets
<1>6. LocksHold'
  BY <1>4, <1>5 DEF IInv, LocksHold
<1>7. Returned(w)'
  BY <1>4 DEF Returned, Locking
<1>8. Attempt(w)' /\ OnTime(w)'
  BY <1>3, <1>4, <1>5 DEF Attempt, OnTime
<1>9. worker'[w].id = None <=> worker'[w].pc \in {"idle", "recover", "pick"}
  BY <1>3, <1>4, NobodyAssumption
<1>10. worker'[w] \in WorkerRecord
  BY <1>2, <1>3, <1>4, WorkerRecords DEF PC
<1>11. /\ client' \in [Clients -> Tickets \cup {None, Done}] /\ crashes' \in 0 .. MaxCrashes
       /\ lock' \in [Tickets -> Workers \cup Clients \cup {None}]
  BY <1>5 DEF IInv, TypeOK
<1>12. \A v \in Workers \ {w} : worker'[w].id = worker[v].id => worker[v].id = None
  BY <1>3, <1>4
<1>13. QED
  BY <1>4, <1>5, <1>6, <1>7, <1>8, <1>9, <1>10, <1>11, <1>12, PrivateStep

\* A row is locked; if it still qualifies it is returned.
LEMMA LockRowIInv ==
  ASSUME IInv, NEW w \in Workers, LockRow(w)
  PROVE  IInv'
<1>1. PICK t \in NextRows(worker[w].todo) :
        /\ Free(t)
        /\ lock' = [lock EXCEPT ![t] = w]
        /\ worker' = [worker EXCEPT
             ![w].todo = @ \ {t},
             ![w].got = IF StillWanted(w, t) THEN @ \cup {t} ELSE @]
  BY DEF LockRow
<1> DEFINE G == IF StillWanted(w, t) THEN worker[w].got \cup {t} ELSE worker[w].got
           x == worker'[w]
<1>2. t \in worker[w].todo /\ t \in Tickets
  BY WorkerState DEF NextRows
<1>3. x = [worker[w] EXCEPT !.todo = worker[w].todo \ {t}, !.got = G]
  BY <1>1 DEF IInv, TypeOK
<1>4. /\ worker' = [worker EXCEPT ![w] = x]
      /\ \A v \in Workers \ {w} : worker'[v] = worker[v]
  BY <1>1, <1>2 DEF IInv, TypeOK
<1>5. /\ lock' \in [Tickets -> Workers \cup Clients \cup {None}]
      /\ \A u \in Tickets : lock[u] # None => lock'[u] = lock[u]
      /\ lock'[t] = w
  BY <1>1, <1>2 DEF IInv, TypeOK
<1>6. /\ G \in SUBSET Tickets /\ worker[w].todo \ {t} \in SUBSET Tickets
      /\ \A u \in G : u \in worker[w].got \/ (u = t /\ StillWanted(w, t))
      /\ StillWanted(w, t) => t \in G
      /\ worker[w].got \subseteq G
  BY <1>2, WorkerState
<1> HIDE DEF G, x
<1>7. /\ x.pc = worker[w].pc /\ x.id = worker[w].id /\ x.roster = worker[w].roster
      /\ x.got = G /\ x.todo = worker[w].todo \ {t}
      /\ x \in WorkerRecord
  BY <1>3, <1>6, WorkerState DEF WorkerRecord
<1>8. UNCHANGED <<rows, matches, lapsed, client, crashes>>
      /\ worker[w].pc \in {"reserve", "assign", "release"}
  BY DEF LockRow
<1>9. LocksHold'
  <2>1. ASSUME NEW v \in Workers, NEW u \in worker'[v].got
        PROVE  lock'[u] = v
    <3>1. CASE v = w
      BY <1>5, <1>6, <1>7, <3>1, NobodyAssumption, WorkerState DEF IInv, LocksHold, x
    <3>2. CASE v # w
      BY <1>4, <1>5, <3>2, NobodyAssumption, WorkerState DEF IInv, LocksHold
    <3>3. QED
      BY <3>1, <3>2
  <2>2. ASSUME NEW c \in Clients, client'[c] \in Tickets
        PROVE  lock'[client'[c]] = c
    BY <1>5, <1>8, <2>2, NobodyAssumption DEF IInv, LocksHold
  <2>3. QED
    BY <2>1, <2>2 DEF LocksHold
<1>10. Returned(w)'
  <2>1. CASE worker[w].pc = "reserve"
    BY <1>2, <1>6, <1>7, <2>1, WorkerState DEF IInv, Returned, StillWanted, Locking, x
  <2>2. CASE worker[w].pc \in {"assign", "release"}
    BY <1>6, <1>7, <1>8, <2>2, WorkerState DEF IInv, Returned, StillWanted, Locking, x
  <2>3. QED
    BY <1>8, <2>1, <2>2
<1>11. Attempt(w)'
  BY <1>7, <1>8 DEF IInv, Attempt, ReservationRows, x
<1>12. OnTime(w)'
  <2>1. ASSUME worker[w].id \notin lapsed, worker[w].pc = "assign"
        PROVE  x.roster \subseteq x.got \cup x.todo
    <3>1. /\ worker[w].roster \subseteq ReservationRows(worker[w].id)
          /\ worker[w].roster \subseteq worker[w].got \cup worker[w].todo
      BY <2>1 DEF IInv, OnTime
    <3>2. QED
      BY <1>6, <1>7, <3>1 DEF ReservationRows, StillWanted
  <2>2. QED
    BY <1>7, <1>8, <2>1 DEF IInv, OnTime, ReservationRows, x
<1>13. /\ worker'[w].id = None <=> worker'[w].pc \in {"idle", "recover", "pick"}
       /\ \A v \in Workers \ {w} : worker'[w].id = worker[v].id => worker[v].id = None
  BY <1>7 DEF IInv, IdsDiffer, x
<1>14. /\ client' \in [Clients -> Tickets \cup {None, Done}] /\ crashes' \in 0 .. MaxCrashes
       /\ UNCHANGED <<rows, matches, lapsed>>
  BY <1>8 DEF IInv, TypeOK
<1>15. QED
  BY <1>4, <1>5, <1>7, <1>9, <1>10, <1>11, <1>12, <1>13, <1>14, PrivateStep DEF x

\* The allocation fails.
LEMMA AllocationFailsIInv ==
  ASSUME IInv, NEW w \in Workers, AllocationFails(w)
  PROVE  IInv'
<1>1. /\ worker[w].got = {} /\ worker[w].todo = {} /\ worker[w].id # None
  BY DEF AllocationFails, IInv, IdsDiffer, Returned, Locking
<1>2. /\ worker'[w] = [worker[w] EXCEPT !.pc = "fail"]
      /\ worker'[w].pc = "fail" /\ worker'[w].id = worker[w].id
      /\ worker'[w].roster = worker[w].roster /\ worker'[w].got = {}
      /\ worker' = [worker EXCEPT ![w].pc = "fail", ![w].todo = {}]
  <2>1. worker' = [worker EXCEPT ![w].pc = "fail"] /\ w \in DOMAIN worker
    BY DEF AllocationFails, IInv, TypeOK
  <2>2. worker'[w] = [worker[w] EXCEPT !.pc = "fail"]
    BY <2>1
  <2>3. /\ worker'[w].pc = "fail" /\ worker'[w].id = worker[w].id
        /\ worker'[w].roster = worker[w].roster /\ worker'[w].got = {}
    BY <1>1, <2>2, WorkerState DEF WorkerRecord
  <2>4. [worker EXCEPT ![w].pc = "fail", ![w].todo = {}] = worker'
    <3>1. [[worker[w] EXCEPT !.pc = "fail"] EXCEPT !.todo = {}]
             = [worker[w] EXCEPT !.pc = "fail"]
      BY <1>1, WorkerState DEF WorkerRecord
    <3>2. QED
      BY <2>1, <3>1
  <2>5. QED
    BY <2>2, <2>3, <2>4
<1>3. Attempt(w)' /\ OnTime(w)'
  BY <1>2 DEF AllocationFails, IInv, Attempt, OnTime
<1>4. QED
  BY <1>1, <1>2, <1>3, SnapshotPrivate DEF AllocationFails, Snapshot, PC, Locking

\* The assignment begins: of a reservation that has not lapsed it finds all.
LEMMA BeginAssignIInv ==
  ASSUME IInv, NEW w \in Workers, BeginAssign(w)
  PROVE  IInv'
<1>1. /\ worker[w].got = {} /\ worker[w].id # None
  BY DEF BeginAssign, IInv, IdsDiffer, Returned, Locking
<1>2. /\ worker'[w].pc = "assign" /\ worker'[w].id = worker[w].id
      /\ worker'[w].roster = worker[w].roster
      /\ worker'[w].todo = ReservationRows(worker[w].id)
  BY WorkerState DEF BeginAssign, IInv, TypeOK
<1>3. UNCHANGED <<rows, matches, lapsed>> /\ worker[w].pc = "allocate"
  BY DEF BeginAssign
<1>4. Attempt(w)'
  BY <1>2, <1>3 DEF IInv, Attempt
<1>5. OnTime(w)'
  BY <1>2, <1>3 DEF IInv, OnTime, ReservationRows
<1>6. ReservationRows(worker[w].id) \in SUBSET Tickets
  BY DEF ReservationRows
<1>7. QED
  BY <1>1, <1>4, <1>5, <1>6, SnapshotPrivate DEF BeginAssign, Snapshot, PC, Locking

\* The release begins.
LEMMA BeginReleaseIInv ==
  ASSUME IInv, NEW w \in Workers, BeginRelease(w)
  PROVE  IInv'
<1>1. /\ worker[w].got = {} /\ worker[w].id # None
  BY DEF BeginRelease, IInv, IdsDiffer, Returned, Locking
<1>2. /\ worker'[w].pc = "release" /\ worker'[w].id = worker[w].id
      /\ worker'[w].roster = worker[w].roster
      /\ worker'[w].todo = ReservationRows(worker[w].id)
  BY WorkerState DEF BeginRelease, IInv, TypeOK
<1>3. Attempt(w)' /\ OnTime(w)'
  BY <1>2, WorkerState DEF BeginRelease, IInv, Attempt, OnTime, ReservationRows
<1>4. ReservationRows(worker[w].id) \in SUBSET Tickets
  BY DEF ReservationRows
<1>5. QED
  BY <1>1, <1>3, <1>4, SnapshotPrivate DEF BeginRelease, Snapshot, PC, Locking

\* The statement finds no row of the reservation.
LEMMA AssignConflictIInv ==
  ASSUME IInv, NEW w \in Workers, AssignConflict(w)
  PROVE  IInv'
<1>1. /\ worker'[w] = [worker[w] EXCEPT !.pc = "fail", !.todo = {}, !.got = {}]
      /\ worker' = [worker EXCEPT ![w] = worker'[w]]
      /\ \A v \in Workers \ {w} : worker'[v] = worker[v]
  BY WorkerState DEF AssignConflict, EndTransaction, IInv, TypeOK
<1>2. /\ worker'[w].pc = "fail" /\ worker'[w].id = worker[w].id
      /\ worker'[w].roster = worker[w].roster
      /\ worker'[w].todo = {} /\ worker'[w].got = {}
      /\ worker'[w] \in WorkerRecord
  BY <1>1, WorkerState DEF PC, WorkerRecord
<1>3. worker[w].pc = "assign" /\ UNCHANGED <<rows, matches, lapsed, client, crashes>>
  BY DEF AssignConflict, Ready
<1>4. LocksHold'
  BY <1>1, <1>2, <1>3, UnlockedRows, TransactionsAssumption
  DEF IInv, TypeOK, LocksHold, AssignConflict, EndTransaction
<1>5. Returned(w)' /\ Attempt(w)' /\ OnTime(w)'
  BY <1>2, <1>3 DEF IInv, Returned, Attempt, OnTime, Locking
<1>6. /\ worker'[w].id = None <=> worker'[w].pc \in {"idle", "recover", "pick"}
      /\ \A v \in Workers \ {w} : worker'[w].id = worker[v].id => worker[v].id = None
  BY <1>2, <1>3 DEF IInv, IdsDiffer
<1>7. lock' \in [Tickets -> Workers \cup Clients \cup {None}]
  BY UnlockedRows DEF AssignConflict, EndTransaction
<1>8. client' \in [Clients -> Tickets \cup {None, Done}] /\ crashes' \in 0 .. MaxCrashes
  BY <1>3 DEF IInv, TypeOK
<1>9. QED
  BY <1>1, <1>2, <1>3, <1>4, <1>5, <1>6, <1>7, <1>8, PrivateStep

-----------------------------------------------------------------------------
(* Commits *)

\* What a commit must leave alone for worker v to be right about its attempt.
Undisturbed(v) ==
  /\ worker'[v] = worker[v]
  /\ \A t \in worker[v].got : rows'[t] = rows[t]
  /\ worker[v].id # None =>
       /\ \A t \in Tickets :
            /\ rows'[t].id = worker[v].id => rows[t].id = worker[v].id
            /\ Held(rows'[t], worker[v].id) => Held(rows[t], worker[v].id)
            /\ worker[v].id \notin lapsed /\ Held(rows[t], worker[v].id) =>
                 Held(rows'[t], worker[v].id)
       /\ worker[v].id \in DOMAIN matches' <=> worker[v].id \in DOMAIN matches
       /\ worker[v].id \in DOMAIN matches =>
            matches'[worker[v].id] = matches[worker[v].id]

LEMMA Bystander ==
  ASSUME IInv, NEW v \in Workers, Undisturbed(v), UNCHANGED lapsed
  PROVE  Returned(v)' /\ Attempt(v)' /\ OnTime(v)'
<1>1. worker[v].got \in SUBSET Tickets /\ worker[v].roster \in SUBSET Tickets
  BY WorkerState
<1>2. Returned(v)'
  BY <1>1 DEF IInv, Returned, Undisturbed, ExpiredRows
<1>3. worker[v].id = None <=> worker[v].pc \in {"idle", "recover", "pick"}
  BY DEF IInv, IdsDiffer
<1>4. Attempt(v)'
  BY <1>1, <1>3 DEF IInv, Attempt, Undisturbed, ReservationRows
<1>5. OnTime(v)'
  BY <1>1, <1>3 DEF IInv, OnTime, Undisturbed, ReservationRows
<1>6. QED
  BY <1>2, <1>4, <1>5

\* A commit of transaction x: it changed rows that it had locked.
LEMMA LocksAfterCommit ==
  ASSUME IInv, NEW x \in Workers \cup Clients, lock' = Unlocked(x),
         \A v \in Workers \ {x} : worker'[v] = worker[v],
         x \in Workers => worker'[x].got = {},
         \A c \in Clients \ {x} : client'[c] = client[c],
         x \in Clients => client'[x] \notin Tickets
  PROVE  LocksHold'
<1>1. ASSUME NEW v \in Workers, NEW t \in worker'[v].got
      PROVE  lock'[t] = v
  <2>1. v # x
    BY <1>1
  <2>2. t \in worker[v].got /\ lock[t] = v /\ t \in Tickets
    BY <1>1, <2>1, WorkerState DEF IInv, LocksHold
  <2>3. QED
    BY <2>1, <2>2, UnlockedRows
<1>2. ASSUME NEW c \in Clients, client'[c] \in Tickets
      PROVE  lock'[client'[c]] = c
  <2>1. c # x
    BY <1>2
  <2>2. client'[c] = client[c] /\ lock[client[c]] = c
    BY <1>2, <2>1 DEF IInv, LocksHold
  <2>3. QED
    BY <1>2, <2>1, <2>2, UnlockedRows
<1>3. QED
  BY <1>1, <1>2 DEF LocksHold

\* What a worker that ends its transaction looks like.
LEMMA AfterTransaction ==
  ASSUME IInv, NEW w \in Workers, NEW pc \in PC, EndTransaction(w, pc)
  PROVE  /\ worker'[w].pc = pc /\ worker'[w].id = worker[w].id
         /\ worker'[w].roster = worker[w].roster
         /\ worker'[w].todo = {} /\ worker'[w].got = {}
         /\ \A v \in Workers \ {w} : worker'[v] = worker[v]
         /\ worker' \in [Workers -> WorkerRecord]
<1>1. worker'[w] = [worker[w] EXCEPT !.pc = pc, !.todo = {}, !.got = {}]
  BY DEF EndTransaction, IInv, TypeOK
<1>2. worker' = [worker EXCEPT ![w] = worker'[w]]
      /\ \A v \in Workers \ {w} : worker'[v] = worker[v]
  BY DEF EndTransaction, IInv, TypeOK
<1> HIDE DEF EndTransaction
<1>3. /\ worker[w].id \in Matches \cup {None}
      /\ worker[w].roster \in SUBSET Tickets /\ {} \in SUBSET Tickets
  BY WorkerState
<1>4. /\ worker'[w] \in WorkerRecord
      /\ worker'[w].pc = pc /\ worker'[w].id = worker[w].id
      /\ worker'[w].roster = worker[w].roster
      /\ worker'[w].todo = {} /\ worker'[w].got = {}
  BY <1>1, <1>3, WorkerState DEF WorkerRecord
<1>5. worker' \in [Workers -> WorkerRecord]
  BY <1>2, <1>4 DEF IInv, TypeOK, WorkerRecord
<1>6. QED
  BY <1>2, <1>4, <1>5

\* A worker that has given up, or is through.
LEMMA AfterGoIdle ==
  ASSUME IInv, NEW w \in Workers, GoIdle(w)
  PROVE  /\ worker'[w] = Idle
         /\ \A v \in Workers \ {w} : worker'[v] = worker[v]
         /\ worker' \in [Workers -> WorkerRecord]
<1>1. Idle \in WorkerRecord
  BY WorkerRecords DEF Idle, PC
<1>2. QED
  BY <1>1 DEF GoIdle, IInv, TypeOK, WorkerRecord

\* The ids of the attempts still differ if one of them ends.
LEMMA IdsAfter ==
  ASSUME IInv, NEW w \in Workers,
         \A v \in Workers \ {w} : worker'[v] = worker[v],
         worker'[w].id \in {None, worker[w].id},
         worker'[w].id = None <=> worker'[w].pc \in {"idle", "recover", "pick"}
  PROVE  IdsDiffer'
  BY DEF IInv, IdsDiffer

\* The rows that one worker has locked are not another's.
LEMMA OwnRows ==
  ASSUME IInv, NEW w \in Workers, NEW v \in Workers \ {w}
  PROVE  worker[v].got \cap worker[w].got = {}
  BY DEF IInv, LocksHold

\* Lapsed reservations are dissolved.
LEMMA CommitRecoveryIInv ==
  ASSUME IInv, NEW w \in Workers, CommitRecovery(w)
  PROVE  IInv'
<1> DEFINE S == worker[w].got
           Q == [state |-> "QUEUED", id |-> None, active |-> TRUE]
<1>1. /\ worker[w].pc = "recover" /\ EndTransaction(w, "pick")
      /\ UNCHANGED <<matches, lapsed, client, crashes>>
  BY DEF CommitRecovery, Ready
<1>2. /\ S \subseteq ExpiredRows /\ worker[w].id = None
  BY <1>1 DEF IInv, Returned, IdsDiffer
<1>3. \A t \in Tickets : /\ rows[t] \in Row
                         /\ t \in S => rows[t].state = "RESERVED" /\ rows[t].id \in lapsed
  BY <1>2 DEF IInv, TypeOK, ExpiredRows
<1>4. /\ \A t \in Tickets : rows'[t] = IF t \in S THEN Q ELSE rows[t]
      /\ rows' = [t \in Tickets |-> rows'[t]]
  BY <1>3, WrittenRows DEF CommitRecovery, Rewritten
<1>5. rows' \in [Tickets -> Row]
  BY <1>3, <1>4, WrittenRows
<1>6. /\ worker'[w].pc = "pick" /\ worker'[w].id = None
      /\ worker'[w].todo = {} /\ worker'[w].got = {}
      /\ \A v \in Workers \ {w} : worker'[v] = worker[v]
      /\ worker' \in [Workers -> WorkerRecord]
  BY <1>1, <1>2, AfterTransaction DEF PC
<1>7. TypeOK'
  BY <1>1, <1>5, <1>6, UnlockedRows DEF IInv, TypeOK, IsMap, EndTransaction, WorkerRecord
<1>8. LocksHold'
  BY <1>1, <1>6, LocksAfterCommit, TransactionsAssumption DEF EndTransaction
<1>9. IdsDiffer'
  BY <1>6, IdsAfter
<1>10. \A v \in Workers : Returned(v)' /\ Attempt(v)' /\ OnTime(v)'
  <2>1. Returned(w)' /\ Attempt(w)' /\ OnTime(w)'
    BY <1>6 DEF Returned, Attempt, OnTime, Locking
  <2>2. ASSUME NEW v \in Workers \ {w} PROVE Undisturbed(v)
    <3>1. worker[v].got \cap S = {} /\ worker[v].got \subseteq Tickets
      BY OwnRows, WorkerState
    <3>2. QED
      BY <1>1, <1>3, <1>4, <1>6, <3>1 DEF Undisturbed
  <2>3. QED
    BY <1>1, <2>1, <2>2, Bystander
<1>11. OnRoster'
  BY <1>1, <1>4 DEF IInv, OnRoster
<1>12. (\A m \in DOMAIN matches : Released(m))'
  BY <1>1, <1>3, <1>4, StoredMatch DEF IInv, Released
<1>13. OnTimeMatchIsComplete'
  BY <1>1, <1>3, <1>4, StoredMatch DEF IInv, OnTimeMatchIsComplete, Open
<1>14. QED
  BY <1>7, <1>8, <1>9, <1>10, <1>11, <1>12, <1>13 DEF IInv

\* A reservation takes the whole roster, of tickets that are all still queued.
LEMMA CommitReserveIInv ==
  ASSUME IInv, NEW w \in Workers, CommitReserve(w)
  PROVE  IInv'
<1> DEFINE S == worker[w].got
           m == worker[w].id
           R == [state |-> "RESERVED", id |-> m, active |-> TRUE]
<1>1. /\ worker[w].pc = "reserve" /\ worker[w].todo = {} /\ EndTransaction(w, "create")
      /\ \A t \in S : rows[t].state = "QUEUED"
      /\ UNCHANGED <<matches, lapsed, client, crashes>>
  BY DEF CommitReserve, Ready, AllCandidates
<1>2. /\ S = worker[w].roster /\ m \in Matches
      /\ m \notin DOMAIN matches \cup lapsed /\ \A t \in Tickets : rows[t].id # m
      /\ S \in SUBSET Tickets
  <2>1. S = worker[w].roster
    BY <1>1 DEF IInv, Returned
  <2>2. m # None
    BY <1>1 DEF IInv, IdsDiffer
  <2>3. m \notin DOMAIN matches \cup lapsed /\ \A t \in Tickets : rows[t].id # m
    BY <1>1 DEF IInv, Attempt
  <2>4. QED
    BY <2>1, <2>2, <2>3, WorkerState
<1>3. \A t \in Tickets : rows[t] \in Row
  BY DEF IInv, TypeOK
<1>4. /\ \A t \in Tickets : rows'[t] = IF t \in S THEN R ELSE rows[t]
      /\ rows' = [t \in Tickets |-> rows'[t]]
  <2>1. ASSUME NEW t \in Tickets, t \in S
        PROVE  [rows[t] EXCEPT !.state = "RESERVED", !.id = m] = R
    BY <1>1, <1>2, <1>3, <2>1, WrittenRows
  <2>2. QED
    BY <2>1 DEF CommitReserve, Rewritten
<1>5. rows' \in [Tickets -> Row]
  BY <1>2, <1>3, <1>4, WrittenRows
<1>6. /\ worker'[w].pc = "create" /\ worker'[w].id = m /\ worker'[w].roster = S
      /\ worker'[w].todo = {} /\ worker'[w].got = {}
      /\ \A v \in Workers \ {w} : worker'[v] = worker[v]
      /\ worker' \in [Workers -> WorkerRecord]
  BY <1>1, <1>2, AfterTransaction DEF PC
<1>7. TypeOK'
  BY <1>1, <1>5, <1>6, UnlockedRows DEF IInv, TypeOK, IsMap, EndTransaction, WorkerRecord
<1>8. LocksHold'
  BY <1>1, <1>6, LocksAfterCommit, TransactionsAssumption DEF EndTransaction
<1>9. IdsDiffer'
  BY <1>2, <1>6, IdsAfter, NobodyAssumption
<1>10. \A v \in Workers : Returned(v)' /\ Attempt(v)' /\ OnTime(v)'
  <2>1. Returned(w)' /\ Attempt(w)' /\ OnTime(w)'
    BY <1>1, <1>2, <1>4, <1>6 DEF Returned, Attempt, OnTime, Locking, ReservationRows
  <2>2. ASSUME NEW v \in Workers \ {w} PROVE Undisturbed(v)
    <3>1. worker[v].got \cap S = {} /\ worker[v].got \subseteq Tickets
      BY OwnRows, WorkerState
    <3>2. worker[v].id # None => worker[v].id # m
      BY <1>2 DEF IInv, IdsDiffer
    <3>3. QED
      BY <1>1, <1>3, <1>4, <1>6, <3>1, <3>2 DEF Undisturbed
  <2>3. QED
    BY <1>1, <2>1, <2>2, Bystander
<1>11. OnRoster'
  BY <1>1, <1>2, <1>4 DEF IInv, OnRoster
<1>12. (\A n \in DOMAIN matches : Released(n))'
  BY <1>1, <1>4, StoredMatch DEF IInv, Released
<1>13. OnTimeMatchIsComplete'
  BY <1>1, <1>4, StoredMatch DEF IInv, OnTimeMatchIsComplete, Open
<1>14. QED
  BY <1>7, <1>8, <1>9, <1>10, <1>11, <1>12, <1>13 DEF IInv

\* A worker moves on.
Moves(w, pc) == worker' = [worker EXCEPT ![w].pc = pc]

LEMMA AfterMove ==
  ASSUME IInv, NEW w \in Workers, NEW pc \in PC, Moves(w, pc)
  PROVE  /\ worker'[w].pc = pc /\ worker'[w].id = worker[w].id
         /\ worker'[w].roster = worker[w].roster
         /\ worker'[w].todo = worker[w].todo /\ worker'[w].got = worker[w].got
         /\ \A v \in Workers \ {w} : worker'[v] = worker[v]
         /\ worker' \in [Workers -> WorkerRecord]
<1>1. worker'[w] = [worker[w] EXCEPT !.pc = pc]
  BY DEF Moves, IInv, TypeOK
<1>2. worker' = [worker EXCEPT ![w] = worker'[w]]
      /\ \A v \in Workers \ {w} : worker'[v] = worker[v]
  BY DEF Moves, IInv, TypeOK
<1>3. /\ worker[w].id \in Matches \cup {None} /\ worker[w].roster \in SUBSET Tickets
      /\ worker[w].todo \in SUBSET Tickets /\ worker[w].got \in SUBSET Tickets
  BY WorkerState
<1>4. /\ worker'[w] \in WorkerRecord
      /\ worker'[w].pc = pc /\ worker'[w].id = worker[w].id
      /\ worker'[w].roster = worker[w].roster
      /\ worker'[w].todo = worker[w].todo /\ worker'[w].got = worker[w].got
  BY <1>1, <1>3, WorkerState DEF WorkerRecord
<1>5. worker' \in [Workers -> WorkerRecord]
  BY <1>2, <1>4 DEF IInv, TypeOK, WorkerRecord
<1>6. QED
  BY <1>2, <1>4, <1>5

\* A step of worker w that only moves on and writes its own match.
LEMMA OwnMatchStep ==
  ASSUME IInv, NEW w \in Workers, NEW pc \in PC \ Locking, Moves(w, pc),
         worker[w].pc \notin Locking, worker[w].id # None, pc \notin {"idle", "pick"},
         NEW x \in [state : MatchState, roster : SUBSET Tickets],
         matches' = Put(matches, worker[w].id, x),
         UNCHANGED <<rows, lock, lapsed, client, crashes>>,
         x.state \in {"ALLOCATING", "FAILED"},
         \A t \in Tickets : rows[t].id = worker[w].id =>
            rows[t].state = "RESERVED" /\ t \in x.roster,
         Attempt(w)', OnTime(w)'
  PROVE  IInv'
<1> DEFINE m == worker[w].id
<1>1. m \in Matches
  BY WorkerState
<1>2. /\ DOMAIN matches' = DOMAIN matches \cup {m}
      /\ matches'[m] = x
      /\ \A n \in DOMAIN matches : n # m => matches'[n] = matches[n]
      /\ matches' = [n \in DOMAIN matches' |-> matches'[n]]
  BY DEF Put
<1>3. /\ worker'[w].pc = pc /\ worker'[w].id = m
      /\ worker'[w].todo = worker[w].todo /\ worker'[w].got = worker[w].got
      /\ \A v \in Workers \ {w} : worker'[v] = worker[v]
      /\ worker' \in [Workers -> WorkerRecord]
  BY AfterMove
<1>4. TypeOK'
  BY <1>1, <1>2, <1>3 DEF IInv, TypeOK, IsMap, WorkerRecord
<1>5. LocksHold'
  BY <1>3 DEF IInv, LocksHold
<1>6. IdsDiffer'
  BY <1>1, <1>3, IdsAfter DEF Locking
<1>7. \A v \in Workers : Returned(v)' /\ Attempt(v)' /\ OnTime(v)'
  <2>1. Returned(w)'
    BY <1>3 DEF IInv, Returned, Locking
  <2>2. ASSUME NEW v \in Workers \ {w} PROVE Undisturbed(v)
    <3>1. worker[v].id # None => worker[v].id # m
      BY DEF IInv, IdsDiffer
    <3>2. worker[v].got \subseteq Tickets
      BY WorkerState
    <3>3. worker[v].id # None => /\ worker[v].id \in DOMAIN matches' <=> worker[v].id \in DOMAIN matches
                                 /\ worker[v].id \in DOMAIN matches =>
                                      matches'[worker[v].id] = matches[worker[v].id]
      BY <1>2, <3>1
    <3>4. QED
      BY <1>3, <3>1, <3>2, <3>3 DEF Undisturbed
  <2>3. QED
    BY <2>1, <2>2, Bystander
<1>8. OnRoster'
  BY <1>2 DEF IInv, OnRoster
<1>9. (\A n \in DOMAIN matches : Released(n))'
  BY <1>2 DEF IInv, Released
<1>10. OnTimeMatchIsComplete'
  BY <1>2 DEF IInv, OnTimeMatchIsComplete, Open
<1>11. QED
  BY <1>4, <1>5, <1>6, <1>7, <1>8, <1>9, <1>10 DEF IInv

\* The match is stored with the roster of the attempt.
LEMMA CreateMatchIInv ==
  ASSUME IInv, NEW w \in Workers, CreateMatch(w)
  PROVE  IInv'
<1> DEFINE m == worker[w].id
           x == [state |-> "ALLOCATING", roster |-> worker[w].roster]
<1>1. /\ worker[w].pc = "create" /\ Moves(w, "allocate")
      /\ matches' = Put(matches, m, x)
      /\ UNCHANGED <<rows, lock, lapsed, client, crashes>>
  BY DEF CreateMatch, Moves
<1>2. /\ m \notin DOMAIN matches /\ m # None
      /\ ReservationRows(m) \subseteq worker[w].roster
  BY <1>1 DEF IInv, IdsDiffer, Attempt
<1>3. /\ worker[w].roster \in SUBSET Tickets /\ m \in Matches
      /\ x \in [state : MatchState, roster : SUBSET Tickets]
  BY <1>2, WorkerState DEF MatchState
<1>4. ASSUME NEW t \in Tickets, rows[t].id = m
      PROVE  rows[t].state = "RESERVED" /\ t \in x.roster
  <2>1. rows[t] \in Row
    BY DEF IInv, TypeOK
  <2>2. rows[t].state # "ASSIGNED"
    BY <1>2, <1>4 DEF IInv, OnRoster
  <2>3. rows[t].state = "RESERVED"
    BY <1>2, <1>4, <2>1, <2>2, RowShape
  <2>4. QED
    BY <1>2, <1>4, <2>3 DEF ReservationRows
<1>5. /\ worker'[w].pc = "allocate" /\ worker'[w].id = m
      /\ worker'[w].roster = worker[w].roster
  BY <1>1, AfterMove DEF PC
<1>6. m \in DOMAIN matches' /\ matches'[m] = x
  BY <1>1 DEF Put
<1>7. Attempt(w)'
  BY <1>5, <1>6 DEF Attempt
<1>8. OnTime(w)'
  BY <1>1, <1>5 DEF IInv, OnTime, ReservationRows
<1>9. QED
  BY <1>1, <1>2, <1>3, <1>4, <1>7, <1>8, OwnMatchStep DEF PC, Locking

\* The match fails; its tickets are still to be released.
LEMMA FailMatchIInv ==
  ASSUME IInv, NEW w \in Workers, FailMatch(w)
  PROVE  IInv'
<1> DEFINE m == worker[w].id
           x == [state |-> "FAILED", roster |-> worker[w].roster]
<1>1. /\ worker[w].pc = "fail" /\ Moves(w, "releasing")
      /\ matches' = [matches EXCEPT ![m].state = "FAILED"]
      /\ UNCHANGED <<rows, lock, lapsed, client, crashes>>
  BY DEF FailMatch, Moves
<1>2. /\ m \in DOMAIN matches /\ m # None
      /\ matches[m] = [state |-> "ALLOCATING", roster |-> worker[w].roster]
  BY <1>1 DEF IInv, IdsDiffer, Attempt
<1>3. /\ worker[w].roster \in SUBSET Tickets /\ m \in Matches
      /\ x \in [state : MatchState, roster : SUBSET Tickets]
  BY <1>2, WorkerState DEF MatchState
<1>4. matches' = Put(matches, m, x)
  <2>1. matches = [n \in DOMAIN matches |-> matches[n]]
    BY DEF IInv, TypeOK, IsMap
  <2>2. [matches[m] EXCEPT !.state = "FAILED"] = x
    <3>1. matches[m] \in [state : {"ALLOCATING"}, roster : {worker[w].roster}]
      BY <1>2
    <3>2. [matches[m] EXCEPT !.state = "FAILED"]
            \in [state : {"FAILED"}, roster : {worker[w].roster}]
      BY <3>1
    <3>3. QED
      BY <3>2
  <2> HIDE DEF x
  <2>3. DOMAIN matches \cup {m} = DOMAIN matches
    BY <1>2
  <2>4. matches' = [n \in DOMAIN matches |-> IF n = m THEN x ELSE matches[n]]
    BY <1>1, <2>2
  <2>5. QED
    BY <2>3, <2>4 DEF Put
<1>5. ASSUME NEW t \in Tickets, rows[t].id = m
      PROVE  rows[t].state = "RESERVED" /\ t \in x.roster
  <2>1. rows[t] \in Row
    BY DEF IInv, TypeOK
  <2>2. rows[t].state # "ASSIGNED"
    BY <1>2, <1>5, <2>1, RowShape DEF IInv, OnRoster
  <2>3. rows[t].state = "RESERVED"
    BY <1>2, <1>5, <2>1, <2>2, RowShape
  <2>4. QED
    BY <1>2, <1>5, <2>3 DEF IInv, OnRoster
<1>6. /\ worker'[w].pc = "releasing" /\ worker'[w].id = m
      /\ worker'[w].roster = worker[w].roster
  BY <1>1, AfterMove DEF PC
<1>7. m \in DOMAIN matches' /\ matches'[m] = x
  BY <1>4 DEF Put
<1>8. Attempt(w)' /\ OnTime(w)'
  BY <1>6, <1>7 DEF Attempt, OnTime
<1>9. QED
  BY <1>1, <1>2, <1>3, <1>4, <1>5, <1>8, OwnMatchStep DEF PC, Locking

\* The rows that are locked become ASSIGNED with the match that is READY.  If
\* the reservation has not lapsed they are the whole roster.
LEMMA CommitAssignIInv ==
  ASSUME IInv, NEW w \in Workers, CommitAssign(w)
  PROVE  IInv'
<1> DEFINE S == worker[w].got
           m == worker[w].id
           A == [state |-> "ASSIGNED", id |-> m, active |-> TRUE]
<1>1. /\ worker[w].pc = "assign" /\ worker[w].todo = {} /\ GoIdle(w)
      /\ matches' = [matches EXCEPT ![m].state = "READY"]
      /\ UNCHANGED <<lapsed, client, crashes>>
  BY DEF CommitAssign, Ready
<1>2. /\ m \in Matches /\ m \in DOMAIN matches
      /\ matches[m] = [state |-> "ALLOCATING", roster |-> worker[w].roster]
      /\ worker[w].roster \in SUBSET Tickets /\ S \in SUBSET Tickets
  BY <1>1, WorkerState, StoredMatch DEF IInv, Attempt
<1>3. /\ m \notin lapsed => worker[w].roster \subseteq S
      /\ \A t \in S : rows[t].state = "RESERVED" /\ rows[t].id = m
  BY <1>1 DEF IInv, Returned, OnTime
<1>4. \A t \in Tickets : rows[t] \in Row
  BY DEF IInv, TypeOK
<1>5. S \subseteq worker[w].roster
  BY <1>2, <1>3 DEF IInv, OnRoster
<1>6. \A t \in Tickets : rows[t].id = m => rows[t].state = "RESERVED"
  <2>1. ASSUME NEW t \in Tickets, rows[t].id = m PROVE rows[t].state = "RESERVED"
    <3>1. rows[t].state # "ASSIGNED"
      BY <1>2, <1>4, <2>1, RowShape DEF IInv, OnRoster
    <3>2. QED
      BY <1>2, <1>4, <2>1, <3>1, RowShape, NobodyAssumption
  <2>2. QED
    BY <2>1
<1>7. /\ \A t \in Tickets : rows'[t] = IF t \in S THEN A ELSE rows[t]
      /\ rows' = [t \in Tickets |-> rows'[t]]
  <2>1. ASSUME NEW t \in Tickets, t \in S
        PROVE  [rows[t] EXCEPT !.state = "ASSIGNED"] = A
    <3>1. [rows[t] EXCEPT !.state = "ASSIGNED"]
            = [state |-> "ASSIGNED", id |-> rows[t].id, active |-> TRUE]
      BY <1>2, <1>3, <1>4, <2>1, WrittenRows
    <3>2. QED
      BY <1>3, <2>1, <3>1
  <2>2. QED
    BY <2>1 DEF CommitAssign, Rewritten
<1>8. rows' \in [Tickets -> Row]
  <2>1. A \in Row
    BY <1>2, WrittenRows
  <2>2. rows \in [Tickets -> Row]
    BY DEF IInv, TypeOK
  <2>3. \A t \in Tickets : rows'[t] \in Row
    BY <1>7, <2>1, <2>2
  <2>4. QED
    BY <1>7, <2>3
<1>9. /\ worker'[w] = Idle
      /\ \A v \in Workers \ {w} : worker'[v] = worker[v]
      /\ worker' \in [Workers -> WorkerRecord]
  BY <1>1, AfterGoIdle
<1>10. /\ DOMAIN matches' = DOMAIN matches
       /\ matches'[m] = [state |-> "READY", roster |-> worker[w].roster]
       /\ \A n \in DOMAIN matches : n # m => matches'[n] = matches[n]
       /\ matches' = [n \in DOMAIN matches |-> matches'[n]]
  <2>1. matches = [n \in DOMAIN matches |-> matches[n]]
    BY DEF IInv, TypeOK, IsMap
  <2>2. matches'[m] = [matches[m] EXCEPT !.state = "READY"]
    BY <1>1, <1>2, <2>1
  <2>3. matches'[m] = [state |-> "READY", roster |-> worker[w].roster]
    BY <1>2, <2>2
  <2>4. /\ DOMAIN matches' = DOMAIN matches
        /\ \A n \in DOMAIN matches : n # m => matches'[n] = matches[n]
        /\ matches' = [n \in DOMAIN matches |-> matches'[n]]
    BY <1>1
  <2>5. QED
    BY <2>3, <2>4
<1>11. TypeOK'
  <2>1. IsMap(matches, Matches, [state : MatchState, roster : SUBSET Tickets])'
    BY <1>2, <1>10 DEF IInv, TypeOK, IsMap, MatchState
  <2>2. QED
    BY <1>1, <1>8, <1>9, <2>1, UnlockedRows DEF IInv, TypeOK, GoIdle, WorkerRecord
<1>12. LocksHold'
  BY <1>1, <1>9, LocksAfterCommit, TransactionsAssumption DEF GoIdle, Idle
<1>13. IdsDiffer'
  BY <1>9, IdsAfter DEF Idle
<1>14. \A v \in Workers : Returned(v)' /\ Attempt(v)' /\ OnTime(v)'
  <2>1. Returned(w)' /\ Attempt(w)' /\ OnTime(w)'
    BY <1>9 DEF Returned, Attempt, OnTime, Locking, Idle
  <2>2. ASSUME NEW v \in Workers \ {w} PROVE Undisturbed(v)
    <3>1. worker[v].got \cap S = {} /\ worker[v].got \subseteq Tickets
      BY OwnRows, WorkerState
    <3>2. worker[v].id # None => worker[v].id # m
      BY DEF IInv, IdsDiffer
    <3>3. QED
      BY <1>1, <1>3, <1>7, <1>9, <1>10, <3>1, <3>2 DEF Undisturbed
  <2>3. QED
    BY <1>1, <2>1, <2>2, Bystander
<1>15. OnRoster'
  <2> SUFFICES ASSUME NEW t \in Tickets
               PROVE  /\ rows'[t].state = "RESERVED" /\ rows'[t].id \in DOMAIN matches' =>
                           t \in matches'[rows'[t].id].roster
                      /\ rows'[t].state = "ASSIGNED" =>
                           /\ rows'[t].id \in DOMAIN matches'
                           /\ t \in matches'[rows'[t].id].roster
                           /\ rows'[t].active =>
                                matches'[rows'[t].id].state \in {"READY", "RUNNING"}
                           /\ ~rows'[t].active => matches'[rows'[t].id].state = "FINISHED"
    BY DEF OnRoster
  <2>1. CASE t \in S
    BY <1>2, <1>5, <1>7, <1>10, <2>1
  <2>2. CASE t \notin S
    <3>1. rows'[t] = rows[t]
      BY <1>7, <2>2
    <3>2. rows[t].state = "RESERVED" /\ rows[t].id \in DOMAIN matches =>
            t \in matches[rows[t].id].roster
      BY DEF IInv, OnRoster
    <3>3. rows[t].state = "ASSIGNED" => rows[t].id # m
      BY <1>6
    <3>4. matches'[m].roster = matches[m].roster
      BY <1>2, <1>10
    <3>5. QED
      BY <1>10, <3>1, <3>2, <3>3, <3>4 DEF IInv, OnRoster
  <2>3. QED
    BY <2>1, <2>2
<1>16. (\A n \in DOMAIN matches : Released(n))'
  BY <1>3, <1>7, <1>10, StoredMatch DEF IInv, Released
<1>17. OnTimeMatchIsComplete'
  <2> SUFFICES ASSUME NEW n \in DOMAIN matches', Open(n)', n \notin lapsed',
                      NEW t \in matches'[n].roster
               PROVE  rows'[t].state = "ASSIGNED" /\ rows'[t].id = n
    BY DEF OnTimeMatchIsComplete
  <2>1. CASE n = m
    BY <1>1, <1>2, <1>3, <1>7, <1>10, <2>1
  <2>2. CASE n # m
    <3>1. n \in DOMAIN matches
      <4>1. DOMAIN matches' = DOMAIN matches
        BY <1>10
      <4>2. QED
        BY <4>1
    <3>2. matches'[n] = matches[n]
      <4>1. \A k \in DOMAIN matches : k # m => matches'[k] = matches[k]
        BY <1>10
      <4>2. QED
        BY <2>2, <3>1, <4>1
    <3>3. t \in Tickets
      BY <3>1, <3>2, StoredMatch DEF IInv
    <3>4. rows[t].state = "ASSIGNED" /\ rows[t].id = n
      <4>1. matches[n].state \in {"READY", "RUNNING"} /\ t \in matches[n].roster
        BY <3>2 DEF Open
      <4>2. n \notin lapsed
        BY <1>1
      <4>3. QED
        BY <3>1, <4>1, <4>2 DEF IInv, OnTimeMatchIsComplete, Open
    <3>5. QED
      BY <1>3, <1>7, <3>3, <3>4
  <2>3. QED
    BY <2>1, <2>2
<1>18. QED
  BY <1>11, <1>12, <1>13, <1>14, <1>15, <1>16, <1>17 DEF IInv

\* The tickets of a failed match go back.
LEMMA CommitReleaseIInv ==
  ASSUME IInv, NEW w \in Workers, CommitRelease(w)
  PROVE  IInv'
<1> DEFINE S == worker[w].got
           m == worker[w].id
           Q == [state |-> "QUEUED", id |-> None, active |-> TRUE]
<1>1. /\ worker[w].pc = "release" /\ GoIdle(w)
      /\ UNCHANGED <<matches, lapsed, client, crashes>>
  BY DEF CommitRelease, Ready
<1>2. \A t \in S : rows[t].state = "RESERVED" /\ rows[t].id = m
  BY <1>1 DEF IInv, Returned
<1>3. /\ \A t \in Tickets : rows[t] \in Row
      /\ m # None /\ matches[m].state = "FAILED"
  BY <1>1 DEF IInv, TypeOK, IdsDiffer, Attempt
<1>4. /\ \A t \in Tickets : rows'[t] = IF t \in S THEN Q ELSE rows[t]
      /\ rows' = [t \in Tickets |-> rows'[t]]
  BY <1>2, <1>3, WrittenRows DEF CommitRelease, Rewritten
<1>5. rows' \in [Tickets -> Row]
  BY <1>3, <1>4, WrittenRows
<1>6. /\ worker'[w] = Idle
      /\ \A v \in Workers \ {w} : worker'[v] = worker[v]
      /\ worker' \in [Workers -> WorkerRecord]
  BY <1>1, AfterGoIdle
<1>7. TypeOK'
  BY <1>1, <1>5, <1>6, UnlockedRows DEF IInv, TypeOK, IsMap, GoIdle, WorkerRecord
<1>8. LocksHold'
  BY <1>1, <1>6, LocksAfterCommit, TransactionsAssumption DEF GoIdle, Idle
<1>9. IdsDiffer'
  BY <1>6, IdsAfter DEF Idle
<1>10. \A v \in Workers : Returned(v)' /\ Attempt(v)' /\ OnTime(v)'
  <2>1. Returned(w)' /\ Attempt(w)' /\ OnTime(w)'
    BY <1>6 DEF Returned, Attempt, OnTime, Locking, Idle
  <2>2. ASSUME NEW v \in Workers \ {w} PROVE Undisturbed(v)
    <3>1. worker[v].got \cap S = {} /\ worker[v].got \subseteq Tickets
      BY OwnRows, WorkerState
    <3>2. worker[v].id # None => worker[v].id # m
      BY DEF IInv, IdsDiffer
    <3>3. QED
      BY <1>1, <1>2, <1>4, <1>6, <3>1, <3>2 DEF Undisturbed
  <2>3. QED
    BY <1>1, <2>1, <2>2, Bystander
<1>11. OnRoster'
  BY <1>1, <1>4 DEF IInv, OnRoster
<1>12. (\A n \in DOMAIN matches : Released(n))'
  BY <1>1, <1>2, <1>4, StoredMatch DEF IInv, Released
<1>13. OnTimeMatchIsComplete'
  BY <1>1, <1>2, <1>4, StoredMatch DEF IInv, OnTimeMatchIsComplete, Open
<1>14. QED
  BY <1>7, <1>8, <1>9, <1>10, <1>11, <1>12, <1>13 DEF IInv

-----------------------------------------------------------------------------
(* The match service, the clients and time *)

\* A match that can be started or completed is in no worker's hands.
LEMMA NotInTheMaking ==
  ASSUME IInv, NEW m \in DOMAIN matches, matches[m].state \in {"READY", "RUNNING"},
         NEW v \in Workers
  PROVE  worker[v].id # m
<1>1. m # None
  BY StoredMatch, NobodyAssumption DEF IInv
<1>2. worker[v].pc \in {"idle", "recover", "pick"} => worker[v].id = None
  BY DEF IInv, IdsDiffer
<1>3. worker[v].pc \in PC
  BY WorkerState
<1>4. worker[v].pc \in {"reserve", "create"} => worker[v].id # m
  BY DEF IInv, Attempt
<1>5. worker[v].pc \in {"allocate", "assign", "fail"} => worker[v].id # m
  <2>1. worker[v].pc \in {"allocate", "assign", "fail"} =>
          matches[worker[v].id] = [state |-> "ALLOCATING", roster |-> worker[v].roster]
    BY DEF IInv, Attempt
  <2>2. QED
    BY <2>1
<1>6. worker[v].pc \in {"releasing", "release"} => worker[v].id # m
  BY DEF IInv, Attempt
<1>7. QED
  BY <1>1, <1>2, <1>3, <1>4, <1>5, <1>6 DEF PC

\* A step that moves a match on, and perhaps releases its tickets.
MatchStep(m, state) ==
  /\ matches' = [matches EXCEPT ![m].state = state]
  /\ UNCHANGED <<lock, lapsed, worker, client, crashes>>

LEMMA AfterMatchStep ==
  ASSUME IInv, NEW m \in DOMAIN matches, NEW state \in MatchState, MatchStep(m, state)
  PROVE  /\ DOMAIN matches' = DOMAIN matches
         /\ matches'[m].state = state /\ matches'[m].roster = matches[m].roster
         /\ \A n \in DOMAIN matches : n # m => matches'[n] = matches[n]
         /\ IsMap(matches, Matches, [state : MatchState, roster : SUBSET Tickets])'
<1>1. matches'[m] = [matches[m] EXCEPT !.state = state]
  BY DEF MatchStep
<1>2. matches'[m] = [state |-> state, roster |-> matches[m].roster]
  <2>1. matches[m] = [state |-> matches[m].state, roster |-> matches[m].roster]
    BY StoredMatch DEF IInv
  <2>2. QED
    BY <1>1, <2>1
<1>3. /\ DOMAIN matches' = DOMAIN matches
      /\ \A n \in DOMAIN matches : n # m => matches'[n] = matches[n]
      /\ matches' = [n \in DOMAIN matches |-> matches'[n]]
  BY DEF MatchStep
<1> HIDE DEF MatchStep
<1>4. matches'[m] \in [state : MatchState, roster : SUBSET Tickets]
  BY <1>2, StoredMatch DEF IInv
<1>5. IsMap(matches, Matches, [state : MatchState, roster : SUBSET Tickets])'
  BY <1>3, <1>4 DEF IInv, TypeOK, IsMap
<1>6. QED
  BY <1>2, <1>3, <1>5

\* A match starts.
LEMMA StartMatchIInv ==
  ASSUME IInv, NEW m \in Matches, StartMatch(m)
  PROVE  IInv'
<1>1. /\ m \in DOMAIN matches /\ matches[m].state = "READY"
      /\ MatchStep(m, "RUNNING") /\ UNCHANGED rows
  BY DEF StartMatch, MatchStep
<1>2. /\ DOMAIN matches' = DOMAIN matches
      /\ matches'[m].state = "RUNNING" /\ matches'[m].roster = matches[m].roster
      /\ \A n \in DOMAIN matches : n # m => matches'[n] = matches[n]
      /\ IsMap(matches, Matches, [state : MatchState, roster : SUBSET Tickets])'
  BY <1>1, AfterMatchStep DEF MatchState
<1>3. UNCHANGED <<rows, lock, lapsed, worker, client, crashes>>
  BY <1>1 DEF MatchStep
<1>4. TypeOK'
  BY <1>2, <1>3 DEF IInv, TypeOK
<1>5. LocksHold' /\ IdsDiffer'
  BY <1>3 DEF IInv, LocksHold, IdsDiffer
<1>6. \A v \in Workers : Returned(v)' /\ Attempt(v)' /\ OnTime(v)'
  <2>1. ASSUME NEW v \in Workers PROVE Undisturbed(v)
    BY <1>1, <1>2, <1>3, NotInTheMaking DEF Undisturbed
  <2>2. QED
    BY <1>3, <2>1, Bystander
<1>7. OnRoster'
  BY <1>1, <1>2, <1>3 DEF IInv, OnRoster
<1>8. (\A n \in DOMAIN matches : Released(n))'
  BY <1>2, <1>3 DEF IInv, Released
<1>9. OnTimeMatchIsComplete'
  BY <1>1, <1>2, <1>3 DEF IInv, OnTimeMatchIsComplete, Open
<1>10. QED
  BY <1>4, <1>5, <1>6, <1>7, <1>8, <1>9 DEF IInv

\* The tickets that are released are all on the roster, and as many.
LEMMA WholeRoster ==
  ASSUME IInv, NEW m \in DOMAIN matches, EveryTicket(m)
  PROVE  AssignedRows(m) = matches[m].roster
<1>1. AssignedRows(m) \subseteq matches[m].roster
  BY DEF IInv, OnRoster, AssignedRows
<1>2. matches[m].roster \in SUBSET Tickets
  BY StoredMatch DEF IInv
<1>3. IsFiniteSet(matches[m].roster)
  BY <1>2, FS_Subset, TicketsAssumption
<1>4. QED
  BY <1>1, <1>3, FS_Subset DEF EveryTicket

\* A match is completed with the tickets of its whole roster, or not at all.
LEMMA CompleteMatchIInv ==
  ASSUME IInv, NEW m \in Matches, CompleteMatch(m)
  PROVE  IInv'
<1> DEFINE S == AssignedRows(m)
           F == [state |-> "ASSIGNED", id |-> m, active |-> FALSE]
<1>1. /\ m \in DOMAIN matches /\ matches[m].state = "RUNNING"
      /\ MatchStep(m, "FINISHED") /\ EveryTicket(m)
      /\ \A t \in S : lock[t] = None
  BY DEF CompleteMatch, MatchStep
<1>2. /\ DOMAIN matches' = DOMAIN matches
      /\ matches'[m].state = "FINISHED" /\ matches'[m].roster = matches[m].roster
      /\ \A n \in DOMAIN matches : n # m => matches'[n] = matches[n]
      /\ IsMap(matches, Matches, [state : MatchState, roster : SUBSET Tickets])'
  BY <1>1, AfterMatchStep DEF MatchState
<1>3. UNCHANGED <<lock, lapsed, worker, client, crashes>>
  BY <1>1 DEF MatchStep
<1>4. /\ \A t \in Tickets : rows[t] \in Row
      /\ \A t \in S : t \in Tickets /\ rows[t].state = "ASSIGNED" /\ rows[t].id = m
      /\ S = matches[m].roster
  BY <1>1, WholeRoster DEF IInv, TypeOK, AssignedRows
<1>5. /\ \A t \in Tickets : rows'[t] = IF t \in S THEN F ELSE rows[t]
      /\ rows' = [t \in Tickets |-> rows'[t]]
  <2>1. ASSUME NEW t \in Tickets, t \in S
        PROVE  [rows[t] EXCEPT !.active = FALSE] = F
    <3>1. [rows[t] EXCEPT !.active = FALSE]
            = [state |-> "ASSIGNED", id |-> rows[t].id, active |-> FALSE]
      BY <1>4, <2>1, WrittenRows
    <3>2. QED
      BY <1>4, <2>1, <3>1
  <2>2. QED
    BY <2>1 DEF CompleteMatch, Rewritten
<1> HIDE DEF S
<1>6. rows' \in [Tickets -> Row]
  BY <1>4, <1>5, WrittenRows
<1>7. TypeOK'
  BY <1>2, <1>3, <1>6 DEF IInv, TypeOK
<1>8. LocksHold' /\ IdsDiffer'
  BY <1>3 DEF IInv, LocksHold, IdsDiffer
<1>9. \A v \in Workers : Returned(v)' /\ Attempt(v)' /\ OnTime(v)'
  <2>1. ASSUME NEW v \in Workers PROVE Undisturbed(v)
    <3>1. worker[v].got \cap S = {} /\ worker[v].got \subseteq Tickets
      <4>1. \A t \in worker[v].got : lock[t] = v
        BY DEF IInv, LocksHold
      <4>2. \A t \in S : lock[t] = None
        BY <1>1
      <4>3. v # None
        BY NobodyAssumption
      <4>4. worker[v].got \subseteq Tickets
        BY WorkerState
      <4>5. \A t \in worker[v].got : t \notin S
        BY <4>1, <4>2, <4>3
      <4>6. QED
        BY <4>4, <4>5
    <3>2. worker[v].id # m
      BY <1>1, NotInTheMaking
    <3>3. QED
      BY <1>2, <1>3, <1>4, <1>5, <3>1, <3>2 DEF Undisturbed
  <2>2. QED
    BY <1>3, <2>1, Bystander
<1>10. OnRoster'
  <2> SUFFICES ASSUME NEW t \in Tickets
               PROVE  /\ rows'[t].state = "RESERVED" /\ rows'[t].id \in DOMAIN matches' =>
                           t \in matches'[rows'[t].id].roster
                      /\ rows'[t].state = "ASSIGNED" =>
                           /\ rows'[t].id \in DOMAIN matches'
                           /\ t \in matches'[rows'[t].id].roster
                           /\ rows'[t].active =>
                                matches'[rows'[t].id].state \in {"READY", "RUNNING"}
                           /\ ~rows'[t].active => matches'[rows'[t].id].state = "FINISHED"
    BY DEF OnRoster
  <2>1. CASE t \in S
    BY <1>1, <1>2, <1>4, <1>5, <2>1
  <2>2. CASE t \notin S
    <3>1. rows'[t] = rows[t]
      BY <1>5, <2>2
    <3>2. rows[t].state = "ASSIGNED" => rows[t].id # m
      BY <1>1, <1>4, <2>2 DEF IInv, OnRoster, AssignedRows, S
    <3>3. QED
      BY <1>1, <1>2, <3>1, <3>2 DEF IInv, OnRoster
  <2>3. QED
    BY <2>1, <2>2
<1>11. (\A n \in DOMAIN matches : Released(n))'
  <2> SUFFICES ASSUME NEW n \in DOMAIN matches', matches'[n].state = "FINISHED",
                      NEW t \in matches'[n].roster
               PROVE  rows'[t] = [state |-> "ASSIGNED", id |-> n, active |-> FALSE]
    BY DEF Released
  <2>1. CASE n = m
    BY <1>2, <1>4, <1>5, <2>1
  <2>2. CASE n # m
    <3>1. n \in DOMAIN matches /\ matches'[n] = matches[n] /\ t \in Tickets
      BY <1>2, <2>2, StoredMatch DEF IInv
    <3>2. rows[t] = [state |-> "ASSIGNED", id |-> n, active |-> FALSE]
      BY <3>1 DEF IInv, Released
    <3>3. QED
      BY <1>4, <1>5, <2>2, <3>1, <3>2
  <2>3. QED
    BY <2>1, <2>2
<1>12. OnTimeMatchIsComplete'
  <2> SUFFICES ASSUME NEW n \in DOMAIN matches', Open(n)', n \notin lapsed',
                      NEW t \in matches'[n].roster
               PROVE  rows'[t].state = "ASSIGNED" /\ rows'[t].id = n
    BY DEF OnTimeMatchIsComplete
  <2>1. n # m
    BY <1>2 DEF Open
  <2>2. n \in DOMAIN matches /\ matches'[n] = matches[n] /\ t \in Tickets
    BY <1>2, <2>1, StoredMatch DEF IInv
  <2>3. rows[t].state = "ASSIGNED" /\ rows[t].id = n
    BY <1>3, <2>2 DEF IInv, OnTimeMatchIsComplete, Open
  <2>4. QED
    BY <1>4, <1>5, <2>1, <2>2, <2>3
<1>13. QED
  BY <1>7, <1>8, <1>9, <1>10, <1>11, <1>12 DEF IInv

\* A client's transaction takes, or gives back, a row lock.
LEMMA ClientLockIInv ==
  ASSUME IInv, NEW c \in Clients,
         (\E t \in Tickets : ClientLocks(c, t)) \/ ClientLeaves(c)
  PROVE  IInv'
<1>1. UNCHANGED <<rows, matches, lapsed, worker, crashes>>
  BY DEF ClientLocks, ClientLeaves
<1>2. /\ lock' \in [Tickets -> Workers \cup Clients \cup {None}]
      /\ client' \in [Clients -> Tickets \cup {None, Done}]
      /\ LocksHold'
  <2>1. CASE ClientLeaves(c)
    <3>1. /\ lock' = Unlocked(c) /\ client' = [client EXCEPT ![c] = Done]
      BY <2>1 DEF ClientLeaves
    <3>2. client' \in [Clients -> Tickets \cup {None, Done}]
      BY <3>1 DEF IInv, TypeOK
    <3>3. /\ client'[c] \notin Tickets
          /\ \A d \in Clients \ {c} : client'[d] = client[d]
      BY <3>1, NobodyAssumption DEF IInv, TypeOK
    <3>4. QED
      BY <1>1, <3>1, <3>2, <3>3, UnlockedRows, LocksAfterCommit, TransactionsAssumption
  <2>2. ASSUME NEW t \in Tickets, ClientLocks(c, t)
        PROVE  /\ lock' \in [Tickets -> Workers \cup Clients \cup {None}]
               /\ client' \in [Clients -> Tickets \cup {None, Done}]
               /\ LocksHold'
    <3>1. /\ lock' = [lock EXCEPT ![t] = c] /\ lock[t] = None
          /\ client' = [client EXCEPT ![c] = t]
      BY <2>2 DEF ClientLocks
    <3>2. /\ lock' \in [Tickets -> Workers \cup Clients \cup {None}]
          /\ client' \in [Clients -> Tickets \cup {None, Done}]
          /\ \A u \in Tickets : lock[u] # None => lock'[u] = lock[u]
          /\ lock'[t] = c /\ client'[c] = t
          /\ \A d \in Clients \ {c} : client'[d] = client[d]
      BY <3>1 DEF IInv, TypeOK
    <3>3. \A v \in Workers : \A u \in worker'[v].got : lock'[u] = v
      BY <1>1, <3>2, WorkerState, NobodyAssumption DEF IInv, LocksHold
    <3>4. \A d \in Clients : client'[d] \in Tickets => lock'[client'[d]] = d
      BY <3>2, NobodyAssumption DEF IInv, LocksHold
    <3>5. QED
      BY <3>2, <3>3, <3>4 DEF LocksHold
  <2>3. QED
    BY <2>1, <2>2
<1>3. TypeOK'
  BY <1>1, <1>2 DEF IInv, TypeOK
<1>4. IdsDiffer'
  BY <1>1 DEF IInv, IdsDiffer
<1>5. \A v \in Workers : Returned(v)' /\ Attempt(v)' /\ OnTime(v)'
  <2>1. ASSUME NEW v \in Workers PROVE Undisturbed(v)
    BY <1>1 DEF Undisturbed
  <2>2. QED
    BY <1>1, <2>1, Bystander
<1>6. OnRoster' /\ (\A n \in DOMAIN matches : Released(n))' /\ OnTimeMatchIsComplete'
  BY <1>1 DEF IInv, OnRoster, Released, OnTimeMatchIsComplete, Open
<1>7. QED
  BY <1>2, <1>3, <1>4, <1>5, <1>6 DEF IInv

\* A client cancels the ticket that it has locked.
LEMMA ClientCancelsIInv ==
  ASSUME IInv, NEW c \in Clients, ClientCancels(c)
  PROVE  IInv'
<1> DEFINE u == client[c]
           C == [state |-> "CANCELLED", id |-> None, active |-> FALSE]
<1>1. /\ u \in Tickets /\ rows[u].state \in {"QUEUED", "CANCELLED"}
      /\ lock' = Unlocked(c) /\ client' = [client EXCEPT ![c] = Done]
      /\ UNCHANGED <<matches, lapsed, worker, crashes>>
  BY DEF ClientCancels, CanCancel
<1>2. /\ \A t \in Tickets : rows[t] \in Row
      /\ lock[u] = c
  BY <1>1 DEF IInv, TypeOK, LocksHold
<1>3. /\ \A t \in Tickets : rows'[t] = IF t = u THEN C ELSE rows[t]
      /\ rows' = [t \in Tickets |-> rows'[t]]
  BY <1>1, <1>2, WrittenRows DEF ClientCancels, Rewritten
<1> HIDE DEF u
<1>4. rows' \in [Tickets -> Row]
  BY <1>2, <1>3, WrittenRows
<1>5. client' \in [Clients -> Tickets \cup {None, Done}]
  BY <1>1 DEF IInv, TypeOK
<1>6. /\ client'[c] \notin Tickets
      /\ \A d \in Clients \ {c} : client'[d] = client[d]
  BY <1>1, NobodyAssumption DEF IInv, TypeOK
<1>7. TypeOK'
  BY <1>1, <1>4, <1>5, UnlockedRows DEF IInv, TypeOK
<1>8. LocksHold'
  BY <1>1, <1>6, LocksAfterCommit, TransactionsAssumption
<1>9. IdsDiffer'
  BY <1>1 DEF IInv, IdsDiffer
<1>10. \A v \in Workers : Returned(v)' /\ Attempt(v)' /\ OnTime(v)'
  <2>1. ASSUME NEW v \in Workers PROVE Undisturbed(v)
    <3>1. u \notin worker[v].got /\ worker[v].got \subseteq Tickets
      BY <1>2, TransactionsAssumption, WorkerState DEF IInv, LocksHold
    <3>2. QED
      BY <1>1, <1>3, <3>1 DEF Undisturbed
  <2>2. QED
    BY <1>1, <2>1, Bystander
<1>11. OnRoster'
  BY <1>1, <1>3 DEF IInv, OnRoster
<1>12. (\A n \in DOMAIN matches : Released(n))'
  BY <1>1, <1>3, StoredMatch DEF IInv, Released
<1>13. OnTimeMatchIsComplete'
  BY <1>1, <1>3, StoredMatch DEF IInv, OnTimeMatchIsComplete, Open
<1>14. QED
  BY <1>7, <1>8, <1>9, <1>10, <1>11, <1>12, <1>13 DEF IInv

\* A reservation lapses: an attempt that has not reserved yet has none.
LEMMA LapseIInv ==
  ASSUME IInv, NEW r \in Matches, Lapse(r)
  PROVE  IInv'
<1>1. /\ UNCHANGED <<rows, lock, matches, worker, client, crashes>>
      /\ lapsed' = lapsed \cup {r}
      /\ \E t \in Tickets : Held(rows[t], r)
  BY DEF Lapse
<1>2. TypeOK' /\ LocksHold' /\ IdsDiffer' /\ OnRoster'
  BY <1>1 DEF IInv, TypeOK, LocksHold, IdsDiffer, OnRoster
<1>3. \A v \in Workers : Returned(v)'
  BY <1>1 DEF IInv, Returned, ExpiredRows
<1>4. \A v \in Workers : Attempt(v)'
  BY <1>1 DEF IInv, Attempt, ReservationRows
<1>5. \A v \in Workers : OnTime(v)'
  BY <1>1 DEF IInv, OnTime, ReservationRows
<1>6. (\A n \in DOMAIN matches : Released(n))' /\ OnTimeMatchIsComplete'
  BY <1>1 DEF IInv, Released, OnTimeMatchIsComplete, Open
<1>7. QED
  BY <1>2, <1>3, <1>4, <1>5, <1>6 DEF IInv

-----------------------------------------------------------------------------
(* The theorems *)

LEMMA InitIInv == Init => IInv
<1> SUFFICES ASSUME Init PROVE IInv
  OBVIOUS
<1> DEFINE q == [state |-> "QUEUED", id |-> None, active |-> TRUE]
<1>1. /\ rows = [t \in Tickets |-> q] /\ lock = [t \in Tickets |-> None]
      /\ matches = << >> /\ lapsed = {} /\ worker = [w \in Workers |-> Idle]
      /\ client = [c \in Clients |-> None] /\ crashes = 0
  BY DEF Init
<1>2. /\ q \in Row /\ Idle \in WorkerRecord /\ DOMAIN matches = {}
  <2>1. q \in Row
    BY WrittenRows
  <2>2. Idle \in WorkerRecord
    BY WorkerRecords DEF Idle, PC
  <2>3. DOMAIN matches = {}
    BY <1>1
  <2>4. QED
    BY <2>1, <2>2, <2>3
<1>3. TypeOK
  <2>1. IsMap(matches, Matches, [state : MatchState, roster : SUBSET Tickets])
    BY <1>1 DEF IsMap
  <2>2. crashes \in 0 .. MaxCrashes
    BY <1>1, CrashesAssumption
  <2>3. QED
    BY <1>1, <1>2, <2>1, <2>2 DEF TypeOK, WorkerRecord
<1>4. LocksHold /\ IdsDiffer /\ OnRoster
  BY <1>1, NobodyAssumption DEF LocksHold, IdsDiffer, OnRoster, Idle
<1>5. \A w \in Workers : Returned(w) /\ Attempt(w) /\ OnTime(w)
  BY <1>1 DEF Returned, Attempt, OnTime, Idle, Locking
<1>6. (\A m \in DOMAIN matches : Released(m)) /\ OnTimeMatchIsComplete
  BY <1>2 DEF OnTimeMatchIsComplete
<1>7. QED
  BY <1>3, <1>4, <1>5, <1>6 DEF IInv

\* A worker that gives up, by itself or in a crash.
LEMMA GivingUpIInv ==
  ASSUME IInv, NEW w \in Workers, NoMatch(w) \/ ReserveConflict(w) \/ Crash(w)
  PROVE  IInv'
<1>1. GoIdle(w) /\ UNCHANGED <<rows, matches, lapsed, client>>
  BY DEF NoMatch, ReserveConflict, Crash
<1>2. crashes \in 0 .. MaxCrashes
  BY DEF IInv, TypeOK
<1>3. crashes' \in 0 .. MaxCrashes
  BY <1>2, CrashesAssumption DEF NoMatch, ReserveConflict, Crash
<1>4. QED
  BY <1>1, <1>3, GoIdlePrivate

LEMMA WorkerStepIInv ==
  ASSUME IInv, NEW w \in Workers, WorkerStep(w)
  PROVE  IInv'
<1>1. CASE BeginRecovery(w)
  BY <1>1, BeginRecoveryIInv
<1>2. CASE RecoverRow(w)
  BY <1>2, RecoverRowIInv
<1>3. CASE CommitRecovery(w)
  BY <1>3, CommitRecoveryIInv
<1>4. CASE PickTickets(w)
  BY <1>4, PickTicketsIInv
<1>5. CASE LockRow(w)
  BY <1>5, LockRowIInv
<1>6. CASE CommitReserve(w)
  BY <1>6, CommitReserveIInv
<1>7. CASE NoMatch(w) \/ ReserveConflict(w)
  BY <1>7, GivingUpIInv
<1>8. CASE CreateMatch(w)
  BY <1>8, CreateMatchIInv
<1>9. CASE AllocationFails(w)
  BY <1>9, AllocationFailsIInv
<1>10. CASE BeginAssign(w)
  BY <1>10, BeginAssignIInv
<1>11. CASE CommitAssign(w)
  BY <1>11, CommitAssignIInv
<1>12. CASE AssignConflict(w)
  BY <1>12, AssignConflictIInv
<1>13. CASE FailMatch(w)
  BY <1>13, FailMatchIInv
<1>14. CASE BeginRelease(w)
  BY <1>14, BeginReleaseIInv
<1>15. CASE CommitRelease(w)
  BY <1>15, CommitReleaseIInv
<1>16. QED
  BY <1>1, <1>2, <1>3, <1>4, <1>5, <1>6, <1>7, <1>8, <1>9, <1>10, <1>11, <1>12,
     <1>13, <1>14, <1>15 DEF WorkerStep

LEMMA NextIInv == IInv /\ [Next]_vars => IInv'
<1> SUFFICES ASSUME IInv, [Next]_vars PROVE IInv'
  OBVIOUS
<1>1. ASSUME NEW w \in Workers, WorkerStep(w) PROVE IInv'
  BY <1>1, WorkerStepIInv
<1>2. ASSUME NEW w \in Workers, Crash(w) PROVE IInv'
  BY <1>2, GivingUpIInv
<1>3. ASSUME NEW c \in Clients, ClientStep(c) PROVE IInv'
  BY <1>3, ClientLockIInv, ClientCancelsIInv DEF ClientStep
<1>4. ASSUME NEW m \in Matches, StartMatch(m) PROVE IInv'
  BY <1>4, StartMatchIInv
<1>5. ASSUME NEW m \in Matches, CompleteMatch(m) PROVE IInv'
  BY <1>5, CompleteMatchIInv
<1>6. ASSUME NEW m \in Matches, Lapse(m) PROVE IInv'
  BY <1>6, LapseIInv
<1>7. CASE UNCHANGED vars
  <2>1. UNCHANGED <<rows, lock, matches, lapsed, worker, client, crashes>>
    BY <1>7 DEF vars
  <2>2. TypeOK' /\ LocksHold' /\ IdsDiffer' /\ OnRoster'
    BY <2>1 DEF IInv, TypeOK, LocksHold, IdsDiffer, OnRoster
  <2>3. \A v \in Workers : Returned(v)' /\ Attempt(v)' /\ OnTime(v)'
    BY <2>1 DEF IInv, Returned, ExpiredRows, Attempt, OnTime, ReservationRows
  <2>4. (\A n \in DOMAIN matches : Released(n))' /\ OnTimeMatchIsComplete'
    BY <2>1 DEF IInv, Released, OnTimeMatchIsComplete, Open
  <2>5. QED
    BY <2>2, <2>3, <2>4 DEF IInv
<1>8. QED
  BY <1>1, <1>2, <1>3, <1>4, <1>5, <1>6, <1>7 DEF Next

\* The strengthened invariant holds: what the row locks, the re-checks and the
\* commits of the transactions of worker.go and the repositories keep together.
THEOREM InvariantHolds == Spec => []IInv
<1>1. QED
  BY InitIInv, NextIInv, PTL DEF Spec

\* Every row is one that RestoreTicket accepts, every match and every
\* transaction has a value of its type (ticket_store.go, match_store.go).
THEOREM TypeCorrect == Spec => []TypeOK
<1>1. IInv => TypeOK
  BY DEF IInv
<1>2. QED
  BY <1>1, InvariantHolds, PTL

\* A ticket that keeps its player from queueing because it is ASSIGNED is on
\* the roster of a match that is READY or RUNNING, however the transactions of
\* AssignReservedTickets, the recovery and the clients cross each other.
THEOREM AssignedTicketsAreInLivingMatches == Spec => []AssignedToLivingMatch
<1>1. IInv => AssignedToLivingMatch
  BY DEF IInv, OnRoster, AssignedToLivingMatch, Open
<1>2. QED
  BY <1>1, InvariantHolds, PTL

\* CompleteMatchAndReleaseTickets releases the whole roster with the result,
\* or nothing: its row count is enough of a check, because the ASSIGNED rows
\* of a match are always on its roster.
THEOREM CompletionIsAllOrNothing == Spec => []CompletionAllOrNothing
<1>1. IInv => CompletionAllOrNothing
  BY DEF IInv, OnRoster, Released, CompletionAllOrNothing
<1>2. QED
  BY <1>1, InvariantHolds, PTL

\* AssignReservedTickets does not count the rows it assigns; a match that it
\* makes READY before the reservation lapses is nevertheless complete, because
\* until then no other transaction takes a ticket of the attempt away.
THEOREM MatchesMadeInTimeAreComplete == Spec => []OnTimeMatchIsComplete
<1>1. IInv => OnTimeMatchIsComplete
  BY DEF IInv
<1>2. QED
  BY <1>1, InvariantHolds, PTL

\* What a worker's commits write are rows nobody has decided about.
LEMMA WorkerKeepsDecisions ==
  ASSUME IInv, NEW w \in Workers, WorkerStep(w) \/ Crash(w)
  PROVE  \A t \in Tickets : KeepsDecisions(t)
<1>1. CASE CommitRecovery(w)
  <2>1. \A t \in worker[w].got : rows[t].state = "RESERVED"
    BY <1>1 DEF CommitRecovery, Ready, IInv, Returned, ExpiredRows
  <2>2. QED
    BY <1>1, <2>1 DEF CommitRecovery, Rewritten, KeepsDecisions
<1>2. CASE CommitReserve(w)
  BY <1>2 DEF CommitReserve, AllCandidates, Rewritten, KeepsDecisions
<1>3. CASE CommitAssign(w)
  <2>1. \A t \in worker[w].got : rows[t].state = "RESERVED"
    BY <1>3 DEF CommitAssign, Ready, IInv, Returned
  <2>2. QED
    BY <1>3, <2>1 DEF CommitAssign, Rewritten, KeepsDecisions
<1>4. CASE CommitRelease(w)
  <2>1. \A t \in worker[w].got : rows[t].state = "RESERVED"
    BY <1>4 DEF CommitRelease, Ready, IInv, Returned
  <2>2. QED
    BY <1>4, <2>1 DEF CommitRelease, Rewritten, KeepsDecisions
<1>5. CASE UNCHANGED rows
  BY <1>5 DEF KeepsDecisions
<1>6. QED
  BY <1>1, <1>2, <1>3, <1>4, <1>5
  DEF WorkerStep, Crash, BeginRecovery, RecoverRow, PickTickets, NoMatch, LockRow,
      ReserveConflict, CreateMatch, AllocationFails, BeginAssign, AssignConflict,
      FailMatch, BeginRelease

\* No transaction of the matchmaking service overwrites what another decided:
\* an ASSIGNED row keeps its match for ever, also when the recovery, a late
\* release or a cancellation read it before it was assigned.
THEOREM NoUpdateIsLost == Spec => NoLostUpdate
<1>1. ASSUME IInv, [Next]_vars PROVE \A t \in Tickets : KeepsDecisions(t)
  <2>1. ASSUME NEW w \in Workers, WorkerStep(w) \/ Crash(w)
        PROVE  \A t \in Tickets : KeepsDecisions(t)
    BY <1>1, <2>1, WorkerKeepsDecisions
  <2>2. ASSUME NEW c \in Clients, ClientStep(c)
        PROVE  \A t \in Tickets : KeepsDecisions(t)
    <3>1. CASE ClientCancels(c)
      <4>1. /\ \A t \in Tickets : rows[t] \in Row
            /\ client[c] \in Tickets /\ rows[client[c]].state \in {"QUEUED", "CANCELLED"}
        BY <1>1, <3>1 DEF ClientCancels, CanCancel, IInv, TypeOK
      <4>2. rows[client[c]].state = "CANCELLED" =>
              rows[client[c]] = [state |-> "CANCELLED", id |-> None, active |-> FALSE]
        BY <4>1 DEF Row
      <4>3. \A t \in Tickets :
              rows'[t] = IF t = client[c]
                         THEN [state |-> "CANCELLED", id |-> None, active |-> FALSE]
                         ELSE rows[t]
        BY <3>1, <4>1, WrittenRows DEF ClientCancels, Rewritten
      <4>4. QED
        BY <4>1, <4>2, <4>3 DEF KeepsDecisions
    <3>2. CASE UNCHANGED rows
      BY <3>2 DEF KeepsDecisions
    <3>3. QED
      BY <2>2, <3>1, <3>2 DEF ClientStep, ClientLocks, ClientLeaves
  <2>3. ASSUME NEW m \in Matches, CompleteMatch(m)
        PROVE  \A t \in Tickets : KeepsDecisions(t)
    BY <2>3 DEF CompleteMatch, AssignedRows, Rewritten, KeepsDecisions
  <2>4. CASE UNCHANGED rows
    BY <2>4 DEF KeepsDecisions
  <2>5. QED
    BY <1>1, <2>1, <2>2, <2>3, <2>4 DEF Next, StartMatch, Lapse, vars
<1>2. QED
  BY <1>1, InvariantHolds, PTL DEF Spec, NoLostUpdate
===============================================================================
