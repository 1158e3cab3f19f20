------------------------------ MODULE FrontDoor -------------------------------
(***************************************************************************)
(* Requests from the outside: HTTP requests of players and operators pass  *)
(* the gateway (internal/api), are served by the player service or the     *)
(* matchmaking service, which reads the player from the former, and end in *)
(* statements on the PostgreSQL tables players, tickets and                *)
(* ticket_cancel_idempotency.                                              *)
(*                                                                         *)
(* Requests run concurrently, statement by statement.  The gateway gives a *)
(* request up after a deadline and a service may stop or crash under it,   *)
(* so that the client does not know what became of it and sends it again:  *)
(* that is what the idempotency keys are for.  A request that was given up *)
(* may still finish the statement it has sent.                             *)
(***************************************************************************)
EXTENDS FiniteSets, Gateway, GoMaps, Naturals, ServiceProcess

CONSTANTS
  Players,     \* player ids
  Callers,     \* what the header X-Player-ID says of the sender, or None
  Operators,   \* operators of the service
  Keys,        \* idempotency keys that clients choose
  Latencies,   \* latencies that players report
  Clients,     \* concurrent requests
  MaxTickets,  \* bound on the tickets that are created
  Stopping,    \* the services that get a signal or die; a bound
  None         \* no identity, no role, no key, no value

ASSUME Bounds == MaxTickets \in Nat /\ Stopping \subseteq Services

VARIABLES
  players,    \* player -> [banned, latency], the rows of table players
  tickets,    \* ticket -> [player, key, state, active], of table tickets
  cancelled,  \* rows [player, key, ticket] of ticket_cancel_idempotency
  call,       \* request -> what it asks for and how far it is
  answers     \* the answers [client, status] that the last step gave

tables == <<players, tickets, cancelled>>
vars == <<tables, call, answers, process>>

\* The body cannot be parsed, is refused by a constructor of the domain
\* (NewPlayer, NewTicket, WithBanState, WithRegionLatency), or is in order.
Body == {"malformed", "unfit", "good"}

\* `waiting`: the client has not been told yet that the deadline has passed.
\* `seen`: the row of the player that the handler has read.
Idle == [op |-> "none", player |-> None, key |-> None, ticket |-> 0,
         value |-> None, body |-> "good", seen |-> None, pc |-> "idle",
         waiting |-> TRUE]

Init ==
  /\ players = << >>
  /\ tickets = << >>
  /\ cancelled = {}
  /\ call = [c \in Clients |-> Idle]
  /\ answers = {}
  /\ ProcessInit

-----------------------------------------------------------------------------
(* Steps of a request *)

At(c, pc) == call[c].pc = pc

GoTo(c, pc) ==
  /\ call' = [call EXCEPT ![c].pc = pc]
  /\ answers' = {}

\* The tables are as the request wants them; what is left is to say so.
Done(c, ticket) ==
  /\ call' = [call EXCEPT ![c] = IF call[c].waiting
                                THEN [@ EXCEPT !.ticket = ticket, !.seen = None,
                                               !.pc = "reply"]
                                ELSE Idle]
  /\ answers' = {}

\* The handlers of the requests in `cs` end, with this status for those who
\* still wait for it.
End(cs, status) ==
  /\ call' = [c \in Clients |-> IF c \in cs THEN Idle ELSE call[c]]
  /\ answers' = {[client |-> c, status |-> status] : c \in {d \in cs : call[d].waiting}}

PlayerError(c, err) == End({c}, HttpStatus(PlayerCode(err)))
TicketError(c, err) == End({c}, HttpStatus(TicketCode(err)))

\* A request comes to the gateway, which refuses it or calls the service;
\* that refuses it before it looks at any data, or begins to work on it.
Enter(c, request, gateway, service, checks) ==
  /\ At(c, "idle")
  /\ UNCHANGED <<tables, process>>
  /\ CASE gateway # "OK" -> End({c}, HttpStatus(gateway))
       [] ~Serving(service) -> End({c}, HttpStatus("Unavailable"))
       [] checks # "OK" -> End({c}, HttpStatus(checks))
       [] OTHER -> call' = [call EXCEPT ![c] = request] /\ answers' = {}

Request(op, p, pc) == [Idle EXCEPT !.op = op, !.player = p, !.pc = pc]

\* decodeJSON
Parsed(body) == IF body = "malformed" THEN "InvalidArgument" ELSE "OK"

\* CreateTicket and CancelTicket of the ticket service.
KeyGiven(k) == IF k = None THEN TicketCode("ErrIdempotencyKeyRequired") ELSE "OK"

\* NewPlayer
Fit(body) == IF body = "unfit" THEN PlayerCode("ErrInvalidPlayer") ELSE "OK"

\* The first of two checks that fails.
Both(v, w) == IF v # "OK" THEN v ELSE w

-----------------------------------------------------------------------------
(* Player service: registration, bans and latencies *)

CreatePlayer(c) ==
  \E p \in Players, l \in Latencies, body \in Body :
     Enter(c, [Request("register", p, "add") EXCEPT !.value = l],
           Parsed(body), "player", Fit(body))

\* The statement that inserts the player; the id is the primary key.
AddPlayer(c) ==
  /\ At(c, "add")
  /\ UNCHANGED <<tickets, cancelled, process>>
  /\ LET p == call[c].player IN
     IF p \in DOMAIN players
     THEN PlayerError(c, "ErrPlayerAlreadyExists") /\ UNCHANGED players
     ELSE /\ players' = Put(players, p, [banned |-> FALSE, latency |-> call[c].value])
          /\ Done(c, 0)

SetPlayerBan(c) ==
  \E p \in Players, banned \in BOOLEAN, body \in Body,
     operator \in Operators \cup {None}, role \in {"admin", "analyst"} :
     Enter(c, [Request("ban", p, "current") EXCEPT !.value = banned, !.body = body],
           Both(RequireOperator(operator, role, {"admin"}, None), Parsed(body)),
           "player", "OK")

UpdatePlayerLatency(c) ==
  \E p \in Players, l \in Latencies, body \in Body, caller \in Callers :
     Enter(c, [Request("latency", p, "current") EXCEPT !.value = l, !.body = body],
           Both(RequirePlayer(caller, p, None), Parsed(body)), "player", "OK")

\* SetBanState and UpdateRegionLatency read the player and validate the new
\* value on a copy.  A reason is only needed for a ban.
ReadCurrent(c) ==
  /\ At(c, "current")
  /\ UNCHANGED <<tables, process>>
  /\ IF call[c].player \notin DOMAIN players
     THEN PlayerError(c, "ErrPlayerNotFound")
     ELSE IF call[c].body = "unfit" /\ ~(call[c].op = "ban" /\ ~call[c].value)
     THEN PlayerError(c, "ErrInvalidPlayer")
     ELSE /\ call' = [call EXCEPT ![c].seen = players[call[c].player], ![c].pc = "write"]
          /\ answers' = {}

\* Fault: ... and write the whole row that they read.
Fault_WriteColumn(c) ==
  /\ At(c, "write")
  /\ LET p == call[c].player
         row == call[c].seen
     IN players' = IF call[c].op = "ban"
                   THEN [players EXCEPT ![p] = [row EXCEPT !.banned = call[c].value]]
                   ELSE [players EXCEPT ![p] = [row EXCEPT !.latency = call[c].value]]
  /\ Done(c, 0)
  /\ UNCHANGED <<tickets, cancelled, process>>

\* ... and write its columns, whatever the others have become meanwhile.
WriteColumn(c) ==
  /\ At(c, "write")
  /\ LET p == call[c].player IN
     players' = IF call[c].op = "ban"
                THEN [players EXCEPT ![p].banned = call[c].value]
                ELSE [players EXCEPT ![p].latency = call[c].value]
  /\ Done(c, 0)
  /\ UNCHANGED <<tickets, cancelled, process>>

\* The written row is read back and sent.
Reply(c) ==
  /\ At(c, "reply")
  /\ End({c}, IF call[c].op \in {"register", "create"} THEN 201 ELSE 200)
  /\ UNCHANGED <<tables, process>>

-----------------------------------------------------------------------------
(* Ticket service: a ticket is created *)

CreateTicket(c) ==
  \E p \in Players, caller \in Callers, k \in Keys \cup {None}, body \in Body :
     Enter(c, [Request("create", p, "player") EXCEPT !.key = k, !.body = body],
           Both(Parsed(body), RequirePlayer(caller, p, None)), "matchmaking", KeyGiven(k))

\* The player is read from the player service; what follows goes by that.
ReadPlayer(c) ==
  /\ At(c, "player")
  /\ UNCHANGED <<tables, process>>
  /\ LET p == call[c].player IN
     CASE ~Serving("player") -> TicketError(c, PlayerClientError("Unavailable"))
       [] p \notin DOMAIN players ->
            TicketError(c, PlayerClientError(PlayerCode("ErrPlayerNotFound")))
       [] players[p].banned -> TicketError(c, "ErrPlayerBanned")
       [] call[c].body = "unfit" -> TicketError(c, "ErrInvalidTicket")
       [] OTHER -> GoTo(c, "insert")

\* The tickets of the request's player, all of them or those with its key.
Of(c) == {t \in DOMAIN tickets : tickets[t].player = call[c].player}
WithKey(c) == {t \in Of(c) : tickets[t].key = call[c].key}

\* CreateQueued is one statement: INSERT ... ON CONFLICT (player, key) looks
\* for a row with the player and the key and returns that one,
FindTicket(c) ==
  /\ At(c, "insert")
  /\ UNCHANGED <<tables, process>>
  /\ IF WithKey(c) # {}
     THEN Done(c, CHOOSE t \in WithKey(c) : TRUE)
     ELSE GoTo(c, "store")

\* Fault: the table has no unique index on player and key.
Fault_StoreTicket(c) ==
  /\ At(c, "store")
  /\ UNCHANGED <<players, cancelled, process>>
  /\ IF \E t \in Of(c) : tickets[t].active
     THEN TicketError(c, "ErrActiveTicketExists") /\ UNCHANGED tickets
     ELSE /\ Cardinality(DOMAIN tickets) < MaxTickets
          /\ LET t == Cardinality(DOMAIN tickets) + 1 IN
             /\ tickets' = Put(tickets, t, [player |-> call[c].player, key |-> call[c].key,
                                           state |-> "QUEUED", active |-> TRUE])
             /\ Done(c, t)

\* ... or stores a new row, if neither of the two unique indexes has got an
\* entry meanwhile; of the two it is open which one is noticed first.
StoreTicket(c) ==
  /\ At(c, "store")
  /\ UNCHANGED <<players, cancelled, process>>
  /\ \/ /\ \E t \in Of(c) : tickets[t].active
        /\ TicketError(c, "ErrActiveTicketExists")
        /\ UNCHANGED tickets
     \/ /\ WithKey(c) # {}
        /\ GoTo(c, "insert")
        /\ UNCHANGED tickets
     \/ /\ WithKey(c) = {}
        /\ ~\E t \in Of(c) : tickets[t].active
        /\ Cardinality(DOMAIN tickets) < MaxTickets
        /\ LET t == Cardinality(DOMAIN tickets) + 1 IN
           /\ tickets' = Put(tickets, t, [player |-> call[c].player, key |-> call[c].key,
                                         state |-> "QUEUED", active |-> TRUE])
           /\ Done(c, t)

-----------------------------------------------------------------------------
(* Ticket service: a ticket is read or cancelled *)

GetTicket(c) ==
  \E caller \in Callers, t \in 1..MaxTickets :
     Enter(c, [Request("get", caller, "fetch") EXCEPT !.ticket = t],
           IF caller = None THEN "Unauthenticated" ELSE "OK", "matchmaking", "OK")

\* The gateway compares the owner with the caller when it has the ticket.
FetchTicket(c) ==
  /\ At(c, "fetch")
  /\ UNCHANGED <<tables, process>>
  /\ LET t == call[c].ticket
         verdict == RequirePlayer(call[c].player, tickets[t].player, None)
     IN CASE t \notin DOMAIN tickets -> TicketError(c, "ErrTicketNotFound")
          [] verdict # "OK" -> End({c}, HttpStatus(verdict))
          [] OTHER -> End({c}, 200)

CancelTicket(c) ==
  \E caller \in Callers, t \in 1..MaxTickets, k \in Keys \cup {None} :
     Enter(c, [Request("cancel", caller, "lock") EXCEPT !.ticket = t, !.key = k],
           IF caller = None THEN "Unauthenticated" ELSE "OK", "matchmaking", KeyGiven(k))

\* A worker finds a queued ticket of a banned player and cancels it for him,
\* with a key that only it uses.
Sweep(c) ==
  /\ At(c, "idle")
  /\ \E t \in DOMAIN tickets :
       /\ tickets[t].state = "QUEUED"
       /\ players[tickets[t].player].banned
       /\ call' = [call EXCEPT ![c] =
                     [Request("cancel", tickets[t].player, "lock") EXCEPT
                        !.ticket = t, !.key = t, !.waiting = FALSE]]
  /\ Serving("matchmaking") /\ Serving("player")
  /\ answers' = {}
  /\ UNCHANGED <<tables, process>>

SameKey(c, d) ==
  call[d].player = call[c].player /\ call[d].key = call[c].key

\* What the key has cancelled before.
Before(c) ==
  {r.ticket : r \in {q \in cancelled : q.player = call[c].player /\ q.key = call[c].key}}

LookUpKey(c) ==
  CASE Before(c) = {} -> GoTo(c, "row")
    [] Before(c) = {call[c].ticket} -> Done(c, call[c].ticket)
    [] OTHER -> TicketError(c, "ErrTicketForbidden")

\* Fault: there is no lock.
Fault_LockKey(c) ==
  /\ At(c, "lock")
  /\ UNCHANGED <<tables, process>>
  /\ LookUpKey(c)

\* The transaction of Cancel begins with the advisory lock on player and
\* key, which it holds to its end, and looks the key up.
LockKey(c) ==
  /\ At(c, "lock")
  /\ UNCHANGED <<tables, process>>
  /\ ~\E d \in Clients : At(d, "row") /\ SameKey(c, d)
  /\ LookUpKey(c)

\* The row is locked, changed and committed together with the key.  (player,
\* key) is the primary key of ticket_cancel_idempotency.
CancelRow(c) ==
  /\ At(c, "row")
  /\ UNCHANGED <<players, process>>
  /\ LET t == call[c].ticket
         refused == CASE t \notin DOMAIN tickets -> "ErrTicketNotFound"
                      [] tickets[t].player # call[c].player -> "ErrTicketForbidden"
                      [] tickets[t].state \notin {"QUEUED", "CANCELLED"} ->
                           "ErrIllegalStateTransition"
                      [] Before(c) # {} -> "unique violation"
                      [] OTHER -> "none"
     IN IF refused # "none"
        THEN TicketError(c, refused) /\ UNCHANGED <<tickets, cancelled>>
        ELSE /\ tickets' = [tickets EXCEPT ![t].state = "CANCELLED", ![t].active = FALSE]
             /\ cancelled' = cancelled \cup
                  {[player |-> call[c].player, key |-> call[c].key, ticket |-> t]}
             /\ Done(c, t)

\* What the workers and the match service do to a ticket meanwhile.
Matchmake(t) ==
  /\ t \in DOMAIN tickets
  /\ \/ /\ tickets[t].state = "QUEUED"
        /\ tickets' = [tickets EXCEPT ![t].state = "RESERVED"]
     \/ /\ tickets[t].state = "RESERVED"
        /\ \E state \in {"QUEUED", "ASSIGNED"} :
             tickets' = [tickets EXCEPT ![t].state = state]
     \/ /\ tickets[t].state = "ASSIGNED" /\ tickets[t].active
        /\ tickets' = [tickets EXCEPT ![t].active = FALSE]
  /\ answers' = {}
  /\ UNCHANGED <<players, cancelled, call, process>>

-----------------------------------------------------------------------------
(* Deadlines, and the ends of processes *)

\* The gateway gives up after its deadline and says so.  The deadline goes
\* with the call, so the handler ends too; only the statement that it has
\* sent, or its COMMIT, may still be carried out.
Abandon(c) ==
  /\ ~At(c, "idle") /\ call[c].waiting
  /\ call' = [call EXCEPT ![c] = IF @.pc \in {"add", "write", "insert", "store", "row"}
                                THEN [@ EXCEPT !.waiting = FALSE] ELSE Idle]
  /\ answers' = {[client |-> c, status |-> HttpStatus("DeadlineExceeded")]}
  /\ UNCHANGED <<tables, process>>

\* It is not carried out; a transaction is rolled back.
Drop(c) ==
  /\ ~At(c, "idle") /\ ~call[c].waiting
  /\ End({c}, 0)
  /\ UNCHANGED <<tables, process>>

\* The requests that a service works on.
InFlight(s) ==
  {c \in Clients : /\ ~At(c, "idle")
                   /\ s = IF call[c].op \in {"register", "ban", "latency"}
                          THEN "player" ELSE "matchmaking"}

InTransaction(s) == \E c \in InFlight(s) : At(c, "row")

\* Requests whose process ends are answered by the gateway.
Cut(s) == End(InFlight(s), HttpStatus("Unavailable"))

Quiet == UNCHANGED call /\ answers' = {}

Shutdown(s) ==
  /\ UNCHANGED tables
  /\ \/ s \in Stopping /\ Signal(s) /\ Quiet
     \/ GrpcStops(s, InFlight(s) # {}) /\ Quiet
     \/ GrpcForced(s) /\ Cut(s)
     \/ HttpStops(s) /\ Quiet

Return(s) ==
  /\ MainReturns(s, InTransaction(s))
  /\ Cut(s)
  /\ UNCHANGED tables

Die(s) ==
  /\ s \in Stopping
  /\ Crash(s)
  /\ Cut(s)
  /\ UNCHANGED tables

StartAgain(s) ==
  /\ Restart(s)
  /\ Quiet
  /\ UNCHANGED tables

-----------------------------------------------------------------------------
Serve(c) ==
  \/ CreatePlayer(c) \/ AddPlayer(c)
  \/ SetPlayerBan(c) \/ UpdatePlayerLatency(c) \/ ReadCurrent(c) \/ WriteColumn(c)
  \/ CreateTicket(c) \/ ReadPlayer(c) \/ FindTicket(c) \/ StoreTicket(c)
  \/ GetTicket(c) \/ FetchTicket(c)
  \/ CancelTicket(c) \/ Sweep(c) \/ LockKey(c) \/ CancelRow(c)
  \/ Reply(c) \/ Abandon(c) \/ Drop(c)

Next ==
  \/ \E c \in Clients : Serve(c)
  \/ \E t \in DOMAIN tickets : Matchmake(t)
  \/ \E s \in Services : Shutdown(s) \/ Return(s) \/ Die(s) \/ StartAgain(s)

Spec == Init /\ [][Next]_vars

-----------------------------------------------------------------------------
(* Properties *)

\* Two requests of a player with the same key never make two tickets, even
\* if they run at the same time and the first ticket has ended meanwhile
\* (CreateQueued); a player has at most one active ticket.
OneTicketPerKey ==
  \A t, u \in DOMAIN tickets :
     /\ t # u
     /\ tickets[t].player = tickets[u].player
     => /\ tickets[t].key # tickets[u].key
        /\ ~(tickets[t].active /\ tickets[u].active)

\* A cancellation that has been committed is never refused to a client who
\* repeats it with its key, at the same time or later (Cancel).
CancelIsIdempotent ==
  [][\A a \in answers' :
       LET c == call[a.client]
           row == [player |-> c.player, key |-> c.key, ticket |-> c.ticket]
       IN a.status \notin {503, 504} /\ c.op = "cancel" /\ row \in cancelled
          => a.status = 200]_vars

\* Whoever is told 4xx can be sure that the request has changed nothing, and
\* whoever is told 2xx that it has done what it was for; with 5xx it may have
\* been done or not.
AnswersAreTrue ==
  [][\A a \in answers' :
       LET c == call[a.client] IN
       /\ a.status \in 400..499 => c.pc # "reply" /\ UNCHANGED tables
       /\ a.status = 201 /\ c.op = "create" =>
            /\ c.ticket \in DOMAIN tickets
            /\ tickets[c.ticket].player = c.player /\ tickets[c.ticket].key = c.key
       /\ a.status = 200 /\ c.op = "cancel" => tickets[c.ticket].state = "CANCELLED"]_vars

\* A ban stands until an operator lifts it: no request of the player undoes it
\* (UpdateRegionLatency reads the row before the ban and writes after it).
BanStands ==
  [][\A p \in DOMAIN players :
       players[p].banned /\ ~players'[p].banned
         => \E c \in Clients : At(c, "write") /\ call[c].op = "ban" /\ ~call[c].value]_vars

\* A process that stops in order lets its calls finish first, or gives them
\* the grace period of the gRPC server.
StopsGracefully ==
  [][\A s \in Services :
       process'[s] = Exited /\ process[s] # Exited => process[s].grpc = "stopped"]_vars
=============================================================================
