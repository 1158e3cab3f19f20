--------------------------- MODULE FrontDoor_proofs ---------------------------
(***************************************************************************)
(* Proofs about the requests from the outside, for any sets of players,    *)
(* callers, keys and concurrent requests and any number of tickets.        *)
(***************************************************************************)
EXTENDS FrontDoor, FiniteSetTheorems, TLAPS

PlayerRow == [banned : BOOLEAN, latency : Latencies]

TicketRow ==
  [player : Players, key : Keys,
   state : {"QUEUED", "RESERVED", "ASSIGNED", "CANCELLED"}, active : BOOLEAN]

\* The requests by the service that works on them.
PlayerOps == {"register", "ban", "latency"}
TicketOps == {"create", "get", "cancel"}

CallOp == {"none"} \cup PlayerOps \cup TicketOps

CallPC == {"idle", "add", "current", "write", "player", "insert", "store", "fetch",
           "lock", "row", "reply"}

CallState ==
  [op : CallOp,
   player : Players \cup Callers \cup {None},
   key : Keys \cup 1..MaxTickets \cup {None},
   ticket : 0..MaxTickets,
   value : Latencies \cup BOOLEAN \cup {None},
   body : Body,
   seen : PlayerRow \cup {None},
   pc : CallPC,
   waiting : BOOLEAN]

\* Rows refer to rows that exist, and tickets are numbered as they come.
TablesFit ==
  /\ IsMap(players, Players, PlayerRow)
  /\ IsMap(tickets, 1..MaxTickets, TicketRow)
  /\ \E n \in 0..MaxTickets : DOMAIN tickets = 1..n
  /\ \A t \in DOMAIN tickets : tickets[t].player \in DOMAIN players

\* A cancellation is remembered once for a key of a player, and stands.
CancelledFits ==
  /\ \A r \in cancelled :
       /\ r = [player |-> r.player, key |-> r.key, ticket |-> r.ticket]
       /\ r.ticket \in DOMAIN tickets
       /\ tickets[r.ticket].player = r.player
       /\ tickets[r.ticket].state = "CANCELLED"
  /\ \A q, r \in cancelled : q.player = r.player /\ q.key = r.key => q.ticket = r.ticket

\* What the handler of request c is at, and what it may rely on.
CallFits(c) ==
  /\ At(c, "idle") => call[c].op = "none"
  /\ At(c, "add") =>
       call[c].op = "register" /\ call[c].player \in Players /\ call[c].value \in Latencies
  /\ At(c, "current") \/ At(c, "write") =>
       \/ call[c].op = "ban" /\ call[c].value \in BOOLEAN
       \/ call[c].op = "latency" /\ call[c].value \in Latencies
  /\ At(c, "player") \/ At(c, "insert") \/ At(c, "store") =>
       call[c].op = "create" /\ call[c].player \in Players /\ call[c].key \in Keys
  /\ At(c, "insert") \/ At(c, "store") => call[c].player \in DOMAIN players
  /\ At(c, "fetch") => call[c].op = "get"
  /\ At(c, "lock") \/ At(c, "row") => call[c].op = "cancel"
  /\ At(c, "row") => Before(c) = {}
  /\ At(c, "reply") => call[c].op \in PlayerOps \cup {"create", "cancel"}

\* What a request that succeeds is told has come true and stays so.
ReplyFits(c) ==
  LET t == call[c].ticket IN
  At(c, "reply") =>
    /\ call[c].op = "create" =>
         /\ t \in DOMAIN tickets
         /\ tickets[t].player = call[c].player /\ tickets[t].key = call[c].key
    /\ call[c].op = "cancel" =>
         t \in DOMAIN tickets /\ tickets[t].state = "CANCELLED"

\* The advisory lock on player and key is held by one transaction.
LockHeldOnce ==
  \A c, d \in Clients : At(c, "row") /\ At(d, "row") /\ SameKey(c, d) => c = d

\* The inductive invariant.
IInv ==
  /\ call \in [Clients -> CallState]
  /\ process \in [Services -> [grpc : ServerState, http : ServerState]]
  /\ TablesFit
  /\ CancelledFits
  /\ OneTicketPerKey
  /\ LockHeldOnce
  /\ \A c \in Clients : CallFits(c) /\ ReplyFits(c)

-----------------------------------------------------------------------------
(* How steps change requests and tables *)

\* Only request c changes.
Moves(c) ==
  /\ call' \in [Clients -> CallState]
  /\ \A d \in Clients : d # c => call'[d] = call[d]

\* Request c asks for the same as before.
SameRequest(c) ==
  /\ call'[c].op = call[c].op /\ call'[c].player = call[c].player
  /\ call'[c].key = call[c].key /\ call'[c].ticket = call[c].ticket
  /\ call'[c].value = call[c].value

\* Rows are never deleted, a ticket keeps its player and its key, and what is
\* cancelled stays so.
Grows ==
  /\ DOMAIN players \subseteq DOMAIN players'
  /\ \A t \in DOMAIN tickets :
       /\ t \in DOMAIN tickets'
       /\ tickets'[t].player = tickets[t].player
       /\ tickets'[t].key = tickets[t].key
       /\ tickets[t].state = "CANCELLED" => tickets'[t].state = "CANCELLED"

\* Request c does not take a lock that another one holds.
LockIsFree(c) ==
  call'[c].pc = "row" =>
    \A d \in Clients :
       /\ At(d, "row")
       /\ call[d].player = call'[c].player
       /\ call[d].key = call'[c].key
       => d = c

ProcessFits == process \in [Services -> [grpc : ServerState, http : ServerState]]

LEMMA IdleFits == Idle \in CallState
  BY Bounds DEF Idle, CallState, CallOp, CallPC, Body

LEMMA GoToMoves ==
  ASSUME IInv, NEW c \in Clients, NEW pc, GoTo(c, pc),
         pc \in {"insert", "store", "row"}
  PROVE  Moves(c) /\ SameRequest(c) /\ call'[c].pc = pc
<1>1. /\ call \in [Clients -> CallState]
      /\ call' = [call EXCEPT ![c].pc = pc]
  BY DEF IInv, GoTo
<1>2. pc \in CallPC
  BY DEF CallPC
<1>3. [call[c] EXCEPT !.pc = pc] \in CallState
  BY <1>1, <1>2 DEF CallState
<1>4. QED
  BY <1>1, <1>3 DEF Moves, SameRequest, CallState

LEMMA DoneMoves ==
  ASSUME IInv, NEW c \in Clients, NEW t \in 0..MaxTickets, Done(c, t)
  PROVE  /\ Moves(c)
         /\ \/ call'[c] = Idle
            \/ /\ call'[c].pc = "reply" /\ call'[c].ticket = t
               /\ call'[c].op = call[c].op /\ call'[c].player = call[c].player
               /\ call'[c].key = call[c].key
<1>1. call \in [Clients -> CallState]
  BY DEF IInv
<1> DEFINE x == [call[c] EXCEPT !.ticket = t, !.seen = None, !.pc = "reply"]
<1>2. /\ x \in CallState
      /\ x.pc = "reply" /\ x.ticket = t /\ x.op = call[c].op
      /\ x.player = call[c].player /\ x.key = call[c].key
  <2>1. "reply" \in CallPC
    BY DEF CallPC
  <2>2. QED
    BY <1>1, <2>1 DEF CallState
<1>3. call' = [call EXCEPT ![c] = IF call[c].waiting THEN x ELSE Idle]
  BY DEF Done
<1> HIDE DEF x
<1>4. QED
  BY <1>1, <1>2, <1>3, IdleFits DEF Moves

LEMMA EndMoves ==
  ASSUME IInv, NEW cs, NEW status, End(cs, status)
  PROVE  /\ call' \in [Clients -> CallState]
         /\ \A d \in Clients : call'[d] = IF d \in cs THEN Idle ELSE call[d]
  BY IdleFits DEF IInv, End

-----------------------------------------------------------------------------
(* What requests are in is not disturbed by the steps of others *)

LEMMA OthersFit ==
  ASSUME IInv, Grows, NEW d \in Clients, call'[d] = call[d],
         At(d, "row") => Before(d)' = Before(d)
  PROVE  CallFits(d)' /\ ReplyFits(d)'
<1>1. CallFits(d) /\ ReplyFits(d)
  BY DEF IInv
<1>2. \A pc : At(d, pc)' = At(d, pc)
  BY DEF At
<1>3. CallFits(d)'
  BY <1>1, <1>2 DEF CallFits, Grows
<1>4. ReplyFits(d)'
  BY <1>1, <1>2 DEF ReplyFits, Grows
<1>5. QED
  BY <1>3, <1>4

LEMMA CancelledStays ==
  ASSUME IInv, Grows, UNCHANGED cancelled
  PROVE  CancelledFits'
  BY DEF IInv, Grows, CancelledFits

LEMMA IdleCallFits ==
  ASSUME NEW c \in Clients, call'[c] = Idle
  PROVE  CallFits(c)' /\ ReplyFits(c)'
  BY DEF CallFits, ReplyFits, At, Idle

LEMMA TablesStay ==
  ASSUME IInv, UNCHANGED tables
  PROVE  Grows /\ TablesFit' /\ CancelledFits' /\ OneTicketPerKey'
<1>1. Grows
  BY DEF Grows, tables
<1>2. TablesFit' /\ OneTicketPerKey'
  BY DEF tables, IInv, TablesFit, IsMap, OneTicketPerKey
<1>3. QED
  BY <1>1, <1>2, CancelledStays DEF tables

\* A request takes a step and the tables only grow.
LEMMA MoveFits ==
  ASSUME IInv, Grows, UNCHANGED cancelled, NEW c \in Clients, Moves(c), LockIsFree(c),
         CallFits(c)', ReplyFits(c)', TablesFit', OneTicketPerKey', ProcessFits'
  PROVE  IInv'
<1>1. ASSUME NEW d \in Clients, d # c
      PROVE  CallFits(d)' /\ ReplyFits(d)'
  <2>1. call'[d] = call[d]
    BY <1>1 DEF Moves
  <2>2. QED
    BY <2>1, OthersFit DEF Before
<1>2. LockHeldOnce'
  BY DEF IInv, Moves, LockIsFree, LockHeldOnce, At, SameKey
<1>3. QED
  BY <1>1, <1>2, CancelledStays DEF IInv, Moves, ProcessFits

\* A request takes a step and the tables stay as they are.
LEMMA QuietMoveFits ==
  ASSUME IInv, UNCHANGED tables, NEW c \in Clients, Moves(c), LockIsFree(c),
         CallFits(c)', ReplyFits(c)', UNCHANGED process
  PROVE  IInv'
<1>1. ProcessFits'
  BY DEF IInv, ProcessFits
<1>2. UNCHANGED cancelled
  BY DEF tables
<1>3. QED
  BY <1>1, <1>2, TablesStay, MoveFits

\* Requests end and the tables stay as they are.
LEMMA EndFits ==
  ASSUME IInv, NEW cs, NEW status, End(cs, status), UNCHANGED tables, ProcessFits'
  PROVE  IInv'
<1>1. /\ call' \in [Clients -> CallState]
      /\ \A d \in Clients : call'[d] = IF d \in cs THEN Idle ELSE call[d]
  BY EndMoves
<1>2. ASSUME NEW d \in Clients PROVE CallFits(d)' /\ ReplyFits(d)'
  <2>1. CASE d \in cs
    BY <1>1, <2>1, IdleCallFits
  <2>2. CASE d \notin cs
    <3>1. call'[d] = call[d]
      BY <1>1, <2>2
    <3>2. Before(d)' = Before(d)
      BY <3>1 DEF Before, tables
    <3>3. QED
      BY <3>1, <3>2, TablesStay, OthersFit
  <2>3. QED
    BY <2>1, <2>2
<1>3. LockHeldOnce'
  BY <1>1 DEF IInv, LockHeldOnce, At, SameKey, Idle
<1>4. QED
  BY <1>1, <1>2, <1>3, TablesStay DEF IInv, ProcessFits

\* Errors end one request.
LEMMA ErrorFits ==
  ASSUME IInv, NEW c \in Clients, NEW status, End({c}, status),
         UNCHANGED <<tables, process>>
  PROVE  IInv'
<1>1. UNCHANGED tables /\ ProcessFits'
  BY DEF IInv, ProcessFits
<1>2. QED
  BY <1>1, EndFits

\* A request that has just been taken in.
Fresh(x) ==
  /\ x \in CallState
  /\ \/ /\ x.pc = "add"
        /\ x.op = "register" /\ x.player \in Players /\ x.value \in Latencies
     \/ /\ x.pc = "current"
        /\ \/ x.op = "ban" /\ x.value \in BOOLEAN
           \/ x.op = "latency" /\ x.value \in Latencies
     \/ /\ x.pc = "player"
        /\ x.op = "create" /\ x.player \in Players /\ x.key \in Keys
     \/ x.pc = "fetch" /\ x.op = "get"
     \/ x.pc = "lock" /\ x.op = "cancel"

LEMMA TakenIn ==
  ASSUME IInv, NEW c \in Clients, NEW x, Fresh(x), call' = [call EXCEPT ![c] = x],
         UNCHANGED <<tables, process>>
  PROVE  IInv'
<1>1. call'[c] = x /\ Moves(c)
  BY DEF IInv, Fresh, Moves
<1>2. CallFits(c)' /\ ReplyFits(c)' /\ LockIsFree(c)
  BY <1>1 DEF Fresh, CallFits, ReplyFits, LockIsFree, At
<1>3. QED
  BY <1>1, <1>2, QuietMoveFits

LEMMA EnterFits ==
  ASSUME IInv, NEW c \in Clients, NEW x, NEW gateway, NEW service, NEW checks,
         Enter(c, x, gateway, service, checks),
         gateway = "OK" /\ checks = "OK" => Fresh(x)
  PROVE  IInv'
<1>1. UNCHANGED <<tables, process>>
  BY DEF Enter
<1>2. CASE \E status : End({c}, status)
  BY <1>1, <1>2, ErrorFits
<1>3. CASE gateway = "OK" /\ checks = "OK" /\ call' = [call EXCEPT ![c] = x]
  BY <1>1, <1>3, TakenIn
<1>4. QED
  BY <1>2, <1>3 DEF Enter

LEMMA RequestFits ==
  ASSUME NEW op \in {"none"} \cup PlayerOps \cup TicketOps,
         NEW p \in Players \cup Callers \cup {None},
         NEW pc \in {"add", "current", "player", "fetch", "lock"}
  PROVE  /\ Request(op, p, pc) \in CallState
         /\ Request(op, p, pc).op = op
         /\ Request(op, p, pc).player = p
         /\ Request(op, p, pc).pc = pc
<1>1. Idle \in CallState
  BY IdleFits
<1> HIDE DEF Idle
<1>2. op \in CallOp /\ pc \in CallPC
  BY DEF CallOp, CallPC
<1>3. [Idle EXCEPT !.op = op, !.player = p, !.pc = pc] \in CallState
  BY <1>1, <1>2 DEF CallState
<1>4. /\ [Idle EXCEPT !.op = op, !.player = p, !.pc = pc].op = op
      /\ [Idle EXCEPT !.op = op, !.player = p, !.pc = pc].player = p
      /\ [Idle EXCEPT !.op = op, !.player = p, !.pc = pc].pc = pc
  BY <1>1 DEF CallState, CallOp, CallPC
<1>5. QED
  BY <1>3, <1>4 DEF Request

LEMMA CreatePlayerFits ==
  ASSUME IInv, NEW c \in Clients, CreatePlayer(c)
  PROVE  IInv'
<1>1. PICK p \in Players, l \in Latencies, body \in Body :
        Enter(c, [Request("register", p, "add") EXCEPT !.value = l],
              Parsed(body), "player", Fit(body))
  BY DEF CreatePlayer
<1>2. Fresh([Request("register", p, "add") EXCEPT !.value = l])
  <2> DEFINE r == Request("register", p, "add")
  <2>1. /\ r \in CallState
        /\ r.op = "register" /\ r.player = p /\ r.pc = "add"
    BY RequestFits DEF PlayerOps, TicketOps
  <2> HIDE DEF r
  <2> DEFINE x == [r EXCEPT !.value = l]
  <2>2. x \in CallState
    BY <2>1 DEF CallState, CallOp, CallPC, Body
  <2>3. /\ x.op = r.op /\ x.player = r.player /\ x.pc = r.pc /\ x.value = l
    BY <2>1 DEF CallState, CallOp, CallPC
  <2> HIDE DEF x
  <2>4. Fresh(x)
    BY <2>1, <2>2, <2>3 DEF Fresh
  <2>5. QED
    BY <2>4 DEF x, r
<1>3. QED
  BY <1>1, <1>2, EnterFits

LEMMA SetPlayerBanFits ==
  ASSUME IInv, NEW c \in Clients, SetPlayerBan(c)
  PROVE  IInv'
<1>1. PICK p \in Players, banned \in BOOLEAN, body \in Body,
           operator \in Operators \cup {None}, role \in {"admin", "analyst"} :
        Enter(c, [Request("ban", p, "current") EXCEPT !.value = banned, !.body = body],
              Both(RequireOperator(operator, role, {"admin"}, None), Parsed(body)),
              "player", "OK")
  BY DEF SetPlayerBan
<1>2. Fresh([Request("ban", p, "current") EXCEPT !.value = banned, !.body = body])
  <2> DEFINE r == Request("ban", p, "current")
  <2>1. /\ r \in CallState
        /\ r.op = "ban" /\ r.player = p /\ r.pc = "current"
    BY RequestFits DEF PlayerOps, TicketOps
  <2> HIDE DEF r
  <2> DEFINE x == [r EXCEPT !.value = banned, !.body = body]
  <2>2. x \in CallState
    BY <2>1 DEF CallState, CallOp, CallPC, Body
  <2>3. /\ x.op = r.op /\ x.player = r.player /\ x.pc = r.pc /\ x.value = banned
    BY <2>1 DEF CallState, CallOp, CallPC
  <2> HIDE DEF x
  <2>4. Fresh(x)
    BY <2>1, <2>2, <2>3 DEF Fresh
  <2>5. QED
    BY <2>4 DEF x, r
<1>3. QED
  BY <1>1, <1>2, EnterFits

LEMMA UpdatePlayerLatencyFits ==
  ASSUME IInv, NEW c \in Clients, UpdatePlayerLatency(c)
  PROVE  IInv'
<1>1. PICK p \in Players, l \in Latencies, body \in Body, caller \in Callers :
        Enter(c, [Request("latency", p, "current") EXCEPT !.value = l, !.body = body],
              Both(RequirePlayer(caller, p, None), Parsed(body)), "player", "OK")
  BY DEF UpdatePlayerLatency
<1>2. Fresh([Request("latency", p, "current") EXCEPT !.value = l, !.body = body])
  <2> DEFINE r == Request("latency", p, "current")
  <2>1. /\ r \in CallState
        /\ r.op = "latency" /\ r.player = p /\ r.pc = "current"
    BY RequestFits DEF PlayerOps, TicketOps
  <2> HIDE DEF r
  <2> DEFINE x == [r EXCEPT !.value = l, !.body = body]
  <2>2. x \in CallState
    BY <2>1 DEF CallState, CallOp, CallPC, Body
  <2>3. /\ x.op = r.op /\ x.player = r.player /\ x.pc = r.pc /\ x.value = l
    BY <2>1 DEF CallState, CallOp, CallPC
  <2> HIDE DEF x
  <2>4. Fresh(x)
    BY <2>1, <2>2, <2>3 DEF Fresh
  <2>5. QED
    BY <2>4 DEF x, r
<1>3. QED
  BY <1>1, <1>2, EnterFits

\* A key that is missing is refused.
LEMMA KeyIsGiven ==
  ASSUME NEW k \in Keys \cup {None}, KeyGiven(k) = "OK"
  PROVE  k \in Keys
  BY DEF KeyGiven, TicketCode

LEMMA CreateTicketFits ==
  ASSUME IInv, NEW c \in Clients, CreateTicket(c)
  PROVE  IInv'
<1>1. PICK p \in Players, caller \in Callers, k \in Keys \cup {None}, body \in Body :
        Enter(c, [Request("create", p, "player") EXCEPT !.key = k, !.body = body],
              Both(Parsed(body), RequirePlayer(caller, p, None)), "matchmaking",
              KeyGiven(k))
  BY DEF CreateTicket
<1>2. k \in Keys =>
        Fresh([Request("create", p, "player") EXCEPT !.key = k, !.body = body])
  <2> DEFINE r == Request("create", p, "player")
  <2>1. /\ r \in CallState
        /\ r.op = "create" /\ r.player = p /\ r.pc = "player"
    BY RequestFits DEF PlayerOps, TicketOps
  <2> HIDE DEF r
  <2> DEFINE x == [r EXCEPT !.key = k, !.body = body]
  <2>2. k \in Keys => x \in CallState
    BY <2>1 DEF CallState, CallOp, CallPC, Body
  <2>3. /\ x.op = r.op /\ x.player = r.player /\ x.pc = r.pc /\ x.key = k
    BY <2>1 DEF CallState, CallOp, CallPC
  <2> HIDE DEF x
  <2>4. k \in Keys => Fresh(x)
    BY <2>1, <2>2, <2>3 DEF Fresh
  <2>5. QED
    BY <2>4 DEF x, r
<1>3. QED
  BY <1>1, <1>2, KeyIsGiven, EnterFits

LEMMA GetTicketFits ==
  ASSUME IInv, NEW c \in Clients, GetTicket(c)
  PROVE  IInv'
<1>1. PICK caller \in Callers, t \in 1..MaxTickets :
        Enter(c, [Request("get", caller, "fetch") EXCEPT !.ticket = t],
              IF caller = None THEN "Unauthenticated" ELSE "OK", "matchmaking", "OK")
  BY DEF GetTicket
<1>2. Fresh([Request("get", caller, "fetch") EXCEPT !.ticket = t])
  <2> DEFINE r == Request("get", caller, "fetch")
  <2>1. /\ r \in CallState
        /\ r.op = "get" /\ r.player = caller /\ r.pc = "fetch"
    BY RequestFits DEF PlayerOps, TicketOps
  <2> HIDE DEF r
  <2> DEFINE x == [r EXCEPT !.ticket = t]
  <2>2. x \in CallState
    BY <2>1 DEF CallState, CallOp, CallPC, Body
  <2>3. /\ x.op = r.op /\ x.player = r.player /\ x.pc = r.pc
    BY <2>1 DEF CallState, CallOp, CallPC
  <2> HIDE DEF x
  <2>4. Fresh(x)
    BY <2>1, <2>2, <2>3 DEF Fresh
  <2>5. QED
    BY <2>4 DEF x, r
<1>3. QED
  BY <1>1, <1>2, EnterFits

LEMMA CancelTicketFits ==
  ASSUME IInv, NEW c \in Clients, CancelTicket(c)
  PROVE  IInv'
<1>1. PICK caller \in Callers, t \in 1..MaxTickets, k \in Keys \cup {None} :
        Enter(c, [Request("cancel", caller, "lock") EXCEPT !.ticket = t, !.key = k],
              IF caller = None THEN "Unauthenticated" ELSE "OK", "matchmaking",
              KeyGiven(k))
  BY DEF CancelTicket
<1>2. Fresh([Request("cancel", caller, "lock") EXCEPT !.ticket = t, !.key = k])
  <2> DEFINE r == Request("cancel", caller, "lock")
  <2>1. /\ r \in CallState
        /\ r.op = "cancel" /\ r.player = caller /\ r.pc = "lock"
    BY RequestFits DEF PlayerOps, TicketOps
  <2> HIDE DEF r
  <2> DEFINE x == [r EXCEPT !.ticket = t, !.key = k]
  <2>2. t \in 0..MaxTickets /\ k \in Keys \cup 1..MaxTickets \cup {None}
    BY Bounds
  <2>3. x \in CallState
    BY <2>1, <2>2 DEF CallState, CallOp, CallPC
  <2>4. /\ x.op = r.op /\ x.player = r.player /\ x.pc = r.pc /\ x.key = k
    BY <2>1 DEF CallState, CallOp, CallPC
  <2> HIDE DEF x
  <2>5. Fresh(x)
    BY <2>1, <2>3, <2>4 DEF Fresh
  <2>6. QED
    BY <2>5 DEF x, r
<1>3. QED
  BY <1>1, <1>2, EnterFits

LEMMA SweepFits ==
  ASSUME IInv, NEW c \in Clients, Sweep(c)
  PROVE  IInv'
<1>1. PICK t \in DOMAIN tickets :
        call' = [call EXCEPT ![c] = [Request("cancel", tickets[t].player, "lock") EXCEPT
                                       !.ticket = t, !.key = t, !.waiting = FALSE]]
  BY DEF Sweep
<1>2. t \in 1..MaxTickets /\ tickets[t].player \in Players
  BY DEF IInv, TablesFit, IsMap, TicketRow
<1>3. Fresh([Request("cancel", tickets[t].player, "lock") EXCEPT
               !.ticket = t, !.key = t, !.waiting = FALSE])
  <2> DEFINE r == Request("cancel", tickets[t].player, "lock")
  <2>1. /\ r \in CallState
        /\ r.op = "cancel" /\ r.player = tickets[t].player /\ r.pc = "lock"
    BY <1>2, RequestFits DEF PlayerOps, TicketOps
  <2> HIDE DEF r
  <2> DEFINE x == [r EXCEPT !.ticket = t, !.key = t, !.waiting = FALSE]
  <2>2. t \in 0..MaxTickets /\ t \in Keys \cup 1..MaxTickets \cup {None}
    BY <1>2, Bounds
  <2>3. x \in CallState
    BY <2>1, <2>2 DEF CallState, CallOp, CallPC
  <2>4. /\ x.op = r.op /\ x.player = r.player /\ x.pc = r.pc /\ x.key = t
    BY <2>1 DEF CallState, CallOp, CallPC
  <2> HIDE DEF x
  <2>5. Fresh(x)
    BY <1>2, <2>1, <2>3, <2>4 DEF Fresh
  <2>6. QED
    BY <2>5 DEF x, r
<1>4. UNCHANGED <<tables, process>>
  BY DEF Sweep
<1>5. QED
  BY <1>1, <1>3, <1>4, TakenIn

-----------------------------------------------------------------------------
(* The steps of the handlers keep the invariant *)

\* A handler is done with what its request was for.
LEMMA DoneFits ==
  ASSUME IInv, NEW c \in Clients, NEW t \in 0..MaxTickets, Done(c, t),
         call[c].op \in PlayerOps \cup {"create", "cancel"},
         call[c].op = "create" =>
           /\ t \in DOMAIN tickets'
           /\ tickets'[t].player = call[c].player /\ tickets'[t].key = call[c].key,
         call[c].op = "cancel" =>
           t \in DOMAIN tickets' /\ tickets'[t].state = "CANCELLED"
  PROVE  Moves(c) /\ LockIsFree(c) /\ CallFits(c)' /\ ReplyFits(c)'
<1>1. /\ Moves(c)
      /\ \/ call'[c] = Idle
         \/ /\ call'[c].pc = "reply" /\ call'[c].ticket = t
            /\ call'[c].op = call[c].op /\ call'[c].player = call[c].player
            /\ call'[c].key = call[c].key
  BY DoneMoves
<1>2. CASE call'[c] = Idle
  <2>1. call'[c].pc # "row"
    BY <1>2 DEF Idle
  <2>2. LockIsFree(c)
    BY <2>1 DEF LockIsFree
  <2>3. CallFits(c)' /\ ReplyFits(c)'
    BY <1>2, IdleCallFits
  <2>4. QED
    BY <1>1, <2>2, <2>3
<1>3. CASE /\ call'[c].pc = "reply" /\ call'[c].ticket = t
           /\ call'[c].op = call[c].op /\ call'[c].player = call[c].player
           /\ call'[c].key = call[c].key
  BY <1>1, <1>3 DEF LockIsFree, CallFits, ReplyFits, At
<1>4. QED
  BY <1>1, <1>2, <1>3

LEMMA AddPlayerFits ==
  ASSUME IInv, NEW c \in Clients, AddPlayer(c)
  PROVE  IInv'
<1>1. /\ call[c].op = "register" /\ call[c].player \in Players
      /\ call[c].value \in Latencies
  BY DEF IInv, CallFits, AddPlayer
<1>2. UNCHANGED <<tickets, cancelled, process>>
  BY DEF AddPlayer
<1>3. CASE call[c].player \in DOMAIN players
  <2>1. UNCHANGED <<tables, process>> /\ \E status : End({c}, status)
    BY <1>3 DEF AddPlayer, PlayerError, tables
  <2>2. QED
    BY <2>1, ErrorFits
<1>4. CASE call[c].player \notin DOMAIN players
  <2> DEFINE p == call[c].player
             row == [banned |-> FALSE, latency |-> call[c].value]
  <2>1. players' = Put(players, p, row) /\ Done(c, 0)
    BY <1>4 DEF AddPlayer
  <2>2. row \in PlayerRow
    BY <1>1 DEF PlayerRow
  <2> HIDE DEF row
  <2>3. /\ DOMAIN players' = DOMAIN players \cup {p}
        /\ \A q \in DOMAIN players' : players'[q] = IF q = p THEN row ELSE players[q]
        /\ players' = [q \in DOMAIN players' |-> players'[q]]
    BY <2>1 DEF Put
  <2>4. Grows
    BY <1>2, <2>3 DEF Grows
  <2>5. TablesFit'
    BY <1>1, <1>2, <2>2, <2>3 DEF IInv, TablesFit, IsMap
  <2>6. OneTicketPerKey'
    BY <1>2 DEF IInv, OneTicketPerKey
  <2>7. Moves(c) /\ LockIsFree(c) /\ CallFits(c)' /\ ReplyFits(c)'
    <3>1. 0 \in 0..MaxTickets /\ Done(c, 0)
      BY <2>1, Bounds
    <3>2. call[c].op \in PlayerOps \cup {"create", "cancel"}
      BY <1>1 DEF PlayerOps
    <3>3. call[c].op # "create" /\ call[c].op # "cancel"
      BY <1>1
    <3>4. QED
      BY <3>1, <3>2, <3>3, DoneFits
  <2>8. QED
    BY <1>2, <2>4, <2>5, <2>6, <2>7, MoveFits DEF IInv, ProcessFits
<1>5. QED
  BY <1>3, <1>4

LEMMA ReadCurrentFits ==
  ASSUME IInv, NEW c \in Clients, ReadCurrent(c)
  PROVE  IInv'
<1>1. UNCHANGED <<tables, process>>
  BY DEF ReadCurrent
<1>2. CASE \E status : End({c}, status)
  BY <1>1, <1>2, ErrorFits
<1>3. CASE /\ call[c].player \in DOMAIN players
           /\ call' = [call EXCEPT ![c].seen = players[call[c].player], ![c].pc = "write"]
  <2>1. /\ call \in [Clients -> CallState]
        /\ players[call[c].player] \in PlayerRow
    BY <1>3 DEF IInv, TablesFit, IsMap
  <2> DEFINE x == [call[c] EXCEPT !.seen = players[call[c].player], !.pc = "write"]
  <2>2. /\ x \in CallState
        /\ x.pc = "write" /\ x.op = call[c].op /\ x.value = call[c].value
    <3>1. "write" \in CallPC
      BY DEF CallPC
    <3>2. QED
      BY <2>1, <3>1 DEF CallState
  <2>3. call' = [call EXCEPT ![c] = x]
    BY <1>3, <2>1
  <2> HIDE DEF x
  <2>4. call'[c] = x /\ Moves(c)
    BY <2>1, <2>2, <2>3 DEF Moves
  <2>5. CallFits(c)
    BY DEF IInv
  <2>6. CallFits(c)' /\ ReplyFits(c)' /\ LockIsFree(c)
    BY <2>2, <2>4, <2>5 DEF CallFits, ReplyFits, LockIsFree, At, ReadCurrent
  <2>7. QED
    BY <1>1, <2>4, <2>6, QuietMoveFits
<1>4. QED
  BY <1>2, <1>3 DEF ReadCurrent, PlayerError

LEMMA WriteColumnFits ==
  ASSUME IInv, NEW c \in Clients, WriteColumn(c)
  PROVE  IInv'
<1>1. \/ call[c].op = "ban" /\ call[c].value \in BOOLEAN
      \/ call[c].op = "latency" /\ call[c].value \in Latencies
  BY DEF IInv, CallFits, WriteColumn
<1>2. UNCHANGED <<tickets, cancelled, process>> /\ Done(c, 0)
  BY DEF WriteColumn
<1>3. players \in [DOMAIN players -> PlayerRow] /\ DOMAIN players \subseteq Players
  BY DEF IInv, TablesFit, IsMap
<1>4. players' \in [DOMAIN players -> PlayerRow]
  <2>1. CASE call[c].op = "ban"
    <3>1. players' = [players EXCEPT ![call[c].player].banned = call[c].value]
      BY <2>1 DEF WriteColumn
    <3>2. call[c].value \in BOOLEAN
      BY <1>1, <2>1
    <3>3. QED
      BY <1>3, <3>1, <3>2 DEF PlayerRow
  <2>2. CASE call[c].op = "latency"
    <3>1. players' = [players EXCEPT ![call[c].player].latency = call[c].value]
      BY <2>2 DEF WriteColumn
    <3>2. call[c].value \in Latencies
      BY <1>1, <2>2
    <3>3. QED
      BY <1>3, <3>1, <3>2 DEF PlayerRow
  <2>3. QED
    BY <1>1, <2>1, <2>2
<1>5. DOMAIN players' = DOMAIN players
  BY <1>4
<1>6. Grows
  BY <1>2, <1>5 DEF Grows
<1>7. TablesFit'
  BY <1>2, <1>3, <1>4, <1>5 DEF IInv, TablesFit, IsMap
<1>8. OneTicketPerKey'
  BY <1>2 DEF IInv, OneTicketPerKey
<1>9. Moves(c) /\ LockIsFree(c) /\ CallFits(c)' /\ ReplyFits(c)'
  BY <1>1, <1>2, Bounds, DoneFits DEF PlayerOps
<1>10. QED
  BY <1>2, <1>6, <1>7, <1>8, <1>9, MoveFits DEF IInv, ProcessFits

LEMMA ReadPlayerFits ==
  ASSUME IInv, NEW c \in Clients, ReadPlayer(c)
  PROVE  IInv'
<1>1. UNCHANGED <<tables, process>>
  BY DEF ReadPlayer
<1>2. CASE \E status : End({c}, status)
  BY <1>1, <1>2, ErrorFits
<1>3. CASE call[c].player \in DOMAIN players /\ GoTo(c, "insert")
  <2>1. Moves(c) /\ SameRequest(c) /\ call'[c].pc = "insert"
    BY <1>3, GoToMoves
  <2>2. CallFits(c) /\ At(c, "player")
    BY DEF IInv, ReadPlayer
  <2>3. CallFits(c)' /\ ReplyFits(c)' /\ LockIsFree(c)
    BY <1>1, <1>3, <2>1, <2>2 DEF SameRequest, CallFits, ReplyFits, LockIsFree, At, tables
  <2>4. QED
    BY <1>1, <2>1, <2>3, QuietMoveFits
<1>4. QED
  BY <1>2, <1>3 DEF ReadPlayer, TicketError

LEMMA FindTicketFits ==
  ASSUME IInv, NEW c \in Clients, FindTicket(c)
  PROVE  IInv'
<1>1. UNCHANGED <<tables, process>> /\ CallFits(c) /\ At(c, "insert")
  BY DEF IInv, FindTicket
<1>2. CASE WithKey(c) # {} /\ Done(c, CHOOSE t \in WithKey(c) : TRUE)
  <2>1. PICK t \in WithKey(c) : Done(c, t)
    BY <1>2
  <2>2. /\ t \in DOMAIN tickets /\ t \in 0..MaxTickets
        /\ tickets[t].player = call[c].player /\ tickets[t].key = call[c].key
    BY DEF WithKey, Of, IInv, TablesFit, IsMap
  <2>3. Moves(c) /\ LockIsFree(c) /\ CallFits(c)' /\ ReplyFits(c)'
    BY <1>1, <2>1, <2>2, DoneFits DEF CallFits, tables
  <2>4. QED
    BY <1>1, <2>3, QuietMoveFits
<1>3. CASE GoTo(c, "store")
  <2>1. Moves(c) /\ SameRequest(c) /\ call'[c].pc = "store"
    BY <1>3, GoToMoves
  <2>2. CallFits(c)' /\ ReplyFits(c)' /\ LockIsFree(c)
    BY <1>1, <2>1 DEF SameRequest, CallFits, ReplyFits, LockIsFree, At, tables
  <2>3. QED
    BY <1>1, <2>1, <2>2, QuietMoveFits
<1>4. QED
  BY <1>2, <1>3 DEF FindTicket

\* The first number that no ticket has.
LEMMA NextTicket ==
  ASSUME IInv, Cardinality(DOMAIN tickets) < MaxTickets
  PROVE  LET t == Cardinality(DOMAIN tickets) + 1 IN
         /\ t \in 1..MaxTickets /\ t \notin DOMAIN tickets
         /\ t - 1 \in 0..MaxTickets
         /\ DOMAIN tickets \cup {t} = 1..t
<1>1. PICK n \in 0..MaxTickets : DOMAIN tickets = 1..n
  BY DEF IInv, TablesFit
<1>2. Cardinality(1..n) = n
  BY <1>1, FS_Interval
<1>3. QED
  BY <1>1, <1>2, Bounds

LEMMA StoreTicketFits ==
  ASSUME IInv, NEW c \in Clients, StoreTicket(c)
  PROVE  IInv'
<1>1. UNCHANGED <<players, cancelled, process>> /\ CallFits(c) /\ At(c, "store")
  BY DEF IInv, StoreTicket
<1>2. CASE UNCHANGED tickets /\ \E status : End({c}, status)
  BY <1>1, <1>2, ErrorFits DEF tables
<1>3. CASE UNCHANGED tickets /\ GoTo(c, "insert")
  <2>1. Moves(c) /\ SameRequest(c) /\ call'[c].pc = "insert"
    BY <1>3, GoToMoves
  <2>2. CallFits(c)' /\ ReplyFits(c)' /\ LockIsFree(c)
    BY <1>1, <2>1 DEF SameRequest, CallFits, ReplyFits, LockIsFree, At, tables
  <2>3. QED
    BY <1>1, <1>3, <2>1, <2>2, QuietMoveFits DEF tables
<1>4. CASE /\ WithKey(c) = {} /\ ~\E t \in Of(c) : tickets[t].active
           /\ Cardinality(DOMAIN tickets) < MaxTickets
           /\ LET t == Cardinality(DOMAIN tickets) + 1 IN
              /\ tickets' = Put(tickets, t, [player |-> call[c].player, key |-> call[c].key,
                                            state |-> "QUEUED", active |-> TRUE])
              /\ Done(c, t)
  <2> DEFINE t == Cardinality(DOMAIN tickets) + 1
             row == [player |-> call[c].player, key |-> call[c].key,
                     state |-> "QUEUED", active |-> TRUE]
  <2>1. /\ t \in 1..MaxTickets /\ t \notin DOMAIN tickets
        /\ DOMAIN tickets \cup {t} = 1..t
        /\ t \in 0..MaxTickets
    BY <1>4, NextTicket, Bounds
  <2>2. tickets' = Put(tickets, t, row) /\ Done(c, t)
    BY <1>4
  <2>3. /\ call[c].player \in DOMAIN players /\ call[c].player \in Players
        /\ call[c].key \in Keys /\ call[c].op = "create"
    BY <1>1 DEF CallFits
  <2>4. /\ row \in TicketRow /\ row.active
        /\ row.player = call[c].player /\ row.key = call[c].key
    BY <2>3 DEF TicketRow
  <2>5. \A u \in DOMAIN tickets :
          tickets[u].player = row.player => tickets[u].key # row.key /\ ~tickets[u].active
    BY <1>4, <2>4 DEF WithKey, Of
  <2> HIDE DEF t, row
  <2>6. /\ DOMAIN tickets' = DOMAIN tickets \cup {t}
        /\ tickets'[t] = row
        /\ \A u \in DOMAIN tickets : tickets'[u] = tickets[u]
        /\ tickets' = [u \in DOMAIN tickets' |-> tickets'[u]]
    BY <2>1, <2>2 DEF Put
  <2>7. Grows
    BY <1>1, <2>6 DEF Grows
  <2>8. TablesFit'
    <3>1. IsMap(players, Players, PlayerRow)'
      BY <1>1 DEF IInv, TablesFit, IsMap
    <3>2. IsMap(tickets, 1..MaxTickets, TicketRow)'
      BY <2>1, <2>4, <2>6 DEF IInv, TablesFit, IsMap
    <3>3. \E n \in 0..MaxTickets : DOMAIN tickets' = 1..n
      BY <2>1, <2>6
    <3>4. \A u \in DOMAIN tickets' : tickets'[u].player \in DOMAIN players'
      BY <1>1, <2>3, <2>4, <2>6 DEF IInv, TablesFit
    <3>5. QED
      BY <3>1, <3>2, <3>3, <3>4 DEF TablesFit
  <2>9. OneTicketPerKey'
    BY <2>1, <2>4, <2>5, <2>6 DEF IInv, OneTicketPerKey
  <2>10. Moves(c) /\ LockIsFree(c) /\ CallFits(c)' /\ ReplyFits(c)'
    BY <2>1, <2>2, <2>3, <2>4, <2>6, DoneFits
  <2>11. QED
    BY <1>1, <2>7, <2>8, <2>9, <2>10, MoveFits DEF IInv, ProcessFits
<1>5. QED
  BY <1>2, <1>3, <1>4 DEF StoreTicket, TicketError

LEMMA FetchTicketFits ==
  ASSUME IInv, NEW c \in Clients, FetchTicket(c)
  PROVE  IInv'
<1>1. UNCHANGED <<tables, process>>
  BY DEF FetchTicket
<1>2. \E status : End({c}, status)
  BY DEF FetchTicket, TicketError
<1>3. QED
  BY <1>1, <1>2, ErrorFits

LEMMA ReplyKeepsFit ==
  ASSUME IInv, NEW c \in Clients, Reply(c)
  PROVE  IInv'
  BY ErrorFits DEF Reply

LEMMA DropFits ==
  ASSUME IInv, NEW c \in Clients, Drop(c)
  PROVE  IInv'
  BY ErrorFits DEF Drop

LEMMA LockKeyFits ==
  ASSUME IInv, NEW c \in Clients, LockKey(c)
  PROVE  IInv'
<1>1. UNCHANGED <<tables, process>> /\ CallFits(c) /\ At(c, "lock")
  BY DEF IInv, LockKey
<1>2. CASE Before(c) = {} /\ GoTo(c, "row")
  <2>1. Moves(c) /\ SameRequest(c) /\ call'[c].pc = "row"
    BY <1>2, GoToMoves
  <2>2. CallFits(c)' /\ ReplyFits(c)'
    BY <1>1, <1>2, <2>1 DEF SameRequest, CallFits, ReplyFits, At, Before, tables
  <2>3. LockIsFree(c)
    BY <2>1 DEF LockKey, LockIsFree, SameRequest, SameKey
  <2>4. QED
    BY <1>1, <2>1, <2>2, <2>3, QuietMoveFits
<1>3. CASE Before(c) = {call[c].ticket} /\ Done(c, call[c].ticket)
  <2>1. PICK r \in cancelled : r.ticket = call[c].ticket
    BY <1>3 DEF Before
  <2>2. /\ call[c].ticket \in DOMAIN tickets /\ call[c].ticket \in 0..MaxTickets
        /\ tickets[call[c].ticket].state = "CANCELLED"
    BY <2>1 DEF IInv, CancelledFits, TablesFit, IsMap
  <2>3. Moves(c) /\ LockIsFree(c) /\ CallFits(c)' /\ ReplyFits(c)'
    BY <1>1, <1>3, <2>2, DoneFits DEF CallFits, tables
  <2>4. QED
    BY <1>1, <2>3, QuietMoveFits
<1>4. CASE \E status : End({c}, status)
  BY <1>1, <1>4, ErrorFits
<1>5. QED
  BY <1>2, <1>3, <1>4 DEF LockKey, LookUpKey, TicketError

\* The row of a ticket gets another state; player and key stay.
LEMMA TicketChanges ==
  ASSUME IInv, NEW t \in DOMAIN tickets, NEW row \in TicketRow,
         row.player = tickets[t].player, row.key = tickets[t].key,
         row.active => tickets[t].active,
         tickets[t].state = "CANCELLED" => row.state = "CANCELLED",
         tickets' = [tickets EXCEPT ![t] = row], UNCHANGED players
  PROVE  Grows /\ TablesFit' /\ OneTicketPerKey'
<1>1. tickets \in [DOMAIN tickets -> TicketRow] /\ DOMAIN tickets \subseteq 1..MaxTickets
  BY DEF IInv, TablesFit, IsMap
<1>2. /\ DOMAIN tickets' = DOMAIN tickets
      /\ tickets' \in [DOMAIN tickets -> TicketRow]
      /\ \A u \in DOMAIN tickets : tickets'[u] = IF u = t THEN row ELSE tickets[u]
  BY <1>1
<1>3. \A u \in DOMAIN tickets :
        /\ tickets'[u].player = tickets[u].player /\ tickets'[u].key = tickets[u].key
        /\ tickets'[u].active => tickets[u].active
        /\ tickets[u].state = "CANCELLED" => tickets'[u].state = "CANCELLED"
  BY <1>2
<1>4. Grows
  BY <1>2, <1>3 DEF Grows
<1>5. TablesFit'
  BY <1>1, <1>2, <1>3 DEF IInv, TablesFit, IsMap
<1>6. OneTicketPerKey'
  BY <1>2, <1>3 DEF IInv, OneTicketPerKey
<1>7. QED
  BY <1>4, <1>5, <1>6

\* The committed cancellation of request c.
CommittedRow(c) ==
  [player |-> call[c].player, key |-> call[c].key, ticket |-> call[c].ticket]

LEMMA CommittedRowIs ==
  ASSUME NEW c \in Clients
  PROVE  /\ CommittedRow(c).player = call[c].player
         /\ CommittedRow(c).key = call[c].key
         /\ CommittedRow(c).ticket = call[c].ticket
         /\ CommittedRow(c) = [player |-> CommittedRow(c).player,
                               key |-> CommittedRow(c).key,
                               ticket |-> CommittedRow(c).ticket]
  BY DEF CommittedRow

LEMMA CommittedFits ==
  ASSUME IInv, Grows, NEW c \in Clients, At(c, "row"),
         cancelled' = cancelled \cup {CommittedRow(c)},
         call[c].ticket \in DOMAIN tickets',
         tickets'[call[c].ticket].player = call[c].player,
         tickets'[call[c].ticket].state = "CANCELLED"
  PROVE  CancelledFits'
<1>1. ASSUME NEW q \in cancelled, q.player = call[c].player, q.key = call[c].key
      PROVE  FALSE
  <2>1. q.ticket \in Before(c)
    BY <1>1 DEF Before
  <2>2. Before(c) = {}
    BY DEF IInv, CallFits
  <2>3. QED
    BY <2>1, <2>2
<1>2. \A r \in cancelled' :
        /\ r = [player |-> r.player, key |-> r.key, ticket |-> r.ticket]
        /\ r.ticket \in DOMAIN tickets'
        /\ tickets'[r.ticket].player = r.player
        /\ tickets'[r.ticket].state = "CANCELLED"
  BY CommittedRowIs DEF IInv, CancelledFits, Grows
<1>3. \A q, r \in cancelled' :
        q.player = r.player /\ q.key = r.key => q.ticket = r.ticket
  BY <1>1, CommittedRowIs DEF IInv, CancelledFits
<1>4. QED
  BY <1>2, <1>3 DEF CancelledFits

LEMMA CancelRowFits ==
  ASSUME IInv, NEW c \in Clients, CancelRow(c)
  PROVE  IInv'
<1>1. UNCHANGED <<players, process>> /\ CallFits(c) /\ At(c, "row")
  BY DEF IInv, CancelRow
<1>2. CASE UNCHANGED tables /\ \E status : End({c}, status)
  BY <1>1, <1>2, ErrorFits
<1>3. CASE /\ call[c].ticket \in DOMAIN tickets
           /\ tickets[call[c].ticket].player = call[c].player
           /\ tickets' = [tickets EXCEPT ![call[c].ticket].state = "CANCELLED",
                                         ![call[c].ticket].active = FALSE]
           /\ cancelled' = cancelled \cup {CommittedRow(c)}
           /\ Done(c, call[c].ticket)
  <2> DEFINE t == call[c].ticket
             row == [tickets[t] EXCEPT !.state = "CANCELLED", !.active = FALSE]
  <2>1. /\ tickets \in [DOMAIN tickets -> TicketRow]
        /\ t \in DOMAIN tickets /\ t \in 0..MaxTickets
        /\ tickets[t].player = call[c].player
    BY <1>3 DEF IInv, TablesFit, IsMap
  <2>2. tickets' = [tickets EXCEPT ![t] = row]
    BY <1>3, <2>1
  <2>3. /\ row \in TicketRow
        /\ row.player = tickets[t].player /\ row.key = tickets[t].key
        /\ ~row.active /\ row.state = "CANCELLED"
    BY <2>1 DEF TicketRow
  <2> HIDE DEF row
  <2>4. Grows /\ TablesFit' /\ OneTicketPerKey'
    BY <1>1, <2>1, <2>2, <2>3, TicketChanges
  <2>5. /\ t \in DOMAIN tickets' /\ tickets'[t].player = call[c].player
        /\ tickets'[t].state = "CANCELLED"
    BY <2>1, <2>2, <2>3
  <2>6. CancelledFits'
    BY <1>1, <1>3, <2>4, <2>5, CommittedFits
  <2>7. call[c].op = "cancel"
    BY <1>1 DEF CallFits
  <2>8. Moves(c) /\ LockIsFree(c) /\ CallFits(c)' /\ ReplyFits(c)'
    BY <1>3, <2>1, <2>5, <2>7, DoneFits
  <2>9. ASSUME NEW d \in Clients, d # c PROVE CallFits(d)' /\ ReplyFits(d)'
    <3>1. call'[d] = call[d]
      BY <2>8, <2>9 DEF Moves
    <3>2. ASSUME At(d, "row") PROVE Before(d)' = Before(d)
      <4>1. ~(CommittedRow(c).player = call[d].player /\ CommittedRow(c).key = call[d].key)
        BY <1>1, <2>9, <3>2, CommittedRowIs DEF IInv, LockHeldOnce, SameKey
      <4>2. {q \in cancelled' : q.player = call[d].player /\ q.key = call[d].key}
              = {q \in cancelled : q.player = call[d].player /\ q.key = call[d].key}
        BY <1>3, <4>1
      <4>3. QED
        BY <3>1, <4>2 DEF Before
    <3>3. QED
      BY <2>4, <3>1, <3>2, OthersFit
  <2>10. LockHeldOnce'
    BY <2>8 DEF IInv, Moves, LockIsFree, LockHeldOnce, At, SameKey
  <2>11. QED
    BY <1>1, <2>4, <2>6, <2>8, <2>9, <2>10 DEF IInv, Moves
<1>4. QED
  BY <1>2, <1>3 DEF CancelRow, TicketError, CommittedRow, tables

\* No request moves.
LEMMA NoMoveFits ==
  ASSUME IInv, Grows, TablesFit', OneTicketPerKey', UNCHANGED <<cancelled, call>>,
         ProcessFits'
  PROVE  IInv'
<1>1. \A d \in Clients : CallFits(d)' /\ ReplyFits(d)'
  BY OthersFit DEF Before
<1>2. LockHeldOnce'
  BY DEF IInv, LockHeldOnce, At, SameKey
<1>3. QED
  BY <1>1, <1>2, CancelledStays DEF IInv, ProcessFits

LEMMA MatchmakeFits ==
  ASSUME IInv, NEW t \in DOMAIN tickets, Matchmake(t)
  PROVE  IInv'
<1>1. /\ tickets \in [DOMAIN tickets -> TicketRow]
      /\ tickets[t] \in TicketRow
  BY DEF IInv, TablesFit, IsMap
<1>2. UNCHANGED <<players, cancelled, call, process>>
  BY DEF Matchmake
<1>3. PICK row \in TicketRow :
        /\ row.player = tickets[t].player /\ row.key = tickets[t].key
        /\ row.active => tickets[t].active
        /\ tickets[t].state = "CANCELLED" => row.state = "CANCELLED"
        /\ tickets' = [tickets EXCEPT ![t] = row]
  <2>1. CASE /\ tickets[t].state # "CANCELLED"
             /\ \E s \in {"QUEUED", "RESERVED", "ASSIGNED"} :
                  tickets' = [tickets EXCEPT ![t].state = s]
    <3>1. PICK s \in {"QUEUED", "RESERVED", "ASSIGNED"} :
            tickets' = [tickets EXCEPT ![t].state = s]
      BY <2>1
    <3>2. /\ [tickets[t] EXCEPT !.state = s] \in TicketRow
          /\ [tickets[t] EXCEPT !.state = s].player = tickets[t].player
          /\ [tickets[t] EXCEPT !.state = s].key = tickets[t].key
          /\ [tickets[t] EXCEPT !.state = s].active = tickets[t].active
      BY <1>1 DEF TicketRow
    <3>3. tickets' = [tickets EXCEPT ![t] = [tickets[t] EXCEPT !.state = s]]
      BY <1>1, <3>1
    <3>4. QED
      BY <2>1, <3>2, <3>3
  <2>2. CASE /\ tickets[t].state # "CANCELLED"
             /\ tickets' = [tickets EXCEPT ![t].active = FALSE]
    <3>1. /\ [tickets[t] EXCEPT !.active = FALSE] \in TicketRow
          /\ [tickets[t] EXCEPT !.active = FALSE].player = tickets[t].player
          /\ [tickets[t] EXCEPT !.active = FALSE].key = tickets[t].key
          /\ ~[tickets[t] EXCEPT !.active = FALSE].active
      BY <1>1 DEF TicketRow
    <3>2. tickets' = [tickets EXCEPT ![t] = [tickets[t] EXCEPT !.active = FALSE]]
      BY <1>1, <2>2
    <3>3. QED
      BY <2>2, <3>1, <3>2
  <2>3. QED
    BY <2>1, <2>2 DEF Matchmake
<1>4. Grows /\ TablesFit' /\ OneTicketPerKey'
  BY <1>2, <1>3, TicketChanges
<1>5. QED
  BY <1>2, <1>4, NoMoveFits DEF IInv, ProcessFits

LEMMA AbandonFits ==
  ASSUME IInv, NEW c \in Clients, Abandon(c)
  PROVE  IInv'
<1>1. /\ UNCHANGED <<tables, process>>
      /\ call \in [Clients -> CallState] /\ CallFits(c) /\ ReplyFits(c)
  BY DEF IInv, Abandon
<1>2. CASE call' = [call EXCEPT ![c] = Idle]
  <2>1. call'[c] = Idle /\ Moves(c)
    BY <1>1, <1>2, IdleFits DEF Moves
  <2>2. LockIsFree(c)
    BY <2>1 DEF LockIsFree, Idle
  <2>3. QED
    BY <1>1, <2>1, <2>2, IdleCallFits, QuietMoveFits
<1>3. CASE call' = [call EXCEPT ![c].waiting = FALSE]
  <2> DEFINE x == [call[c] EXCEPT !.waiting = FALSE]
  <2>1. /\ x \in CallState /\ x.pc = call[c].pc /\ x.op = call[c].op
        /\ x.player = call[c].player /\ x.key = call[c].key
        /\ x.ticket = call[c].ticket /\ x.value = call[c].value
    BY <1>1 DEF CallState, CallOp, CallPC
  <2>2. call' = [call EXCEPT ![c] = x]
    BY <1>1, <1>3
  <2> HIDE DEF x
  <2>3. call'[c] = x /\ Moves(c)
    BY <1>1, <2>1, <2>2 DEF Moves
  <2>4. CallFits(c)'
    BY <1>1, <2>1, <2>3 DEF CallFits, At, Before, tables
  <2>5. ReplyFits(c)'
    BY <1>1, <2>1, <2>3 DEF ReplyFits, At, tables
  <2>6. LockIsFree(c)
    BY <2>1, <2>3 DEF LockIsFree, IInv, LockHeldOnce, At, SameKey
  <2>7. QED
    BY <1>1, <2>3, <2>4, <2>5, <2>6, QuietMoveFits
<1>4. QED
  BY <1>2, <1>3 DEF Abandon

-----------------------------------------------------------------------------
(* The ends and the starts of processes keep the invariant *)

LEMMA ProcessStepFits ==
  ASSUME IInv, NEW s \in Services,
         \/ Signal(s)
         \/ GrpcForced(s)
         \/ HttpStops(s)
         \/ process' = [process EXCEPT ![s].grpc = "stopped"]
         \/ process' = [process EXCEPT ![s] = Exited]
         \/ Crash(s)
         \/ Restart(s)
  PROVE  ProcessFits'
<1>1. process \in [Services -> [grpc : ServerState, http : ServerState]]
  BY DEF IInv
<1>2. /\ Started \in [grpc : ServerState, http : ServerState]
      /\ Exited \in [grpc : ServerState, http : ServerState]
      /\ Crashed \in [grpc : ServerState, http : ServerState]
      /\ [grpc |-> "closing", http |-> "closing"] \in [grpc : ServerState, http : ServerState]
  BY DEF Started, Exited, Crashed, ServerState
<1>3. /\ [process[s] EXCEPT !.grpc = "stopped"] \in [grpc : ServerState, http : ServerState]
      /\ [process[s] EXCEPT !.http = "stopped"] \in [grpc : ServerState, http : ServerState]
  BY <1>1 DEF ServerState
<1>4. \E x \in [grpc : ServerState, http : ServerState] :
        process' = [process EXCEPT ![s] = x]
  BY <1>2, <1>3 DEF Signal, GrpcForced, HttpStops, Crash, Restart
<1>5. QED
  BY <1>1, <1>4 DEF ProcessFits

LEMMA ProcessActionFits ==
  ASSUME IInv, NEW s \in Services,
         Shutdown(s) \/ Return(s) \/ Die(s) \/ StartAgain(s)
  PROVE  IInv'
<1>1. ProcessFits'
  BY ProcessStepFits DEF Shutdown, Return, Die, StartAgain, GrpcStops, MainReturns
<1>2. UNCHANGED tables
  BY DEF Shutdown, Return, Die, StartAgain
<1>3. CASE \E status : End(InFlight(s), status)
  BY <1>1, <1>2, <1>3, EndFits
<1>4. CASE UNCHANGED call
  BY <1>1, <1>2, <1>4, TablesStay, NoMoveFits DEF tables
<1>5. QED
  BY <1>3, <1>4 DEF Shutdown, Return, Die, StartAgain, Cut, Quiet

-----------------------------------------------------------------------------
LEMMA InitFits == Init => IInv
<1> SUFFICES ASSUME Init PROVE IInv
  OBVIOUS
<1>1. call \in [Clients -> CallState]
  BY IdleFits DEF Init
<1>2. process \in [Services -> [grpc : ServerState, http : ServerState]]
  BY DEF Init, ProcessInit, Started, ServerState
<1>3. TablesFit
  <2>1. DOMAIN players = {} /\ DOMAIN tickets = 1..0
    BY DEF Init
  <2>2. QED
    BY <2>1, Bounds DEF Init, TablesFit, IsMap
<1>4. CancelledFits /\ OneTicketPerKey
  BY DEF Init, CancelledFits, OneTicketPerKey
<1>5. \A c \in Clients : call[c] = Idle
  BY DEF Init
<1>6. LockHeldOnce /\ \A c \in Clients : CallFits(c) /\ ReplyFits(c)
  BY <1>5 DEF LockHeldOnce, CallFits, ReplyFits, At, Idle
<1>7. QED
  BY <1>1, <1>2, <1>3, <1>4, <1>6 DEF IInv

LEMMA NextFits == IInv /\ [Next]_vars => IInv'
<1> SUFFICES ASSUME IInv, [Next]_vars PROVE IInv'
  OBVIOUS
<1>1. ASSUME NEW c \in Clients, Serve(c) PROVE IInv'
  BY <1>1, CreatePlayerFits, AddPlayerFits, SetPlayerBanFits, UpdatePlayerLatencyFits,
     ReadCurrentFits, WriteColumnFits, CreateTicketFits, ReadPlayerFits, FindTicketFits,
     StoreTicketFits, GetTicketFits, FetchTicketFits, CancelTicketFits, SweepFits,
     LockKeyFits, CancelRowFits, ReplyKeepsFit, AbandonFits, DropFits
     DEF Serve
<1>2. ASSUME NEW t \in DOMAIN tickets, Matchmake(t) PROVE IInv'
  BY <1>2, MatchmakeFits
<1>3. ASSUME NEW s \in Services, Shutdown(s) \/ Return(s) \/ Die(s) \/ StartAgain(s)
      PROVE  IInv'
  BY <1>3, ProcessActionFits
<1>4. CASE UNCHANGED vars
  <2>1. UNCHANGED tables /\ UNCHANGED <<call, process>>
    BY <1>4 DEF vars
  <2>2. ProcessFits'
    BY <2>1 DEF IInv, ProcessFits
  <2>3. QED
    BY <2>1, <2>2, TablesStay, NoMoveFits DEF tables
<1>5. QED
  BY <1>1, <1>2, <1>3, <1>4 DEF Next

\* The inductive invariant holds in every reachable state.
THEOREM InvariantHolds == Spec => []IInv
<1>1. Init => IInv
  BY InitFits
<1>2. IInv /\ [Next]_vars => IInv'
  BY NextFits
<1>3. QED
  BY <1>1, <1>2, PTL DEF Spec

\* However requests of a player interleave, are given up and are sent again,
\* a key makes one ticket and one ticket at a time is active (CreateQueued).
THEOREM OneTicketForAKey == Spec => []OneTicketPerKey
<1>1. IInv => OneTicketPerKey
  BY DEF IInv
<1>2. QED
  BY <1>1, InvariantHolds, PTL

-----------------------------------------------------------------------------
(* What clients are told *)

LEMMA StatusOfErrors ==
  /\ \A code : HttpStatus(code) \in {400, 401, 403, 404, 409, 429, 500, 503, 504}
  /\ HttpStatus("Unavailable") = 503
  /\ HttpStatus("DeadlineExceeded") = 504
  BY DEF HttpStatus

\* An answer fits the request and where its handler is.
AnswerFits(a) ==
  LET c == a.client IN
  /\ c \in Clients
  /\ UNCHANGED tables
  /\ \/ a.status \in {503, 504}
     \/ /\ At(c, "reply")
        /\ a.status = IF call[c].op \in {"register", "create"} THEN 201 ELSE 200
     \/ /\ ~At(c, "reply")
        /\ \/ call[c].op \in {"none", "get"} \cup PlayerOps
           \/ call[c].op = "create" /\ a.status # 201
           \/ call[c].op = "cancel" /\ a.status # 200 /\ CommittedRow(c) \notin cancelled

LEMMA EndAnswers ==
  ASSUME NEW cs, NEW status, End(cs, status), NEW a \in answers'
  PROVE  a.client \in cs /\ a.status = status
  BY DEF End

LEMMA EnterAnswers ==
  ASSUME IInv, NEW c \in Clients, NEW x, NEW gateway, NEW service, NEW checks,
         Enter(c, x, gateway, service, checks), NEW a \in answers'
  PROVE  AnswerFits(a)
<1>1. At(c, "idle") /\ call[c].op = "none" /\ UNCHANGED tables
  BY DEF Enter, IInv, CallFits
<1>2. ~At(c, "reply")
  BY <1>1 DEF At
<1>3. \E status : End({c}, status)
  BY DEF Enter
<1>4. a.client = c
  BY <1>3, EndAnswers
<1>5. QED
  BY <1>1, <1>2, <1>4 DEF AnswerFits

\* A cancellation whose row is committed is not refused any more.
LEMMA RefusedIsNotCommitted ==
  ASSUME IInv, NEW c \in Clients, LockKey(c) \/ CancelRow(c), NEW a \in answers'
  PROVE  CommittedRow(c) \notin cancelled
<1> SUFFICES ASSUME CommittedRow(c) \in cancelled PROVE FALSE
  OBVIOUS
<1>1. call[c].ticket \in Before(c)
  BY CommittedRowIs DEF Before
<1>2. \A t \in Before(c) : t = call[c].ticket
  BY CommittedRowIs DEF Before, IInv, CancelledFits
<1>3. At(c, "row") => Before(c) = {}
  BY DEF IInv, CallFits
<1>4. LockKey(c) /\ ~At(c, "row")
  BY <1>1, <1>3 DEF LockKey, CancelRow, At
<1>5. Before(c) = {call[c].ticket}
  BY <1>1, <1>2
<1>6. Done(c, call[c].ticket)
  BY <1>4, <1>5 DEF LockKey, LookUpKey
<1>7. QED
  BY <1>6 DEF Done

LEMMA CancelAnswers ==
  ASSUME IInv, NEW c \in Clients, LockKey(c) \/ CancelRow(c), NEW a \in answers'
  PROVE  AnswerFits(a)
<1>1. call[c].op = "cancel" /\ ~At(c, "reply")
  BY DEF IInv, CallFits, LockKey, CancelRow, At
<1>2. UNCHANGED tables /\ \E err : End({c}, HttpStatus(TicketCode(err)))
  BY DEF LockKey, LookUpKey, CancelRow, GoTo, Done, TicketError, tables
<1>3. a.client = c /\ a.status # 200
  BY <1>2, EndAnswers, StatusOfErrors
<1>4. QED
  BY <1>1, <1>2, <1>3, RefusedIsNotCommitted DEF AnswerFits

LEMMA CreateAnswers ==
  ASSUME IInv, NEW c \in Clients, ReadPlayer(c) \/ FindTicket(c) \/ StoreTicket(c),
         NEW a \in answers'
  PROVE  AnswerFits(a)
<1>1. call[c].op = "create" /\ ~At(c, "reply")
  BY DEF IInv, CallFits, ReadPlayer, FindTicket, StoreTicket, At
<1>2. UNCHANGED tables /\ \E err : End({c}, HttpStatus(TicketCode(err)))
  BY DEF ReadPlayer, FindTicket, StoreTicket, GoTo, Done, TicketError, tables
<1>3. a.client = c /\ a.status # 201
  BY <1>2, EndAnswers, StatusOfErrors
<1>4. QED
  BY <1>1, <1>2, <1>3 DEF AnswerFits

LEMMA OtherAnswers ==
  ASSUME IInv, NEW c \in Clients, NEW a \in answers',
         AddPlayer(c) \/ ReadCurrent(c) \/ WriteColumn(c) \/ FetchTicket(c)
  PROVE  AnswerFits(a)
<1>1. call[c].op \in {"get"} \cup PlayerOps /\ ~At(c, "reply")
  BY DEF IInv, CallFits, AddPlayer, ReadCurrent, WriteColumn, FetchTicket, At, PlayerOps
<1>2. UNCHANGED tables /\ \E status : End({c}, status)
  BY DEF AddPlayer, ReadCurrent, WriteColumn, FetchTicket, Done, PlayerError, TicketError,
         tables
<1>3. a.client = c
  BY <1>2, EndAnswers
<1>4. QED
  BY <1>1, <1>2, <1>3 DEF AnswerFits

LEMMA LastAnswers ==
  ASSUME IInv, NEW c \in Clients, NEW a \in answers', Reply(c) \/ Abandon(c) \/ Drop(c)
  PROVE  AnswerFits(a)
<1>1. UNCHANGED tables
  BY DEF Reply, Abandon, Drop
<1>2. CASE Reply(c)
  <2>1. /\ At(c, "reply")
        /\ End({c}, IF call[c].op \in {"register", "create"} THEN 201 ELSE 200)
    BY <1>2 DEF Reply
  <2>2. /\ a.client = c
        /\ a.status = IF call[c].op \in {"register", "create"} THEN 201 ELSE 200
    BY <2>1, EndAnswers
  <2>3. QED
    BY <1>1, <2>1, <2>2 DEF AnswerFits
<1>3. CASE Abandon(c)
  BY <1>1, <1>3, StatusOfErrors DEF Abandon, AnswerFits
<1>4. CASE Drop(c)
  BY <1>4 DEF Drop, End
<1>5. QED
  BY <1>2, <1>3, <1>4

LEMMA EnteringAnswers ==
  ASSUME IInv, NEW c \in Clients, NEW a \in answers',
         \/ CreatePlayer(c) \/ SetPlayerBan(c) \/ UpdatePlayerLatency(c)
         \/ CreateTicket(c) \/ GetTicket(c) \/ CancelTicket(c)
  PROVE  AnswerFits(a)
<1>1. \E x, gateway, service, checks : Enter(c, x, gateway, service, checks)
  BY DEF CreatePlayer, SetPlayerBan, UpdatePlayerLatency, CreateTicket, GetTicket,
         CancelTicket
<1>2. QED
  BY <1>1, EnterAnswers

LEMMA ProcessAnswers ==
  ASSUME IInv, NEW s \in Services, NEW a \in answers',
         Shutdown(s) \/ Return(s) \/ Die(s) \/ StartAgain(s)
  PROVE  AnswerFits(a)
<1>1. UNCHANGED tables /\ End(InFlight(s), 503)
  BY StatusOfErrors DEF Shutdown, Return, Die, StartAgain, Cut, Quiet
<1>2. a.client \in Clients /\ a.status = 503
  BY <1>1, EndAnswers DEF InFlight
<1>3. QED
  BY <1>1, <1>2 DEF AnswerFits

LEMMA AnswersFit ==
  ASSUME IInv, Next, NEW a \in answers'
  PROVE  AnswerFits(a)
<1>1. ASSUME NEW c \in Clients, Serve(c) PROVE AnswerFits(a)
  <2>1. ~Sweep(c)
    BY DEF Sweep
  <2>2. QED
    BY <1>1, <2>1, EnteringAnswers, OtherAnswers, CreateAnswers, CancelAnswers, LastAnswers
       DEF Serve
<1>2. ASSUME NEW t \in DOMAIN tickets PROVE ~Matchmake(t)
  BY DEF Matchmake
<1>3. QED
  BY <1>1, <1>2, ProcessAnswers DEF Next

\* A cancellation that has been committed is answered with 200, or with an
\* error that leaves the outcome open, however often and however close to each
\* other the client sends it (Cancel).
THEOREM CommittedCancellationsAreAccepted == Spec => CancelIsIdempotent
<1> DEFINE Accepted ==
      \A a \in answers' :
        LET c == call[a.client]
            row == [player |-> c.player, key |-> c.key, ticket |-> c.ticket]
        IN a.status \notin {503, 504} /\ c.op = "cancel" /\ row \in cancelled
           => a.status = 200
<1>1. ASSUME IInv, Next PROVE Accepted
  <2>1. ASSUME NEW a \in answers', a.status \notin {503, 504},
               call[a.client].op = "cancel", CommittedRow(a.client) \in cancelled
        PROVE  a.status = 200
    <3>1. AnswerFits(a)
      BY <1>1, AnswersFit
    <3>2. At(a.client, "reply")
      BY <2>1, <3>1 DEF AnswerFits, PlayerOps
    <3>3. QED
      BY <2>1, <3>1, <3>2 DEF AnswerFits
  <2>2. QED
    BY <2>1 DEF CommittedRow
<1>2. IInv /\ [Next]_vars => [Accepted]_vars
  BY <1>1
<1> HIDE DEF Accepted
<1>3. Spec => [][Accepted]_vars
  BY <1>2, InvariantHolds, PTL DEF Spec
<1>4. QED
  BY <1>3 DEF CancelIsIdempotent, Accepted

\* What a client is told is so: after 4xx nothing has changed, after 201 the
\* ticket is there with his key, after 200 the ticket is cancelled.
THEOREM ClientsAreToldTheTruth == Spec => AnswersAreTrue
<1> DEFINE Truthful ==
      \A a \in answers' :
        LET c == call[a.client] IN
        /\ a.status \in 400..499 => c.pc # "reply" /\ UNCHANGED tables
        /\ a.status = 201 /\ c.op = "create" =>
             /\ c.ticket \in DOMAIN tickets
             /\ tickets[c.ticket].player = c.player /\ tickets[c.ticket].key = c.key
        /\ a.status = 200 /\ c.op = "cancel" => tickets[c.ticket].state = "CANCELLED"
<1>1. ASSUME IInv, Next PROVE Truthful
  <2>1. ASSUME NEW a \in answers'
        PROVE  LET c == call[a.client] IN
               /\ a.status \in 400..499 => c.pc # "reply" /\ UNCHANGED tables
               /\ a.status = 201 /\ c.op = "create" =>
                    /\ c.ticket \in DOMAIN tickets
                    /\ tickets[c.ticket].player = c.player
                    /\ tickets[c.ticket].key = c.key
               /\ a.status = 200 /\ c.op = "cancel" =>
                    tickets[c.ticket].state = "CANCELLED"
    <3>1. AnswerFits(a) /\ a.client \in Clients
      BY <1>1, AnswersFit DEF AnswerFits
    <3>2. ReplyFits(a.client)
      BY <1>1, <3>1 DEF IInv
    <3>3. a.status \in 400..499 => ~At(a.client, "reply") /\ UNCHANGED tables
      BY <3>1 DEF AnswerFits
    <3>4. a.status \in {200, 201} /\ call[a.client].op \in {"create", "cancel"} =>
            \/ At(a.client, "reply")
            \/ call[a.client].op = "create" /\ a.status = 200
            \/ call[a.client].op = "cancel" /\ a.status = 201
      BY <3>1 DEF AnswerFits, PlayerOps
    <3>5. QED
      BY <3>2, <3>3, <3>4 DEF ReplyFits, At
  <2>2. QED
    BY <2>1
<1>2. IInv /\ [Next]_vars => [Truthful]_vars
  BY <1>1
<1> HIDE DEF Truthful
<1>3. Spec => [][Truthful]_vars
  BY <1>2, InvariantHolds, PTL DEF Spec
<1>4. QED
  BY <1>3 DEF AnswersAreTrue, Truthful

\* Who lifts a ban.
Lifted(p) ==
  \E c \in Clients : At(c, "write") /\ call[c].op = "ban" /\ ~call[c].value

LEMMA WriteLifts ==
  ASSUME IInv, NEW c \in Clients, WriteColumn(c), NEW p \in DOMAIN players,
         players[p].banned, ~players'[p].banned
  PROVE  Lifted(p)
<1>1. players \in [DOMAIN players -> PlayerRow]
  BY DEF IInv, TablesFit, IsMap
<1>2. CASE call[c].op = "ban"
  <2>1. players' = [players EXCEPT ![call[c].player].banned = call[c].value]
    BY <1>2 DEF WriteColumn
  <2>2. p = call[c].player
    BY <1>1, <2>1
  <2>3. players'[p].banned = call[c].value
    BY <1>1, <2>1, <2>2 DEF PlayerRow
  <2>4. QED
    BY <1>2, <2>3 DEF WriteColumn, Lifted
<1>3. CASE call[c].op # "ban"
  <2>1. players' = [players EXCEPT ![call[c].player].latency = call[c].value]
    BY <1>3 DEF WriteColumn
  <2>2. players'[p].banned = players[p].banned
    BY <1>1, <2>1 DEF PlayerRow
  <2>3. QED
    BY <2>2
<1>4. QED
  BY <1>2, <1>3

\* An update of a player's latencies that began before a ban and ends after it
\* leaves the ban alone: only a request of an operator lifts it.
THEOREM BansStandUntilLifted == Spec => BanStands
<1> DEFINE Stands ==
      \A p \in DOMAIN players :
        players[p].banned /\ ~players'[p].banned
          => \E c \in Clients : At(c, "write") /\ call[c].op = "ban" /\ ~call[c].value
<1>1. ASSUME IInv, Next PROVE Stands
  <2>1. ASSUME NEW p \in DOMAIN players, players[p].banned, ~players'[p].banned
        PROVE  Lifted(p)
    <3>1. ~UNCHANGED players
      BY <2>1
    <3>2. ASSUME NEW c \in Clients, Serve(c) PROVE AddPlayer(c) \/ WriteColumn(c)
      BY <3>1, <3>2 DEF Serve, CreatePlayer, SetPlayerBan, UpdatePlayerLatency, ReadCurrent,
         CreateTicket, ReadPlayer, FindTicket, StoreTicket, GetTicket, FetchTicket,
         CancelTicket, Sweep, LockKey, CancelRow, Reply, Abandon, Drop, Enter, tables
    <3>3. ASSUME NEW c \in Clients, AddPlayer(c) PROVE FALSE
      <4>1. players'[p] = players[p]
        BY <3>1, <3>3 DEF AddPlayer, Put
      <4>2. QED
        BY <2>1, <4>1
    <3>4. \A t \in DOMAIN tickets : ~Matchmake(t)
      BY <3>1 DEF Matchmake
    <3>5. \A s \in Services : ~(Shutdown(s) \/ Return(s) \/ Die(s) \/ StartAgain(s))
      BY <3>1 DEF Shutdown, Return, Die, StartAgain, tables
    <3>6. PICK c \in Clients : WriteColumn(c)
      BY <1>1, <3>2, <3>3, <3>4, <3>5 DEF Next
    <3>7. QED
      BY <1>1, <2>1, <3>6, WriteLifts
  <2>2. QED
    BY <2>1 DEF Lifted
<1>2. IInv /\ [Next]_vars => [Stands]_vars
  BY <1>1
<1> HIDE DEF Stands
<1>3. Spec => [][Stands]_vars
  BY <1>2, InvariantHolds, PTL DEF Spec
<1>4. QED
  BY <1>3 DEF BanStands, Stands
===============================================================================
