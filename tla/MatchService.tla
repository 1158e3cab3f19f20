----------------------------- MODULE MatchService -----------------------------
(***************************************************************************)
(* StartMatch and CompleteMatch                                            *)
(* (internal/matchmaking/application/match_service.go) on the in-memory    *)
(* back ends.                                                              *)
(*                                                                         *)
(* A call is a sequence of back-end calls: it reads the match, works on    *)
(* that copy and stores it back.  Calls overlap freely, and the context of *)
(* a call may be cancelled between two of its steps.  The simulation       *)
(* service, which asks for the completion, need not ask again.             *)
(***************************************************************************)
EXTENDS Backends

CONSTANT Callers   \* requests that can be in progress at the same time

VARIABLE call   \* caller -> the request it has in progress

\* pc     the next back-end call; "none" when no request is in progress
\* match  the match id of the request
\* copy   the copy of the match the request works on
CallPC == {"none", "storeStarted", "storeCompleted", "resolve",
           "completeTickets", "releaseServer"}

NoCall == [pc |-> "none", match |-> None, copy |-> None]

CallState ==
  [pc : CallPC \ {"none"}, match : Matches, copy : Match \cup {None}]
    \cup {NoCall}

CallInit == call = [c \in Callers |-> NoCall]

InCall(c, pc) == call[c].pc = pc
Proceed(c, pc, m, copy) ==
  call' = [call EXCEPT ![c] = [pc |-> pc, match |-> m, copy |-> copy]]
Return(c) == call' = [call EXCEPT ![c] = NoCall]

\* The next call on the same match, which needs no copy.
Then(c, pc) == Proceed(c, pc, call[c].match, None)

-----------------------------------------------------------------------------
(* StartMatch *)

\* Get and Start.  A RUNNING match is returned as it is and a match in
\* another state is an error: nothing changes.
StartMatch(c, m) ==
  /\ InCall(c, "none")
  /\ m \in DOMAIN matches /\ CanStart(matches[m])
  /\ Proceed(c, "storeStarted", m, Started(matches[m]))
  /\ UNCHANGED <<storeVars, matches, allocations>>

\* A revision conflict only decides what the request returns.
StoreStarted(c) ==
  /\ InCall(c, "storeStarted")
  /\ \/ Update(call[c].match, call[c].copy)
     \/ ~IsNext(call[c].match, call[c].copy) /\ UNCHANGED matches
  /\ Return(c)
  /\ UNCHANGED <<storeVars, allocations>>

-----------------------------------------------------------------------------
(* CompleteMatch *)

\* Get finds the match FINISHED: the rest of an earlier call is done again,
\* which may have stopped half-way.
CompleteFinished(c, m) ==
  /\ InCall(c, "none")
  /\ m \in DOMAIN matches /\ matches[m].state = "FINISHED"
  /\ Proceed(c, "completeTickets", m, None)
  /\ UNCHANGED <<storeVars, matches, allocations>>

\* Get and Complete; only a RUNNING match can be completed.
CompleteMatch(c, m, result) ==
  /\ InCall(c, "none")
  /\ m \in DOMAIN matches /\ CanComplete(matches[m])
  /\ Proceed(c, "storeCompleted", m, Completed(matches[m], result))
  /\ UNCHANGED <<storeVars, matches, allocations>>

StoreCompleted(c) ==
  /\ InCall(c, "storeCompleted")
  /\ \/ Update(call[c].match, call[c].copy) /\ Then(c, "completeTickets")
     \/ /\ ~IsNext(call[c].match, call[c].copy)
        /\ Then(c, "resolve")
        /\ UNCHANGED matches
  /\ UNCHANGED <<storeVars, allocations>>

\* Fault: the tickets are left to the call that stored the result.
Fault_ResolveCompletionConflict(c) ==
  /\ InCall(c, "resolve")
  /\ IF matches[call[c].match].state = "FINISHED"
     THEN Then(c, "releaseServer")
     ELSE Return(c)
  /\ UNCHANGED <<storeVars, matches, allocations>>

\* resolveCompletionConflict: another call completed the match, and this one
\* goes on with that call's result.
ResolveCompletionConflict(c) ==
  /\ InCall(c, "resolve")
  /\ IF matches[call[c].match].state = "FINISHED"
     THEN Then(c, "completeTickets")
     ELSE Return(c)
  /\ UNCHANGED <<storeVars, matches, allocations>>

CompleteTickets(c) ==
  /\ InCall(c, "completeTickets")
  /\ Store!CompleteAssignedTickets(call[c].match)
  /\ Then(c, "releaseServer")
  /\ UNCHANGED <<matches, allocations>>

\* The last step of CompleteMatch: the request succeeds.
ReleaseMatchServer(c) ==
  /\ InCall(c, "releaseServer")
  /\ Release(call[c].match)
  /\ Return(c)
  /\ UNCHANGED <<storeVars, matches>>

\* The request's context is cancelled: its next back-end call fails.
AbortCall(c) ==
  /\ ~InCall(c, "none")
  /\ Return(c)
  /\ UNCHANGED <<storeVars, matches, allocations>>

-----------------------------------------------------------------------------

CallStep(c) ==
  \/ StoreStarted(c)
  \/ StoreCompleted(c)
  \/ ResolveCompletionConflict(c)
  \/ CompleteTickets(c)
  \/ ReleaseMatchServer(c)

Request(c) ==
  \/ \E m \in Matches : StartMatch(c, m) \/ CompleteFinished(c, m)
  \/ \E m \in Matches, result \in Results : CompleteMatch(c, m, result)
=============================================================================
