---------------------------- MODULE PolicyRollout ----------------------------
(***************************************************************************)
(* The analysis run that makes a policy proposal, and the review,          *)
(* activation and rollback of the proposal: the agent service              *)
(* (internal/agent/application/service.go) with its PostgreSQL repository, *)
(* and the policy registry of the matchmaking service                      *)
(* (internal/matchmaking/application/policy_manager.go and                 *)
(* operations_service.go) that it calls by RPC.                            *)
(*                                                                         *)
(* A call reads the proposal, moves it with a compare-and-swap on its      *)
(* state, sends an RPC and moves it again.  The RPC handlers ignore their  *)
(* context and use the registry in two lock sections, so a request whose   *)
(* sender timed out, or died, still takes effect when it is served; so     *)
(* does a transaction whose COMMIT was under way.                          *)
(*                                                                         *)
(* A run and its proposal are drawn together and have one id here, which   *)
(* also stands for the experiment id ("approved-" + id), for the candidate *)
(* policy and for its version.                                             *)
(***************************************************************************)
EXTENDS Naturals

CONSTANTS
  Proposals,
  Operators,    \* people who review
  Requester,    \* the one who asked for the proposals
  Rollouts,     \* gray-release settings: basis points and salt
  Callers,      \* calls to the agent service in progress at the same time
  Settings,     \* caller -> the rollout its activations ask for
  MaxFailures,  \* bound on the timeouts and restarts considered
  None

ASSUME SettingsAssumption == Settings \in [Callers -> Rollouts]
ASSUME RequesterAssumption == Requester \in Operators
ASSUME NoneAssumption == None \notin Proposals \cup Operators \cup Rollouts
ASSUME FailuresAssumption == MaxFailures \in Nat

VARIABLES
  runs,        \* proposal -> state of the run that makes it
  proposals,   \* proposal -> [state, passed, reviewer, rollout, experiment]
  experiment,  \* PolicyManager.experiment: None or [id, rollout]
  call,        \* caller -> the call it has in progress
  failures

vars == <<runs, proposals, experiment, call, failures>>

-----------------------------------------------------------------------------
(* Proposals *)

RunStatus == {"NONE", "RUNNING", "SUCCEEDED", "FAILED"}

ProposalState ==
  {"ABSENT", "PENDING_APPROVAL", "APPROVED", "REJECTED", "ACTIVATING", "ACTIVE",
   "ROLLING_BACK", "ROLLED_BACK"}

Proposal ==
  [state : ProposalState, passed : BOOLEAN, reviewer : Operators \cup {None},
   rollout : Rollouts \cup {None}, experiment : Proposals \cup {None}]

Experiment == [id : Proposals, rollout : Rollouts]

Absent ==
  [state |-> "ABSENT", passed |-> FALSE, reviewer |-> None, rollout |-> None,
   experiment |-> None]

\* passed: no finding of the risk report blocks.
NewProposal(passed) ==
  [Absent EXCEPT !.state = "PENDING_APPROVAL", !.passed = passed]

CanReview(copy, operator, approve) ==
  /\ operator # Requester
  /\ approve => copy.passed

Reviewed(copy, operator, approve) ==
  [copy EXCEPT !.state = IF approve THEN "APPROVED" ELSE "REJECTED",
               !.reviewer = operator]

Activating(copy, rollout) ==
  [copy EXCEPT !.state = "ACTIVATING", !.rollout = rollout]

Activated(copy, id) == [copy EXCEPT !.state = "ACTIVE", !.experiment = id]

InState(copy, state) == [copy EXCEPT !.state = state]

\* Fault: the condition on the state is missing.
Fault_Unchanged(p, expected) == TRUE

\* UPDATE ... WHERE id = $13 AND state = $14.
Unchanged(p, expected) == proposals[p].state = expected.state

-----------------------------------------------------------------------------
(* Calls *)

Kind == {"approve", "reject", "activate", "rollback"}

\* tools     an analysis run calls its tools
\* complete  the transaction that ends the run with a proposal is under way
\* failing   the update that ends it without one is under way
\* read      the proposal has been read
\* sent      the RPC is on its way to the matchmaking service
\* applied   the handler is between its two uses of the registry
\* answered  the RPC has succeeded
PC == {"tools", "complete", "failing", "read", "sent", "applied", "answered"}

NoCall == [pc |-> "none"]

\* copy    the proposal as the call sees it
\* gone    the caller no longer waits for what it has sent
\* answer  the experiment id the RPC returned
CallState ==
  [pc : PC, kind : Kind \cup {"analyse"}, id : Proposals, copy : Proposal,
   gone : BOOLEAN, answer : Proposals \cup {None}] \cup {NoCall}

Init ==
  /\ runs = [p \in Proposals |-> "NONE"]
  /\ proposals = [p \in Proposals |-> Absent]
  /\ experiment = None
  /\ call = [c \in Callers |-> NoCall]
  /\ failures = 0

At(c, pc, kind) == call[c].pc = pc /\ call[c].kind = kind
Waiting(c) == ~call[c].gone
Return(c) == call' = [call EXCEPT ![c] = NoCall]

Send(c, copy) == call' = [call EXCEPT ![c].pc = "sent", ![c].copy = copy]

\* The answer only reaches a caller that still waits.
Answer(c, id) ==
  call' = [call EXCEPT ![c] = IF call[c].gone
                              THEN NoCall
                              ELSE [@ EXCEPT !.pc = "answered", !.answer = id]]

\* UpdateProposal succeeds and stores new.
Stored(c, new) ==
  /\ Unchanged(call[c].id, call[c].copy)
  /\ proposals' = [proposals EXCEPT ![call[c].id] = new]

StartCall(c, p, kind) ==
  /\ call[c] = NoCall
  /\ proposals[p] # Absent
  /\ call' = [call EXCEPT ![c] = [pc |-> "read", kind |-> kind, id |-> p,
                                  copy |-> proposals[p], gone |-> FALSE,
                                  answer |-> None]]
  /\ UNCHANGED <<runs, proposals, experiment, failures>>

\* Fault: the service cannot resume an interrupted call.
Fault_Resumes(c) == FALSE

\* The state the call starts from, and the one it resumes from.
StartsFrom ==
  [approve |-> "PENDING_APPROVAL", reject |-> "PENDING_APPROVAL",
   activate |-> "APPROVED", rollback |-> "ACTIVE"]
Resumes(c) ==
  \/ call[c].kind = "activate" /\ call[c].copy.state = "ACTIVATING"
  \/ call[c].kind = "rollback" /\ call[c].copy.state = "ROLLING_BACK"

\* The proposal is already where the call should take it, or cannot get
\* there, or the review breaks a rule.
Refuse(c) ==
  /\ call[c].pc = "read"
  /\ ~Resumes(c)
  /\ \/ call[c].copy.state # StartsFrom[call[c].kind]
     \/ call[c].kind \in {"approve", "reject"}
  /\ Return(c)
  /\ UNCHANGED <<runs, proposals, experiment, failures>>

\* The compare-and-swap of the call fails.
Conflict(c) ==
  /\ \/ call[c].pc = "read" /\ ~Resumes(c)
     \/ call[c].pc = "answered"
  /\ ~Unchanged(call[c].id, call[c].copy)
  /\ Return(c)
  /\ UNCHANGED <<runs, proposals, experiment, failures>>

Review(c, approve, operator) ==
  /\ At(c, "read", IF approve THEN "approve" ELSE "reject")
  /\ call[c].copy.state = "PENDING_APPROVAL"
  /\ CanReview(call[c].copy, operator, approve)
  /\ Stored(c, Reviewed(call[c].copy, operator, approve))
  /\ Return(c)
  /\ UNCHANGED <<runs, experiment, failures>>

-----------------------------------------------------------------------------
(* RunAnalysis *)

Analyses(c, pc) == At(c, pc, "analyse")

\* CreateRun.
StartRun(c, p) ==
  /\ call[c] = NoCall
  /\ runs[p] = "NONE"
  /\ runs' = [runs EXCEPT ![p] = "RUNNING"]
  /\ call' = [call EXCEPT ![c] = [pc |-> "tools", kind |-> "analyse", id |-> p,
                                  copy |-> Absent, gone |-> FALSE,
                                  answer |-> None]]
  /\ UNCHANGED <<proposals, experiment, failures>>

\* The snapshot, the analysis or a replay fails, or the base policy is gone.
ToolFails(c) ==
  /\ Analyses(c, "tools")
  /\ call' = [call EXCEPT ![c].pc = "failing"]
  /\ UNCHANGED <<runs, proposals, experiment, failures>>

\* The candidate policy is generated, replayed and its risks are assessed.
AssessRisk(c) ==
  /\ Analyses(c, "tools")
  /\ \E passed \in BOOLEAN :
       call' = [call EXCEPT ![c].pc = "complete", ![c].copy = NewProposal(passed)]
  /\ UNCHANGED <<runs, proposals, experiment, failures>>

\* Fault: the condition on the status is missing.
Fault_StillRunning(c) == TRUE

\* UPDATE ... WHERE id = $6 AND status = 'RUNNING'.
StillRunning(c) == runs[call[c].id] = "RUNNING"

\* The run and its proposal are stored in one transaction.
CompleteRun(c) ==
  /\ Analyses(c, "complete")
  /\ StillRunning(c)
  /\ runs' = [runs EXCEPT ![call[c].id] = "SUCCEEDED"]
  /\ proposals' = [proposals EXCEPT ![call[c].id] = call[c].copy]
  /\ Return(c)
  /\ UNCHANGED <<experiment, failures>>

FailRun(c) ==
  /\ Analyses(c, "failing")
  /\ StillRunning(c)
  /\ runs' = [runs EXCEPT ![call[c].id] = "FAILED"]
  /\ Return(c)
  /\ UNCHANGED <<proposals, experiment, failures>>

RunConflict(c) ==
  /\ Analyses(c, "complete") \/ Analyses(c, "failing")
  /\ ~StillRunning(c)
  /\ Return(c)
  /\ UNCHANGED <<runs, proposals, experiment, failures>>

-----------------------------------------------------------------------------
(* ActivateProposal *)

BeginActivation(c) ==
  /\ At(c, "read", "activate") /\ call[c].copy.state = "APPROVED"
  /\ Stored(c, Activating(call[c].copy, Settings[c]))
  /\ Send(c, Activating(call[c].copy, Settings[c]))
  /\ UNCHANGED <<runs, experiment, failures>>

\* Fault: the request carries the settings of the retry.
Fault_ResumedCopy(copy) ==
  [copy EXCEPT !.rollout = CHOOSE r \in Rollouts : r # copy.rollout]

\* The settings of the request are those persisted, not those of the retry.
ResumedCopy(copy) == copy

Resume(c) ==
  /\ call[c].pc = "read" /\ Resumes(c)
  /\ Send(c, ResumedCopy(call[c].copy))
  /\ UNCHANGED <<runs, proposals, experiment, failures>>

Requested(c) == [id |-> call[c].id, rollout |-> call[c].copy.rollout]

\* PolicyManager.ActivateApprovedPolicy: the same experiment again is
\* accepted as it is, another one replaces the experiment in force, and one
\* with the id in force but other settings is ErrInvalidExperiment.
SameIdOtherSettings(new) ==
  /\ experiment # None /\ experiment.id = new.id
  /\ experiment # new

Register(c) ==
  /\ At(c, "sent", "activate")
  /\ IF SameIdOtherSettings(Requested(c))
     THEN Return(c) /\ UNCHANGED experiment
     ELSE /\ experiment' = Requested(c)
          /\ call' = [call EXCEPT ![c].pc = "applied"]
  /\ UNCHANGED <<runs, proposals, failures>>

\* The second lock section answers with whatever is in force by then.
AnswerActivation(c) ==
  /\ At(c, "applied", "activate")
  /\ Answer(c, IF experiment = None THEN None ELSE experiment.id)
  /\ UNCHANGED <<runs, proposals, experiment, failures>>

CompleteActivation(c) ==
  /\ At(c, "answered", "activate") /\ call[c].answer # None
  /\ Stored(c, Activated(call[c].copy, call[c].answer))
  /\ Return(c)
  /\ UNCHANGED <<runs, experiment, failures>>

\* An empty experiment id is ErrInvalidProposal.
NoExperiment(c) ==
  /\ At(c, "answered", "activate") /\ call[c].answer = None
  /\ Return(c)
  /\ UNCHANGED <<runs, proposals, experiment, failures>>

-----------------------------------------------------------------------------
(* RollbackProposal *)

BeginRollback(c) ==
  /\ At(c, "read", "rollback") /\ call[c].copy.state = "ACTIVE"
  /\ Stored(c, InState(call[c].copy, "ROLLING_BACK"))
  /\ Send(c, InState(call[c].copy, "ROLLING_BACK"))
  /\ UNCHANGED <<runs, experiment, failures>>

InForce(id) == experiment # None /\ experiment.id = id

StopExperiment(c) ==
  /\ At(c, "sent", "rollback") /\ InForce(call[c].copy.experiment)
  /\ experiment' = None
  /\ Answer(c, None)
  /\ UNCHANGED <<runs, proposals, failures>>

\* ErrExperimentNotActive: the handler goes on to look for another one.
NotInForce(c) ==
  /\ At(c, "sent", "rollback") /\ ~InForce(call[c].copy.experiment)
  /\ call' = [call EXCEPT ![c].pc = "applied"]
  /\ UNCHANGED <<runs, proposals, experiment, failures>>

\* No experiment at all counts as rolled back; any experiment is an error.
ReportRollback(c) ==
  /\ At(c, "applied", "rollback")
  /\ IF experiment = None THEN Answer(c, None) ELSE Return(c)
  /\ UNCHANGED <<runs, proposals, experiment, failures>>

CompleteRollback(c) ==
  /\ At(c, "answered", "rollback")
  /\ Stored(c, InState(call[c].copy, "ROLLED_BACK"))
  /\ Return(c)
  /\ UNCHANGED <<runs, experiment, failures>>

-----------------------------------------------------------------------------
(* Failures *)

\* What a call that ends here leaves behind: a request or an update that has
\* been sent is served all the same.
LeftBehind(c) ==
  IF call[c] # NoCall /\ call[c].pc \in {"sent", "applied", "complete", "failing"}
  THEN [call[c] EXCEPT !.gone = TRUE]
  ELSE NoCall

\* The call times out or is cancelled.  An analysis cannot note its failure
\* then, because it does so with the context that is cancelled.
Abandon(c) ==
  /\ failures < MaxFailures
  /\ call[c] # NoCall /\ Waiting(c)
  /\ call' = [call EXCEPT ![c] = LeftBehind(c)]
  /\ failures' = failures + 1
  /\ UNCHANGED <<runs, proposals, experiment>>

\* What was sent does not arrive.
Lost(c) ==
  /\ call[c] # NoCall /\ ~Waiting(c)
  /\ call[c].pc # "applied"
  /\ Return(c)
  /\ UNCHANGED <<runs, proposals, experiment, failures>>

\* The agent service restarts.  Before it serves requests it fails the runs
\* that are RUNNING (RecoverIncompleteRuns).
RestartAgent ==
  /\ failures < MaxFailures
  /\ runs' = [p \in Proposals |-> IF runs[p] = "RUNNING" THEN "FAILED" ELSE runs[p]]
  /\ call' = [c \in Callers |-> LeftBehind(c)]
  /\ failures' = failures + 1
  /\ UNCHANGED <<proposals, experiment>>

\* The matchmaking service restarts.  The registry is in memory, and the
\* requests it was serving fail.
Restart ==
  /\ failures < MaxFailures
  /\ experiment' = None
  /\ call' = [c \in Callers |-> IF call[c].pc = "applied"
                                THEN NoCall ELSE call[c]]
  /\ failures' = failures + 1
  /\ UNCHANGED <<runs, proposals>>

-----------------------------------------------------------------------------
(* Specification *)

ActivateStep(c) ==
  \/ BeginActivation(c)
  \/ Register(c) \/ AnswerActivation(c)
  \/ CompleteActivation(c) \/ NoExperiment(c)

RollbackStep(c) ==
  \/ BeginRollback(c) \/ StopExperiment(c) \/ NotInForce(c)
  \/ ReportRollback(c) \/ CompleteRollback(c)

AnalysisStep(c) ==
  \/ ToolFails(c) \/ AssessRisk(c)
  \/ CompleteRun(c) \/ FailRun(c) \/ RunConflict(c)

\* What ends a call in progress.
CallStep(c) ==
  \/ Refuse(c) \/ Conflict(c) \/ Resume(c)
  \/ \E operator \in Operators, approve \in BOOLEAN :
       Review(c, approve, operator)
  \/ AnalysisStep(c) \/ ActivateStep(c) \/ RollbackStep(c)

Next ==
  \/ \E c \in Callers, p \in Proposals :
       StartRun(c, p) \/ \E kind \in Kind : StartCall(c, p, kind)
  \/ \E c \in Callers : CallStep(c) \/ Abandon(c) \/ Lost(c)
  \/ Restart \/ RestartAgent

Spec == Init /\ [][Next]_vars

\* An administrator asks again for what an interruption left half done.
Retry(p) ==
  /\ proposals[p].state = "ACTIVATING"
  /\ \E c \in Callers : StartCall(c, p, "activate")

\* Calls get on, and a retry is eventually made while it is needed.
LiveSpec ==
  /\ Spec
  /\ \A c \in Callers : WF_vars(CallStep(c))
  /\ \A p \in Proposals : SF_vars(Retry(p))

-----------------------------------------------------------------------------
(* Properties *)

\* Each variable holds values the program can hold.
TypeOK ==
  /\ runs \in [Proposals -> RunStatus]
  /\ proposals \in [Proposals -> Proposal]
  /\ experiment \in Experiment \cup {None}
  /\ call \in [Callers -> CallState]
  /\ failures \in 0..MaxFailures

\* What the matchmaking service runs is what the audit record says: the
\* proposal was approved by somebody other than its requester, with no
\* blocking risk, and the rollout in force is the one persisted, however
\* many retries, timeouts and restarts it took to get there (API.md: a retry
\* cannot change the meaning of an experiment).
ExperimentIsAudited ==
  experiment # None =>
    LET p == experiment.id IN
    /\ proposals[p].passed
    /\ proposals[p].reviewer \notin {None, Requester}
    /\ proposals[p].rollout = experiment.rollout

Successors ==
  [ABSENT |-> {"PENDING_APPROVAL"},
   PENDING_APPROVAL |-> {"APPROVED", "REJECTED"}, APPROVED |-> {"ACTIVATING"},
   ACTIVATING |-> {"ACTIVE"}, ACTIVE |-> {"ROLLING_BACK"},
   ROLLING_BACK |-> {"ROLLED_BACK"}, REJECTED |-> {}, ROLLED_BACK |-> {}]

\* A run ends once, and with a proposal only if it succeeded: a transaction
\* that was under way when the service restarted does not bring a run back
\* that was declared failed (DATABASE.md: the run and its proposal are
\* committed together; a restart fails the runs it finds RUNNING).
RunsEndOnce ==
  [][\A p \in Proposals :
       /\ runs[p] \in {"SUCCEEDED", "FAILED"} => runs'[p] = runs[p]
       /\ proposals'[p] # Absent <=> runs'[p] = "SUCCEEDED"]_vars

\* Of concurrent reviews, activations and rollbacks of one proposal only
\* one makes each transition: a decision is never overwritten by a call that
\* read the proposal earlier, and no part of the audit record is rewritten.
FirstDecisionStands ==
  [][\A p \in Proposals : proposals'[p] # proposals[p] =>
       /\ proposals'[p].state \in Successors[proposals[p].state]
       /\ proposals[p].reviewer # None =>
            proposals'[p].reviewer = proposals[p].reviewer
       /\ proposals[p].rollout # None =>
            proposals'[p].rollout = proposals[p].rollout]_vars

\* An activation interrupted between its two updates is completed once it
\* is asked for again (ARCHITECTURE.md: ACTIVATING is there for safe retry).
ActivationResolves ==
  \A p \in Proposals :
    proposals[p].state = "ACTIVATING" ~> proposals[p].state # "ACTIVATING"

\* A proposal that has been rolled back is not in force again.  A call that
\* read ACTIVATING sends its request without another look at the proposal.
RolledBackStaysOff ==
  experiment # None => proposals[experiment.id].state # "ROLLED_BACK"

=============================================================================
