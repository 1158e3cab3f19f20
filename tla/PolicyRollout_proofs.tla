------------------------- MODULE PolicyRollout_proofs -------------------------
(***************************************************************************)
(* Proofs about analysis runs and policy proposals, for any number of      *)
(* proposals, operators, rollout settings, callers and failures.           *)
(***************************************************************************)
EXTENDS PolicyRollout, TLAPS

\* The states a proposal may reach after a state.
Later ==
  [ABSENT |-> ProposalState \ {"ABSENT"},
   PENDING_APPROVAL |-> ProposalState \ {"ABSENT", "PENDING_APPROVAL"},
   APPROVED |-> {"ACTIVATING", "ACTIVE", "ROLLING_BACK", "ROLLED_BACK"},
   ACTIVATING |-> {"ACTIVE", "ROLLING_BACK", "ROLLED_BACK"},
   ACTIVE |-> {"ROLLING_BACK", "ROLLED_BACK"},
   ROLLING_BACK |-> {"ROLLED_BACK"}, REJECTED |-> {}, ROLLED_BACK |-> {}]

\* What was decided about x is still so in y.
SameDecisions(x, y) ==
  /\ x.reviewer # None => y.reviewer = x.reviewer /\ y.passed = x.passed
  /\ x.rollout # None => y.rollout = x.rollout

\* y is x after one transition, or after any number of them.
Advances(x, y) == y.state \in Successors[x.state] /\ SameDecisions(x, y)
Follows(x, y) == y = x \/ (y.state \in Later[x.state] /\ SameDecisions(x, y))

Reviewable == {"ABSENT", "PENDING_APPROVAL"}
Rolling == {"ACTIVATING", "ACTIVE", "ROLLING_BACK", "ROLLED_BACK"}

\* The record of a proposal says what its state needs, and nothing early.
Sound(x) ==
  /\ x.state = "ABSENT" <=> x = Absent
  /\ x.state \in Reviewable => x.reviewer = None
  /\ x.state \in Reviewable \cup {"APPROVED"} => x.rollout = None
  /\ x.state \in Rolling \cup {"APPROVED"} =>
       x.passed /\ x.reviewer \notin {None, Requester}
  /\ x.state \in Rolling => x.rollout # None

\* A call works on a former version of its proposal, and what it sent is what
\* it stored.
CallOK(x, versions) ==
  /\ x # NoCall /\ x.kind = "analyse" =>
       /\ x.pc \in {"tools", "complete", "failing"}
       /\ x.pc = "complete" => \E passed \in BOOLEAN : x.copy = NewProposal(passed)
  /\ x # NoCall /\ x.kind # "analyse" =>
       /\ Sound(x.copy) /\ x.copy.state # "ABSENT"
       /\ Follows(x.copy, versions[x.id])
       /\ x.pc \in {"read", "sent", "applied", "answered"}
       /\ x.pc # "read" =>
            \/ x.kind = "activate" /\ x.copy.state = "ACTIVATING"
            \/ x.kind = "rollback" /\ x.copy.state = "ROLLING_BACK"

RunsOwnProposals == \A p \in Proposals : proposals[p] # Absent <=> runs[p] = "SUCCEEDED"

\* The audit of the experiment is inductive only with what the calls that may
\* still start one know of their proposals.
IInv ==
  /\ TypeOK
  /\ RunsOwnProposals
  /\ \A p \in Proposals : Sound(proposals[p])
  /\ \A c \in Callers : CallOK(call[c], proposals)
  /\ ExperimentIsAudited

\* Before the first run there is nothing to audit.
LEMMA InitIInv == Init => IInv
  BY FailuresAssumption
  DEF Init, IInv, TypeOK, RunStatus, Proposal, ProposalState, Absent, Experiment,
      CallState, RunsOwnProposals, Sound, Reviewable, Rolling, CallOK, ExperimentIsAudited

-----------------------------------------------------------------------------
(* Versions of a proposal *)

\* A transition after any number of them is one more.
LEMMA FollowsAdvances ==
  ASSUME NEW x \in Proposal, NEW y \in Proposal, NEW z \in Proposal,
         Follows(x, y), y = z \/ Advances(y, z)
  PROVE  Follows(x, z)
<1>1. CASE y = z
  BY <1>1
<1>2. CASE Advances(y, z)
  <2>1. SameDecisions(x, z)
    BY <1>2 DEF Advances, Follows, SameDecisions
  <2>2. z.state \in Later[x.state]
    BY <1>2 DEF Advances, Follows, Later, Successors, Proposal, ProposalState
  <2>3. QED
    BY <2>1, <2>2 DEF Follows
<1>3. QED
  BY <1>1, <1>2

\* A version in the same state is the same version: states do not come back.
LEMMA SameState ==
  ASSUME NEW x \in Proposal, NEW y \in Proposal, Follows(x, y), x.state = y.state
  PROVE  x = y
  BY DEF Follows, Later, Proposal, ProposalState

Evolves == \A p \in Proposals :
  proposals'[p] = proposals[p] \/ Advances(proposals[p], proposals'[p])

\* When proposals move on, a call that goes on as it was is still sound.
LEMMA CallSurvives ==
  ASSUME IInv, Evolves, proposals' \in [Proposals -> Proposal],
         NEW x \in CallState, CallOK(x, proposals)
  PROVE  CallOK(x, proposals')
<1>1. CASE x = NoCall \/ x.kind = "analyse"
  BY <1>1 DEF CallOK
<1>2. CASE x # NoCall /\ x.kind # "analyse"
  <2>1. x.id \in Proposals /\ x.copy \in Proposal
    BY <1>2 DEF CallState
  <2>2. Follows(x.copy, proposals'[x.id])
    <3>1. proposals[x.id] \in Proposal /\ proposals'[x.id] \in Proposal
      BY <2>1 DEF IInv, TypeOK
    <3>2. Follows(x.copy, proposals[x.id])
      BY <1>2 DEF CallOK
    <3>3. proposals[x.id] = proposals'[x.id] \/ Advances(proposals[x.id], proposals'[x.id])
      BY <2>1 DEF Evolves
    <3>4. QED
      BY <2>1, <3>1, <3>2, <3>3, FollowsAdvances
  <2>3. QED
    BY <1>2, <2>2 DEF CallOK
<1>3. QED
  BY <1>1, <1>2

\* When proposals move on, the experiment in force is still audited.
LEMMA AuditSurvives ==
  ASSUME IInv, Evolves, proposals' \in [Proposals -> Proposal],
         experiment' = experiment
  PROVE  ExperimentIsAudited'
<1>1. CASE experiment = None
  BY <1>1 DEF ExperimentIsAudited
<1>2. CASE experiment # None
  <2> DEFINE p == experiment.id
  <2>1. p \in Proposals /\ experiment.rollout # None
    BY <1>2, NoneAssumption DEF IInv, TypeOK, Experiment
  <2>2. /\ proposals[p].passed
        /\ proposals[p].reviewer \notin {None, Requester}
        /\ proposals[p].rollout = experiment.rollout
    BY <1>2 DEF IInv, ExperimentIsAudited
  <2>3. SameDecisions(proposals[p], proposals'[p])
    BY <2>1 DEF Evolves, Advances, SameDecisions
  <2>4. QED
    BY <2>1, <2>2, <2>3 DEF ExperimentIsAudited, SameDecisions
<1>3. QED
  BY <1>1, <1>2

\* What a step of one call has to show.
LEMMA OneCall ==
  ASSUME IInv, NEW c \in Callers, NEW x \in CallState,
         call' = [call EXCEPT ![c] = x], CallOK(x, proposals'),
         Evolves, proposals' \in [Proposals -> Proposal],
         \A p \in Proposals : Sound(proposals'[p]),
         runs' \in [Proposals -> RunStatus], RunsOwnProposals',
         experiment' \in Experiment \cup {None}, ExperimentIsAudited',
         failures' \in 0..MaxFailures
  PROVE  IInv'
<1>1. call' \in [Callers -> CallState]
  BY DEF IInv, TypeOK
<1>2. TypeOK'
  BY <1>1 DEF TypeOK
<1>3. \A d \in Callers : CallOK(call'[d], proposals')
  <2> SUFFICES ASSUME NEW d \in Callers PROVE CallOK(call'[d], proposals')
    OBVIOUS
  <2>1. CASE d = c
    BY <2>1 DEF IInv, TypeOK
  <2>2. CASE d # c
    <3>1. call[d] \in CallState /\ call'[d] = call[d] /\ CallOK(call[d], proposals)
      BY <2>2 DEF IInv, TypeOK
    <3>2. CallOK(call[d], proposals')
      BY <3>1, CallSurvives
    <3>3. QED
      BY <3>1, <3>2
  <2>3. QED
    BY <2>1, <2>2
<1>4. QED
  BY <1>2, <1>3 DEF IInv

\* A step that only concerns the call itself.
LEMMA QuietCall ==
  ASSUME IInv, NEW c \in Callers, NEW x \in CallState,
         call' = [call EXCEPT ![c] = x], CallOK(x, proposals),
         UNCHANGED <<runs, proposals, experiment>>,
         failures' \in 0..MaxFailures
  PROVE  IInv'
<1>1. Evolves
  BY DEF Evolves
<1>2. RunsOwnProposals' /\ ExperimentIsAudited'
  BY DEF IInv, RunsOwnProposals, ExperimentIsAudited
<1>3. QED
  BY <1>1, <1>2, OneCall DEF IInv, TypeOK

\* A call that returns.
LEMMA Returns ==
  ASSUME IInv, NEW c \in Callers, Return(c),
         UNCHANGED <<runs, proposals, experiment>>,
         failures' \in 0..MaxFailures
  PROVE  IInv'
<1>1. NoCall \in CallState /\ CallOK(NoCall, proposals)
  BY DEF CallState, CallOK
<1>2. QED
  BY <1>1, QuietCall DEF Return

\* A compare-and-swap that succeeds makes one transition of the version the
\* call has read.
LEMMA StoredEvolves ==
  ASSUME IInv, NEW c \in Callers, call[c] # NoCall, call[c].kind # "analyse",
         NEW new \in Proposal, Stored(c, new),
         Advances(call[c].copy, new), Sound(new), UNCHANGED runs
  PROVE  /\ Evolves
         /\ proposals' \in [Proposals -> Proposal]
         /\ proposals'[call[c].id] = new
         /\ \A p \in Proposals : Sound(proposals'[p])
         /\ RunsOwnProposals'
<1> DEFINE i == call[c].id
<1>1. /\ i \in Proposals /\ call[c].copy \in Proposal
      /\ proposals[i] \in Proposal
      /\ CallOK(call[c], proposals)
  BY DEF IInv, TypeOK, CallState
<1>2. call[c].copy = proposals[i]
  BY <1>1, SameState DEF CallOK, Stored, Unchanged
<1>3. proposals' = [proposals EXCEPT ![i] = new]
  BY DEF Stored
<1>4. Evolves /\ proposals' \in [Proposals -> Proposal] /\ proposals'[i] = new
  BY <1>1, <1>2, <1>3 DEF IInv, TypeOK, Evolves
<1>5. \A p \in Proposals : Sound(proposals'[p])
  BY <1>1, <1>3 DEF IInv, TypeOK
<1>6. proposals[i].state # "ABSENT" /\ new.state # "ABSENT"
  BY <1>1, <1>2 DEF CallOK, Advances, Successors, Proposal, ProposalState
<1>7. proposals[i] # Absent /\ new # Absent
  BY <1>6 DEF Absent
<1>8. RunsOwnProposals'
  BY <1>1, <1>3, <1>7 DEF IInv, TypeOK, RunsOwnProposals
<1>9. QED
  BY <1>4, <1>5, <1>8

\* Such a step, after which the call goes on as x.
LEMMA StoredIInv ==
  ASSUME IInv, NEW c \in Callers, call[c] # NoCall, call[c].kind # "analyse",
         NEW new \in Proposal, Stored(c, new),
         Advances(call[c].copy, new), Sound(new),
         NEW x \in CallState, call' = [call EXCEPT ![c] = x],
         x = NoCall \/ CallOK(x, proposals'),
         UNCHANGED <<runs, experiment, failures>>
  PROVE  IInv'
<1>1. /\ Evolves
      /\ proposals' \in [Proposals -> Proposal]
      /\ \A p \in Proposals : Sound(proposals'[p])
      /\ RunsOwnProposals'
  BY StoredEvolves
<1>2. ExperimentIsAudited'
  BY <1>1, AuditSurvives
<1>3. CallOK(x, proposals')
  BY DEF CallOK
<1>4. QED
  BY <1>1, <1>2, <1>3, OneCall DEF IInv, TypeOK

-----------------------------------------------------------------------------
(* Transitions *)

\* The calls that read a proposal hold a sound copy of it.
LEMMA CopyShape ==
  ASSUME IInv, NEW c \in Callers, call[c] # NoCall
  PROVE  /\ call[c] \in [pc : PC, kind : Kind \cup {"analyse"}, id : Proposals,
                         copy : Proposal, gone : BOOLEAN,
                         answer : Proposals \cup {None}]
         /\ CallOK(call[c], proposals)
         /\ call[c].kind # "analyse" => Sound(call[c].copy)
  BY DEF IInv, TypeOK, CallState, CallOK

\* A review moves a pending proposal, and approves it by the rules.
LEMMA ReviewedAdvances ==
  ASSUME NEW x \in Proposal, Sound(x), x.state = "PENDING_APPROVAL",
         NEW operator \in Operators, NEW approve \in BOOLEAN,
         CanReview(x, operator, approve)
  PROVE  /\ Reviewed(x, operator, approve) \in Proposal
         /\ Sound(Reviewed(x, operator, approve))
         /\ Advances(x, Reviewed(x, operator, approve))
<1> DEFINE y == Reviewed(x, operator, approve)
<1>1. y \in Proposal
  BY DEF Proposal, ProposalState, Reviewed
<1>2. /\ y.state \in {"APPROVED", "REJECTED"}
      /\ y.state = "APPROVED" => x.passed
      /\ y.passed = x.passed /\ y.reviewer = operator /\ y.rollout = x.rollout
  BY DEF Proposal, Reviewed, CanReview
<1> HIDE DEF y
<1>3. Advances(x, y)
  BY <1>2 DEF Advances, SameDecisions, Successors, Sound, Reviewable
<1>4. y # Absent
  BY <1>2 DEF Absent
<1>5. Sound(y)
  BY <1>2, <1>4, NoneAssumption DEF CanReview, Sound, Reviewable, Rolling
<1>6. QED
  BY <1>1, <1>3, <1>5 DEF y

\* An activation stores its settings with the approved proposal.
LEMMA ActivatingAdvances ==
  ASSUME NEW x \in Proposal, Sound(x), x.state = "APPROVED", NEW r \in Rollouts
  PROVE  /\ Activating(x, r) \in Proposal
         /\ Sound(Activating(x, r))
         /\ Advances(x, Activating(x, r))
<1> DEFINE y == Activating(x, r)
<1>1. y \in Proposal
  BY DEF Proposal, ProposalState, Activating
<1>2. /\ y.state = "ACTIVATING" /\ y.passed = x.passed
      /\ y.reviewer = x.reviewer /\ y.rollout = r
  BY DEF Proposal, Activating
<1> HIDE DEF y
<1>3. Advances(x, y)
  BY <1>2 DEF Advances, SameDecisions, Successors, Sound, Reviewable
<1>4. y # Absent
  BY <1>2 DEF Absent
<1>5. Sound(y)
  BY <1>2, <1>4, NoneAssumption DEF Sound, Reviewable, Rolling
<1>6. QED
  BY <1>1, <1>3, <1>5 DEF y

\* Its answer completes it.
LEMMA ActivatedAdvances ==
  ASSUME NEW x \in Proposal, Sound(x), x.state = "ACTIVATING", NEW id \in Proposals
  PROVE  /\ Activated(x, id) \in Proposal
         /\ Sound(Activated(x, id))
         /\ Advances(x, Activated(x, id))
<1> DEFINE y == Activated(x, id)
<1>1. y \in Proposal
  BY DEF Proposal, ProposalState, Activated
<1>2. /\ y.state = "ACTIVE" /\ y.passed = x.passed
      /\ y.reviewer = x.reviewer /\ y.rollout = x.rollout
  BY DEF Proposal, Activated
<1> HIDE DEF y
<1>3. Advances(x, y)
  BY <1>2 DEF Advances, SameDecisions, Successors, Sound, Reviewable
<1>4. y # Absent
  BY <1>2 DEF Absent
<1>5. Sound(y)
  BY <1>2, <1>4 DEF Sound, Reviewable, Rolling
<1>6. QED
  BY <1>1, <1>3, <1>5 DEF y

\* A rollback only changes the state.
LEMMA RollbackAdvances ==
  ASSUME NEW x \in Proposal, Sound(x), NEW s,
         \/ x.state = "ACTIVE" /\ s = "ROLLING_BACK"
         \/ x.state = "ROLLING_BACK" /\ s = "ROLLED_BACK"
  PROVE  /\ InState(x, s) \in Proposal
         /\ Sound(InState(x, s))
         /\ Advances(x, InState(x, s))
<1> DEFINE y == InState(x, s)
<1>1. y \in Proposal
  BY DEF Proposal, ProposalState, InState
<1>2. /\ y.state = s /\ y.passed = x.passed
      /\ y.reviewer = x.reviewer /\ y.rollout = x.rollout
  BY DEF Proposal, InState
<1> HIDE DEF y
<1>3. Advances(x, y)
  BY <1>2 DEF Advances, SameDecisions, Successors, Sound, Reviewable
<1>4. y # Absent
  BY <1>2 DEF Absent
<1>5. Sound(y)
  BY <1>2, <1>4 DEF Sound, Reviewable, Rolling
<1>6. QED
  BY <1>1, <1>3, <1>5 DEF y

-----------------------------------------------------------------------------
(* The steps of a call *)

\* Calls that begin.
LEMMA StartCallIInv ==
  ASSUME IInv, NEW c \in Callers, NEW p \in Proposals, NEW kind \in Kind,
         StartCall(c, p, kind)
  PROVE  IInv'
<1> DEFINE x == [pc |-> "read", kind |-> kind, id |-> p, copy |-> proposals[p],
                 gone |-> FALSE, answer |-> None]
<1>1. proposals[p] \in Proposal /\ Sound(proposals[p]) /\ proposals[p] # Absent
  BY DEF IInv, TypeOK, StartCall
<1>2. x \in CallState
  BY <1>1 DEF CallState, PC
<1>3. CallOK(x, proposals)
  BY <1>1 DEF CallOK, Follows, Kind, Sound
<1>4. call' = [call EXCEPT ![c] = x] /\ UNCHANGED <<runs, proposals, experiment, failures>>
  BY DEF StartCall
<1>5. failures' \in 0..MaxFailures
  BY <1>4 DEF IInv, TypeOK
<1> HIDE DEF x
<1>6. QED
  BY <1>2, <1>3, <1>4, <1>5, QuietCall

\* Runs that begin.
LEMMA StartRunIInv ==
  ASSUME IInv, NEW c \in Callers, NEW p \in Proposals, StartRun(c, p)
  PROVE  IInv'
<1> DEFINE x == [pc |-> "tools", kind |-> "analyse", id |-> p, copy |-> Absent,
                 gone |-> FALSE, answer |-> None]
<1>1. x \in CallState
  BY DEF CallState, PC, Absent, Proposal, ProposalState
<1>2. CallOK(x, proposals')
  BY DEF CallOK, NoCall
<1>3. call' = [call EXCEPT ![c] = x] /\ UNCHANGED <<proposals, experiment, failures>>
  BY DEF StartRun
<1>4. runs' \in [Proposals -> RunStatus] /\ RunsOwnProposals'
  BY <1>3 DEF StartRun, IInv, TypeOK, RunStatus, RunsOwnProposals
<1>5. Evolves /\ ExperimentIsAudited'
  BY <1>3 DEF Evolves, IInv, ExperimentIsAudited
<1> HIDE DEF x
<1>6. QED
  BY <1>1, <1>2, <1>3, <1>4, <1>5, OneCall DEF IInv, TypeOK

\* The steps of an analysis.
LEMMA AnalysisIInv ==
  ASSUME IInv, NEW c \in Callers, AnalysisStep(c)
  PROVE  IInv'
<1> DEFINE p == call[c].id
<1>1. call[c] # NoCall /\ call[c].kind = "analyse"
  BY DEF AnalysisStep, ToolFails, AssessRisk, CompleteRun, FailRun, RunConflict,
         Analyses, At, NoCall
<1>2. p \in Proposals /\ CallOK(call[c], proposals)
  BY <1>1, CopyShape
<1>3. CASE ToolFails(c)
  <2> DEFINE x == [call[c] EXCEPT !.pc = "failing"]
  <2>1. x \in CallState /\ CallOK(x, proposals)
    BY <1>1, CopyShape DEF CallState, PC, CallOK
  <2>2. call' = [call EXCEPT ![c] = x] /\ UNCHANGED <<runs, proposals, experiment, failures>>
    BY <1>3 DEF ToolFails
  <2> HIDE DEF x
  <2>3. QED
    BY <2>1, <2>2, QuietCall DEF IInv, TypeOK
<1>4. CASE AssessRisk(c)
  <2>1. PICK passed \in BOOLEAN :
          call' = [call EXCEPT ![c].pc = "complete", ![c].copy = NewProposal(passed)]
    BY <1>4 DEF AssessRisk
  <2> DEFINE x == [call[c] EXCEPT !.pc = "complete", !.copy = NewProposal(passed)]
  <2>2. NewProposal(passed) \in Proposal
    BY DEF NewProposal, Absent, Proposal, ProposalState
  <2>3. x \in CallState
    BY <1>1, <2>2, CopyShape DEF CallState, PC
  <2>4. CallOK(x, proposals)
    BY <1>1, CopyShape DEF CallOK
  <2>5. call' = [call EXCEPT ![c] = x] /\ UNCHANGED <<runs, proposals, experiment, failures>>
    BY <1>4, <2>1 DEF AssessRisk
  <2> HIDE DEF x
  <2>6. QED
    BY <2>3, <2>4, <2>5, QuietCall DEF IInv, TypeOK
<1>5. CASE CompleteRun(c)
  <2>1. runs[p] = "RUNNING" /\ proposals[p] = Absent
    BY <1>2, <1>5 DEF CompleteRun, StillRunning, IInv, RunsOwnProposals
  <2>2. PICK passed \in BOOLEAN : call[c].copy = NewProposal(passed)
    BY <1>1, <1>2, <1>5 DEF CompleteRun, Analyses, At, CallOK
  <2> DEFINE new == NewProposal(passed)
  <2>3. /\ new \in Proposal /\ new.state = "PENDING_APPROVAL"
        /\ new.reviewer = None /\ new.rollout = None
    BY DEF NewProposal, Absent, Proposal, ProposalState
  <2>4. /\ proposals' = [proposals EXCEPT ![p] = new]
        /\ runs' = [runs EXCEPT ![p] = "SUCCEEDED"]
        /\ Return(c) /\ UNCHANGED <<experiment, failures>>
    BY <1>5, <2>2 DEF CompleteRun
  <2> HIDE DEF new
  <2>5. new # Absent /\ Sound(new) /\ Advances(Absent, new)
    BY <2>3 DEF Sound, Reviewable, Rolling, Advances, SameDecisions, Successors, Absent
  <2>6. /\ Evolves /\ proposals' \in [Proposals -> Proposal]
        /\ \A q \in Proposals : Sound(proposals'[q])
    BY <1>2, <2>1, <2>3, <2>4, <2>5 DEF Evolves, IInv, TypeOK
  <2>7. runs' \in [Proposals -> RunStatus] /\ RunsOwnProposals'
    BY <1>2, <2>4, <2>5 DEF IInv, TypeOK, RunStatus, RunsOwnProposals
  <2>8. ExperimentIsAudited'
    BY <2>4, <2>6, AuditSurvives
  <2>9. NoCall \in CallState /\ CallOK(NoCall, proposals')
    BY DEF CallState, CallOK
  <2>10. QED
    BY <2>4, <2>6, <2>7, <2>8, <2>9, OneCall DEF Return, IInv, TypeOK
<1>6. CASE FailRun(c)
  <2>1. runs' = [runs EXCEPT ![p] = "FAILED"] /\ runs[p] = "RUNNING"
    BY <1>6 DEF FailRun, StillRunning
  <2>2. Return(c) /\ UNCHANGED <<proposals, experiment, failures>>
    BY <1>6 DEF FailRun
  <2>3. runs' \in [Proposals -> RunStatus] /\ RunsOwnProposals'
    BY <1>2, <2>1, <2>2 DEF IInv, TypeOK, RunStatus, RunsOwnProposals
  <2>4. Evolves /\ ExperimentIsAudited'
    BY <2>2 DEF Evolves, IInv, ExperimentIsAudited
  <2>5. NoCall \in CallState /\ CallOK(NoCall, proposals')
    BY DEF CallState, CallOK
  <2>6. QED
    BY <2>2, <2>3, <2>4, <2>5, OneCall DEF Return, IInv, TypeOK
<1>7. CASE RunConflict(c)
  BY <1>7, Returns DEF RunConflict, IInv, TypeOK
<1>8. QED
  BY <1>3, <1>4, <1>5, <1>6, <1>7 DEF AnalysisStep

\* Reviews.
LEMMA ReviewIInv ==
  ASSUME IInv, NEW c \in Callers, NEW operator \in Operators, NEW approve \in BOOLEAN,
         Review(c, approve, operator)
  PROVE  IInv' /\ Evolves
<1> DEFINE x == call[c].copy
           new == Reviewed(x, operator, approve)
<1>1. /\ call[c] # NoCall /\ call[c].kind # "analyse"
      /\ x.state = "PENDING_APPROVAL" /\ CanReview(x, operator, approve)
      /\ Stored(c, new) /\ Return(c) /\ UNCHANGED <<runs, experiment, failures>>
  BY DEF Review, At, NoCall
<1>2. x \in Proposal /\ Sound(x)
  BY <1>1, CopyShape
<1>3. new \in Proposal /\ Sound(new) /\ Advances(x, new)
  BY <1>1, <1>2, ReviewedAdvances
<1>4. NoCall \in CallState /\ call' = [call EXCEPT ![c] = NoCall]
  BY <1>1 DEF CallState, Return
<1> HIDE DEF new
<1>5. QED
  BY <1>1, <1>3, <1>4, StoredIInv, StoredEvolves

\* The steps that change nothing but the call, or end it.
LEMMA EndsIInv ==
  ASSUME IInv, NEW c \in Callers, Refuse(c) \/ Conflict(c) \/ Lost(c)
  PROVE  IInv'
  BY Returns DEF Refuse, Conflict, Lost, IInv, TypeOK

\* A call that resumes sends what an earlier one stored.
LEMMA ResumeIInv ==
  ASSUME IInv, NEW c \in Callers, Resume(c)
  PROVE  IInv'
<1> DEFINE x == [call[c] EXCEPT !.pc = "sent", !.copy = call[c].copy]
<1>1. call[c] # NoCall /\ call[c].pc = "read" /\ Resumes(c)
  BY DEF Resume, NoCall
<1>2. /\ call' = [call EXCEPT ![c] = x]
      /\ UNCHANGED <<runs, proposals, experiment, failures>>
  BY DEF Resume, Send, ResumedCopy
<1>3. x \in CallState
  BY <1>1, CopyShape DEF CallState, PC
<1>4. CallOK(x, proposals)
  BY <1>1, CopyShape DEF CallOK, Resumes, PC
<1> HIDE DEF x
<1>5. QED
  BY <1>2, <1>3, <1>4, QuietCall DEF IInv, TypeOK

\* The first update of an activation or a rollback, with the request that follows.
LEMMA BeginIInv ==
  ASSUME IInv, NEW c \in Callers, call[c].pc = "read",
         NEW new \in Proposal, Stored(c, new), Send(c, new),
         Advances(call[c].copy, new), Sound(new),
         \/ call[c].kind = "activate" /\ new.state = "ACTIVATING"
         \/ call[c].kind = "rollback" /\ new.state = "ROLLING_BACK",
         UNCHANGED <<runs, experiment, failures>>
  PROVE  IInv' /\ Evolves
<1> DEFINE x == [call[c] EXCEPT !.pc = "sent", !.copy = new]
<1>1. call[c] # NoCall /\ call[c].kind # "analyse"
  BY DEF NoCall
<1>2. Evolves /\ proposals'[call[c].id] = new
  BY <1>1, StoredEvolves
<1>3. call' = [call EXCEPT ![c] = x]
  BY DEF Send
<1>4. /\ x \in CallState /\ x.pc = "sent" /\ x.copy = new
      /\ x.kind = call[c].kind /\ x.id = call[c].id
  BY <1>1, CopyShape DEF CallState, PC
<1>5. CallOK(x, proposals')
  BY <1>1, <1>2, <1>4 DEF CallOK, Follows
<1> HIDE DEF x
<1>6. QED
  BY <1>1, <1>2, <1>3, <1>4, <1>5, StoredIInv

\* The answer of the matchmaking service, whether somebody waits for it or not.
LEMMA AnswerIInv ==
  ASSUME IInv, NEW c \in Callers, call[c].pc \in {"sent", "applied"},
         call[c].kind # "analyse", NEW id \in Proposals \cup {None}, Answer(c, id),
         UNCHANGED <<runs, proposals, failures>>,
         experiment' \in Experiment \cup {None}, ExperimentIsAudited'
  PROVE  IInv'
<1> DEFINE y == [call[c] EXCEPT !.pc = "answered", !.answer = id]
           x == IF call[c].gone THEN NoCall ELSE y
<1>1. call[c] # NoCall
  BY DEF NoCall
<1>2. y \in CallState /\ CallOK(y, proposals')
  BY <1>1, CopyShape DEF CallState, PC, CallOK
<1>3. NoCall \in CallState /\ CallOK(NoCall, proposals')
  BY DEF CallState, CallOK
<1>4. x \in CallState /\ CallOK(x, proposals') /\ call' = [call EXCEPT ![c] = x]
  BY <1>2, <1>3 DEF Answer
<1>5. Evolves /\ RunsOwnProposals'
  BY DEF Evolves, IInv, RunsOwnProposals
<1> HIDE DEF x
<1>6. QED
  BY <1>4, <1>5, OneCall DEF IInv, TypeOK

\* The handler of a request goes on to its second use of the registry.
LEMMA AppliedIInv ==
  ASSUME IInv, NEW c \in Callers, call[c].pc = "sent", call[c].kind # "analyse",
         call' = [call EXCEPT ![c].pc = "applied"],
         UNCHANGED <<runs, proposals, failures>>,
         experiment' \in Experiment \cup {None}, ExperimentIsAudited'
  PROVE  IInv'
<1> DEFINE x == [call[c] EXCEPT !.pc = "applied"]
<1>1. call[c] # NoCall
  BY DEF NoCall
<1>2. x \in CallState /\ CallOK(x, proposals')
  BY <1>1, CopyShape DEF CallState, PC, CallOK
<1>3. Evolves /\ RunsOwnProposals' /\ call' = [call EXCEPT ![c] = x]
  BY DEF Evolves, IInv, RunsOwnProposals
<1> HIDE DEF x
<1>4. QED
  BY <1>2, <1>3, OneCall DEF IInv, TypeOK

\* Activations.
LEMMA ActivateIInv ==
  ASSUME IInv, NEW c \in Callers, ActivateStep(c)
  PROVE  IInv' /\ Evolves
<1> DEFINE x == call[c].copy
<1>1. call[c] # NoCall /\ call[c].kind = "activate"
  BY DEF ActivateStep, BeginActivation, Register, AnswerActivation, CompleteActivation,
         NoExperiment, At, NoCall
<1>2. x \in Proposal /\ Sound(x) /\ CallOK(call[c], proposals) /\ call[c].id \in Proposals
  BY <1>1, CopyShape
<1>3. CASE BeginActivation(c)
  <2> DEFINE new == Activating(x, Settings[c])
  <2>1. /\ call[c].pc = "read" /\ x.state = "APPROVED"
        /\ Stored(c, new) /\ Send(c, new) /\ UNCHANGED <<runs, experiment, failures>>
    BY <1>3 DEF BeginActivation, At
  <2>2. new \in Proposal /\ Sound(new) /\ Advances(x, new)
    BY <1>2, <2>1, SettingsAssumption, ActivatingAdvances
  <2>3. new.state = "ACTIVATING"
    BY <1>2 DEF Activating, Proposal
  <2> HIDE DEF new
  <2>4. QED
    BY <1>1, <2>1, <2>2, <2>3, BeginIInv
<1>4. CASE Register(c)
  <2>1. call[c].pc = "sent" /\ UNCHANGED <<runs, proposals, failures>>
    BY <1>4 DEF Register, At
  <2>2. Evolves
    BY <2>1 DEF Evolves
  <2>3. CASE SameIdOtherSettings(Requested(c))
    BY <1>4, <2>1, <2>2, <2>3, Returns DEF Register, IInv, TypeOK
  <2>4. CASE ~SameIdOtherSettings(Requested(c))
    <3>1. /\ experiment' = Requested(c)
          /\ call' = [call EXCEPT ![c].pc = "applied"]
      BY <1>4, <2>4 DEF Register
    <3>2. x.state = "ACTIVATING" /\ Follows(x, proposals[call[c].id])
      BY <1>1, <1>2, <2>1 DEF CallOK
    <3>3. /\ x.passed /\ x.reviewer \notin {None, Requester} /\ x.rollout # None
      BY <1>2, <3>2 DEF Sound, Rolling
    <3>4. SameDecisions(x, proposals[call[c].id])
      BY <3>2 DEF Follows, SameDecisions
    <3>5. experiment' \in Experiment
      BY <1>2, <3>1, <3>3 DEF Requested, Experiment, Proposal
    <3>6. ExperimentIsAudited'
      BY <2>1, <3>1, <3>3, <3>4 DEF ExperimentIsAudited, Requested, SameDecisions
    <3>7. QED
      BY <1>1, <2>1, <2>2, <3>1, <3>5, <3>6, AppliedIInv
  <2>5. QED
    BY <2>3, <2>4
<1>5. CASE AnswerActivation(c)
  <2>1. PICK id : id = (IF experiment = None THEN None ELSE experiment.id) /\ Answer(c, id)
    BY <1>5 DEF AnswerActivation
  <2>2. id \in Proposals \cup {None}
    BY <2>1 DEF IInv, TypeOK, Experiment
  <2>3. /\ call[c].pc = "applied" /\ UNCHANGED <<runs, proposals, experiment, failures>>
        /\ Evolves
    BY <1>5 DEF AnswerActivation, At, Evolves
  <2>4. QED
    BY <1>1, <2>1, <2>2, <2>3, AnswerIInv DEF IInv, TypeOK, ExperimentIsAudited
<1>6. CASE CompleteActivation(c)
  <2> DEFINE new == Activated(x, call[c].answer)
  <2>1. /\ call[c].pc = "answered" /\ Stored(c, new) /\ Return(c)
        /\ call[c].answer # None /\ UNCHANGED <<runs, experiment, failures>>
    BY <1>6 DEF CompleteActivation, At
  <2>2. x.state = "ACTIVATING" /\ call[c].answer \in Proposals
    BY <1>1, <1>2, <2>1, CopyShape DEF CallOK
  <2>3. new \in Proposal /\ Sound(new) /\ Advances(x, new)
    BY <1>2, <2>2, ActivatedAdvances
  <2>4. NoCall \in CallState /\ call' = [call EXCEPT ![c] = NoCall]
    BY <2>1 DEF CallState, Return
  <2> HIDE DEF new
  <2>5. QED
    BY <1>1, <2>1, <2>3, <2>4, StoredIInv, StoredEvolves
<1>7. CASE NoExperiment(c)
  BY <1>7, Returns DEF NoExperiment, IInv, TypeOK, Evolves
<1>8. QED
  BY <1>3, <1>4, <1>5, <1>6, <1>7 DEF ActivateStep

\* Rollbacks.
LEMMA RollbackIInv ==
  ASSUME IInv, NEW c \in Callers, RollbackStep(c)
  PROVE  IInv' /\ Evolves
<1> DEFINE x == call[c].copy
<1>1. call[c] # NoCall /\ call[c].kind = "rollback"
  BY DEF RollbackStep, BeginRollback, StopExperiment, NotInForce, ReportRollback,
         CompleteRollback, At, NoCall
<1>2. x \in Proposal /\ Sound(x) /\ CallOK(call[c], proposals)
  BY <1>1, CopyShape
<1>3. CASE BeginRollback(c)
  <2> DEFINE new == InState(x, "ROLLING_BACK")
  <2>1. /\ call[c].pc = "read" /\ x.state = "ACTIVE"
        /\ Stored(c, new) /\ Send(c, new) /\ UNCHANGED <<runs, experiment, failures>>
    BY <1>3 DEF BeginRollback, At
  <2>2. new \in Proposal /\ Sound(new) /\ Advances(x, new)
    BY <1>2, <2>1, RollbackAdvances
  <2>3. new.state = "ROLLING_BACK"
    BY <1>2 DEF InState, Proposal
  <2> HIDE DEF new
  <2>4. QED
    BY <1>1, <2>1, <2>2, <2>3, BeginIInv
<1>4. CASE StopExperiment(c)
  <2>1. /\ call[c].pc = "sent" /\ experiment' = None /\ Answer(c, None)
        /\ UNCHANGED <<runs, proposals, failures>>
    BY <1>4 DEF StopExperiment, At
  <2>2. ExperimentIsAudited' /\ Evolves
    BY <2>1 DEF ExperimentIsAudited, Evolves
  <2>3. QED
    BY <1>1, <2>1, <2>2, AnswerIInv
<1>5. CASE NotInForce(c)
  <2>1. /\ call[c].pc = "sent" /\ UNCHANGED <<runs, proposals, experiment, failures>>
        /\ call' = [call EXCEPT ![c].pc = "applied"]
    BY <1>5 DEF NotInForce, At
  <2>2. QED
    BY <1>1, <2>1, AppliedIInv DEF IInv, TypeOK, ExperimentIsAudited, Evolves
<1>6. CASE ReportRollback(c)
  <2>1. /\ call[c].pc = "applied" /\ UNCHANGED <<runs, proposals, experiment, failures>>
        /\ Answer(c, None) \/ Return(c)
    BY <1>6 DEF ReportRollback, At
  <2>2. ExperimentIsAudited' /\ Evolves /\ failures' \in 0..MaxFailures
    BY <2>1 DEF IInv, TypeOK, ExperimentIsAudited, Evolves
  <2>3. CASE Answer(c, None)
    BY <1>1, <2>1, <2>2, <2>3, AnswerIInv DEF IInv, TypeOK
  <2>4. CASE Return(c)
    BY <2>1, <2>2, <2>4, Returns
  <2>5. QED
    BY <2>1, <2>3, <2>4
<1>7. CASE CompleteRollback(c)
  <2> DEFINE new == InState(x, "ROLLED_BACK")
  <2>1. /\ call[c].pc = "answered" /\ Stored(c, new) /\ Return(c)
        /\ UNCHANGED <<runs, experiment, failures>>
    BY <1>7 DEF CompleteRollback, At
  <2>2. x.state = "ROLLING_BACK"
    BY <1>1, <1>2, <2>1 DEF CallOK
  <2>3. new \in Proposal /\ Sound(new) /\ Advances(x, new)
    BY <1>2, <2>2, RollbackAdvances
  <2>4. NoCall \in CallState /\ call' = [call EXCEPT ![c] = NoCall]
    BY <2>1 DEF CallState, Return
  <2> HIDE DEF new
  <2>5. QED
    BY <1>1, <2>1, <2>3, <2>4, StoredIInv, StoredEvolves
<1>8. QED
  BY <1>3, <1>4, <1>5, <1>6, <1>7 DEF RollbackStep

-----------------------------------------------------------------------------
(* Failures *)

\* What a call leaves behind is as sound as the call.
LEMMA LeftBehindOK ==
  ASSUME IInv, NEW c \in Callers
  PROVE  LeftBehind(c) \in CallState /\ CallOK(LeftBehind(c), proposals)
<1>1. CASE LeftBehind(c) = NoCall
  BY <1>1 DEF CallState, CallOK
<1>2. CASE LeftBehind(c) # NoCall
  <2>1. call[c] # NoCall /\ LeftBehind(c) = [call[c] EXCEPT !.gone = TRUE]
    BY <1>2 DEF LeftBehind
  <2>2. LeftBehind(c) \in CallState
    BY <2>1, CopyShape DEF CallState
  <2>3. CallOK(LeftBehind(c), proposals)
    BY <2>1, CopyShape DEF CallOK
  <2>4. QED
    BY <2>2, <2>3
<1>3. QED
  BY <1>1, <1>2

\* A call that times out.
LEMMA AbandonIInv ==
  ASSUME IInv, NEW c \in Callers, Abandon(c)
  PROVE  IInv'
<1>1. LeftBehind(c) \in CallState /\ CallOK(LeftBehind(c), proposals)
  BY LeftBehindOK
<1>2. failures' \in 0..MaxFailures
  BY FailuresAssumption DEF Abandon, IInv, TypeOK
<1>3. QED
  BY <1>1, <1>2, QuietCall DEF Abandon

\* A restart of the matchmaking service.
LEMMA RestartIInv ==
  ASSUME IInv, Restart
  PROVE  IInv'
<1>1. experiment' = None /\ UNCHANGED <<runs, proposals>>
  BY DEF Restart
<1>2. failures' \in 0..MaxFailures
  BY FailuresAssumption DEF Restart, IInv, TypeOK
<1>3. /\ call' \in [Callers -> CallState]
      /\ \A c \in Callers : call'[c] \in {call[c], NoCall}
  BY DEF Restart, IInv, TypeOK, CallState
<1>4. TypeOK'
  BY <1>1, <1>2, <1>3 DEF IInv, TypeOK
<1>5. \A c \in Callers : CallOK(call'[c], proposals)
  BY <1>3 DEF IInv, CallOK
<1>6. QED
  BY <1>1, <1>4, <1>5 DEF IInv, RunsOwnProposals, ExperimentIsAudited

\* A restart of the agent service: the runs it fails have no proposal.
LEMMA RestartAgentIInv ==
  ASSUME IInv, RestartAgent
  PROVE  IInv'
<1>1. UNCHANGED <<proposals, experiment>>
  BY DEF RestartAgent
<1>2. failures' \in 0..MaxFailures
  BY FailuresAssumption DEF RestartAgent, IInv, TypeOK
<1>3. \A c \in Callers : LeftBehind(c) \in CallState /\ CallOK(LeftBehind(c), proposals)
  BY LeftBehindOK
<1>4. /\ call' \in [Callers -> CallState]
      /\ \A c \in Callers : CallOK(call'[c], proposals)
  BY <1>3 DEF RestartAgent
<1>5. runs' \in [Proposals -> RunStatus]
  BY DEF RestartAgent, IInv, TypeOK, RunStatus
<1>6. \A p \in Proposals : runs'[p] = "SUCCEEDED" <=> runs[p] = "SUCCEEDED"
  BY DEF RestartAgent
<1>7. TypeOK'
  BY <1>1, <1>2, <1>4, <1>5 DEF IInv, TypeOK
<1>8. QED
  BY <1>1, <1>4, <1>6, <1>7 DEF IInv, RunsOwnProposals, ExperimentIsAudited

-----------------------------------------------------------------------------
(* The specification *)

\* Every step keeps the invariant.
LEMMA NextIInv == IInv /\ [Next]_vars => IInv'
<1> SUFFICES ASSUME IInv, [Next]_vars PROVE IInv'
  OBVIOUS
<1>1. CASE \E c \in Callers, p \in Proposals :
             StartRun(c, p) \/ \E kind \in Kind : StartCall(c, p, kind)
  BY <1>1, StartRunIInv, StartCallIInv
<1>2. ASSUME NEW c \in Callers, CallStep(c) PROVE IInv'
  BY <1>2, EndsIInv, ResumeIInv, ReviewIInv, AnalysisIInv, ActivateIInv, RollbackIInv
  DEF CallStep
<1>3. CASE \E c \in Callers : Abandon(c) \/ Lost(c)
  BY <1>3, AbandonIInv, EndsIInv
<1>4. CASE Restart \/ RestartAgent
  BY <1>4, RestartIInv, RestartAgentIInv
<1>5. CASE UNCHANGED vars
  BY <1>5 DEF vars, IInv, TypeOK, RunsOwnProposals, ExperimentIsAudited
<1>6. QED
  BY <1>1, <1>2, <1>3, <1>4, <1>5 DEF Next

\* An analysis makes its proposal from nothing, and ends its run.
LEMMA AnalysisEnds ==
  ASSUME IInv, NEW c \in Callers, AnalysisStep(c)
  PROVE  /\ Evolves
         /\ \A p \in Proposals : runs'[p] = runs[p] \/ runs[p] = "RUNNING"
<1>1. CASE CompleteRun(c)
  <2> DEFINE p == call[c].id
  <2>1. call[c] # NoCall /\ call[c].kind = "analyse" /\ call[c].pc = "complete"
    BY <1>1 DEF CompleteRun, Analyses, At, NoCall
  <2>2. p \in Proposals /\ CallOK(call[c], proposals)
    BY <2>1, CopyShape
  <2>3. PICK passed \in BOOLEAN : call[c].copy = NewProposal(passed)
    BY <2>1, <2>2 DEF CallOK
  <2>4. /\ runs[p] = "RUNNING" /\ proposals[p] = Absent
        /\ runs' = [runs EXCEPT ![p] = "SUCCEEDED"]
        /\ proposals' = [proposals EXCEPT ![p] = NewProposal(passed)]
    BY <1>1, <2>2, <2>3 DEF CompleteRun, StillRunning, IInv, RunsOwnProposals
  <2>5. Advances(Absent, NewProposal(passed))
    BY DEF Advances, SameDecisions, Successors, NewProposal, Absent
  <2>6. QED
    BY <2>2, <2>4, <2>5 DEF Evolves, IInv, TypeOK
<1>2. CASE FailRun(c)
  BY <1>2 DEF FailRun, StillRunning, Evolves, IInv, TypeOK
<1>3. CASE ToolFails(c) \/ AssessRisk(c) \/ RunConflict(c)
  BY <1>3 DEF ToolFails, AssessRisk, RunConflict, Evolves
<1>4. QED
  BY <1>1, <1>2, <1>3 DEF AnalysisStep

\* A step changes a proposal by one transition at most, and no run that ended.
LEMMA NextEvolves ==
  ASSUME IInv, [Next]_vars
  PROVE  /\ Evolves
         /\ \A p \in Proposals : runs'[p] = runs[p] \/ runs[p] \in {"NONE", "RUNNING"}
<1>1. CASE \E c \in Callers, p \in Proposals :
             StartRun(c, p) \/ \E kind \in Kind : StartCall(c, p, kind)
  BY <1>1 DEF StartRun, StartCall, Evolves, IInv, TypeOK
<1>2. ASSUME NEW c \in Callers, CallStep(c)
      PROVE  /\ Evolves
             /\ \A p \in Proposals : runs'[p] = runs[p] \/ runs[p] \in {"NONE", "RUNNING"}
  <2>1. CASE AnalysisStep(c)
    BY <2>1, AnalysisEnds
  <2>2. CASE Refuse(c) \/ Conflict(c) \/ Resume(c)
    BY <2>2 DEF Refuse, Conflict, Resume, Evolves
  <2>3. CASE \E operator \in Operators, approve \in BOOLEAN : Review(c, approve, operator)
    BY <2>3, ReviewIInv DEF Review
  <2>4. CASE ActivateStep(c)
    BY <2>4, ActivateIInv
    DEF ActivateStep, BeginActivation, Register, AnswerActivation, CompleteActivation,
        NoExperiment
  <2>5. CASE RollbackStep(c)
    BY <2>5, RollbackIInv
    DEF RollbackStep, BeginRollback, StopExperiment, NotInForce, ReportRollback,
        CompleteRollback
  <2>6. QED
    BY <1>2, <2>1, <2>2, <2>3, <2>4, <2>5 DEF CallStep
<1>3. CASE \E c \in Callers : Abandon(c) \/ Lost(c)
  BY <1>3 DEF Abandon, Lost, Evolves
<1>4. CASE Restart \/ RestartAgent
  BY <1>4 DEF Restart, RestartAgent, Evolves
<1>5. CASE UNCHANGED vars
  BY <1>5 DEF vars, Evolves
<1>6. QED
  BY <1>1, <1>2, <1>3, <1>4, <1>5 DEF Next

\* The invariant holds throughout: in particular a call always works on a
\* former version of its proposal.
THEOREM InvariantHolds == Spec => []IInv
  BY InitIInv, NextIInv, PTL DEF Spec

\* The experiment the matchmaking service runs is approved, by somebody other
\* than its requester, with no blocking risk and with the persisted rollout,
\* whatever calls overlap, time out, are retried or lose their service.
THEOREM ExperimentAudited == Spec => []ExperimentIsAudited
<1>1. IInv => ExperimentIsAudited
  BY DEF IInv
<1>2. QED
  BY <1>1, InvariantHolds, PTL

\* A run ends once, and has a proposal exactly when it succeeded: the
\* compare-and-swap of CompleteAnalysis and FailRun on RUNNING is enough, even
\* for the transaction that commits after the restart declared the run failed.
THEOREM RunEndsOnce == Spec => RunsEndOnce
<1> DEFINE Step == \A p \in Proposals :
      /\ runs[p] \in {"SUCCEEDED", "FAILED"} => runs'[p] = runs[p]
      /\ proposals'[p] # Absent <=> runs'[p] = "SUCCEEDED"
<1>1. IInv /\ [Next]_vars => [Step]_vars
  <2> SUFFICES ASSUME IInv, [Next]_vars PROVE Step
    OBVIOUS
  <2>1. IInv'
    BY NextIInv
  <2>2. \A p \in Proposals : proposals'[p] # Absent <=> runs'[p] = "SUCCEEDED"
    BY <2>1 DEF IInv, RunsOwnProposals
  <2>3. QED
    BY <2>2, NextEvolves
<1>2. QED
  BY <1>1, InvariantHolds, PTL DEF Spec, RunsEndOnce

\* Of concurrent reviews, activations and rollbacks one makes each transition,
\* and what was decided is never rewritten: the condition on the state is
\* enough although every call stores the whole row it read earlier.
THEOREM DecisionStands == Spec => FirstDecisionStands
<1> DEFINE Step == \A p \in Proposals : proposals'[p] # proposals[p] =>
      /\ proposals'[p].state \in Successors[proposals[p].state]
      /\ proposals[p].reviewer # None =>
           proposals'[p].reviewer = proposals[p].reviewer
      /\ proposals[p].rollout # None =>
           proposals'[p].rollout = proposals[p].rollout
<1>1. IInv /\ [Next]_vars => [Step]_vars
  <2> SUFFICES ASSUME IInv, [Next]_vars PROVE Step
    OBVIOUS
  <2>1. Evolves
    BY NextEvolves
  <2>2. QED
    BY <2>1 DEF Evolves, Advances, SameDecisions
<1>2. QED
  BY <1>1, InvariantHolds, PTL DEF Spec, FirstDecisionStands

=============================================================================
