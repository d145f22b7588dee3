-------------------------- MODULE ApprovalWorkflow --------------------------
(***************************************************************************)
(* The voting that decides one approval ticket: stages with a quorum each, *)
(* then an optional final go.  A vote is a call of resolveWorkflow, which  *)
(* reads the instance and later runs cast_approval_workflow_vote_checked,  *)
(* one transaction that counts the vote, moves the instance and resolves   *)
(* the ticket, or is refused, or rolls back as a whole.  Chat providers    *)
(* deliver a click any number of times; a web request arrives once.        *)
(***************************************************************************)
EXTENDS Naturals, Sequences, FiniteSets

CONSTANTS
  Voter,      \* members of the organisation named by the policy
  NoVoter,    \* "nobody": no final go is configured, or a call that casts no vote
  Policy,     \* the policies a ticket may come under
  AdminVoter, \* the voters of the admin route, or the owners
  Decision,   \* decision ids of chat clicks
  NoDecision, \* a web request carries none
  Handler     \* concurrent calls

\* workflow_quorum_required
QuorumRequired(rule, n) ==
  CASE rule.type = "any" -> 1
    [] rule.type = "majority" -> (n \div 2) + 1
    [] rule.type = "count" -> rule.n
    [] rule.type = "ratio" -> (n * rule.n + rule.of - 1) \div rule.of

\* validate_workflow_snapshot, and buildSyntheticWorkflowPolicy for kind routes.
ValidStage(s) ==
  /\ s.voters \subseteq Voter
  /\ s.onReject \in {"fail_closed", "count_as_vote"}
  /\ QuorumRequired(s.quorum, Cardinality(s.voters)) \in 1..Cardinality(s.voters)

ValidPolicy(p) ==
  /\ Len(p.stages) \in Nat \ {0}
  /\ \A s \in 1..Len(p.stages) : ValidStage(p.stages[s])
  /\ p.finalGo \in Voter \cup {NoVoter}
  /\ p.route \in {"class", "kind"}
  /\ p.route = "kind" => Len(p.stages) = 1
  /\ p.admin \in BOOLEAN

ASSUME WorkflowConstants ==
  /\ IsFiniteSet(Voter)
  /\ NoVoter \notin Voter
  /\ NoDecision \notin Decision
  /\ \A p \in Policy : ValidPolicy(p)

VARIABLES
  policy,  \* policy_snapshot, and of the ticket: "class" if the insert trigger made the
           \* instance, "kind" if kind-route calls do; whether it is of the admin class in an
           \* organisation that enforces its approvers
  ticket,  \* approval_requests.status; "closed" is expired or superseded
  wf,      \* the row of approval_workflow_instances
  ballot,  \* approval_workflow_ballots.vote; "absent" where no row was made
  usedBy,  \* their decision_id
  current, \* the voters workflow_voter_is_current holds for
  click,   \* the chat clicks made so far
  call,    \* what each call remembers
  claim    \* approval_execution_claims.state; "over" is succeeded or uncertain

vars == <<policy, ticket, wf, ballot, usedBy, current, click, call, claim>>

(***************************************************************************)
(* Values                                                                  *)
(***************************************************************************)
Stages == policy.stages
FinalGo == policy.finalGo
Stage == 1..Len(Stages)
FINAL == 0                     \* the stage id final_go

Slot == {x \in Stage \X Voter : x[2] \in Stages[x[1]].voters}
          \cup ({FINAL} \X ({FinalGo} \ {NoVoter}))

\* Anybody else has no ballot and is refused; their calls are left out.
Named == {x[2] : x \in Slot}

Vote == {"approve", "reject"}
Instance == [status : {"none", "active", "approved", "rejected"}, stage : Stage,
             finalPending : BOOLEAN]
Click == [voter : Voter, vote : Vote]
NoClick == [voter |-> NoVoter, vote |-> "reject"]
Call == [pc : {"idle", "insert", "ballots", "cast"}, voter : Voter \cup {NoVoter}, vote : Vote,
         id : Decision \cup {NoDecision}, expected : Stage \cup {FINAL}]
Idle == [pc |-> "idle", voter |-> NoVoter, vote |-> "reject", id |-> NoDecision, expected |-> FINAL]

TypeOK ==
  /\ policy \in Policy
  /\ ticket \in {"pending", "approved", "rejected", "closed"}
  /\ wf \in Instance
  /\ ballot \in [Slot -> {"absent", "open"} \cup Vote]
  /\ usedBy \in [Slot -> Decision \cup {NoDecision}]
  /\ current \subseteq Voter
  /\ click \in [Decision -> Click \cup {NoClick}]
  /\ call \in [Handler -> Call]
  /\ claim \in {"none", "running", "failed", "over"}

(***************************************************************************)
(* Counting                                                                *)
(***************************************************************************)
Required(s) == QuorumRequired(Stages[s].quorum, Cardinality(Stages[s].voters))
FailClosed(s) == Stages[s].onReject = "fail_closed"

Having(b, s, vote) == {v \in Stages[s].voters : b[<<s, v>>] = vote}

\* Mutants: approvals of members who lost their authority counted; one approval too
\* many asked for.
QuorumOfAnyone(b, s) == Cardinality(Having(b, s, "approve")) >= Required(s)
QuorumExceeded(b, s) == Cardinality(Having(b, s, "approve") \cap current) > Required(s)

\* Only voters who still may approve count towards the quorum; every rejection counts.
QuorumMet(b, s) == Cardinality(Having(b, s, "approve") \cap current) >= Required(s)
Vetoed(b, s) == FailClosed(s) /\ Having(b, s, "reject") # {}

\* workflow_instance_satisfied
Satisfied(w, b) ==
  /\ w.status = "approved" /\ ~w.finalPending
  /\ \A s \in Stage : QuorumMet(b, s) /\ ~Vetoed(b, s)
  /\ FinalGo # NoVoter => b[<<FINAL, FinalGo>>] = "approve" /\ FinalGo \in current

OpenStage == IF wf.finalPending THEN FINAL ELSE wf.stage

\* guard_admin_class_approval: the row names a resolver who may decide it; only a rejection
\* may come from nobody.
AdminGuard(status, by) ==
  policy.admin => by \in AdminVoter \/ (status = "rejected" /\ by = NoVoter)

\* Mutant: only approvals compared with the instance.
StatusGuardApprovals(status) == status = "approved" => Satisfied(wf, ballot)

\* guard_workflow_approval_status
StatusGuard(status) ==
  status = wf.status /\ (status = "approved" => Satisfied(wf, ballot))

(***************************************************************************)
(* Making the instance                                                     *)
(***************************************************************************)
InstanceAt(status, stage) == [status |-> status, stage |-> stage, finalPending |-> FALSE]
Fresh == InstanceAt("active", 1)

\* Mutant: no ballot for the final go.
InitClassStages ==
  wf = Fresh /\ ballot = [x \in Slot |-> IF x[1] = FINAL THEN "absent" ELSE "open"]

\* initialize_approval_workflow, in the transaction that inserts the ticket.
InitClass == wf = Fresh /\ ballot = [x \in Slot |-> "open"]

\* Rows of the old implementation, which decided the instance and left the ticket pending.
InitGap ==
  \/ /\ wf = InstanceAt("approved", Len(Stages))
     /\ ballot = [x \in Slot |-> "approve"]
  \/ /\ wf = InstanceAt("rejected", 1)
     /\ FailClosed(1)
     /\ \E v \in Stages[1].voters :
          ballot = [x \in Slot |-> IF x = <<1, v>> THEN "reject" ELSE "open"]

\* No class policy matched: the kind-route calls make the instance after the insert.
InitKind == wf = InstanceAt("none", 1) /\ ballot = [x \in Slot |-> "absent"]

Init ==
  /\ policy \in Policy
  /\ ticket = "pending"
  /\ IF policy.route = "class" THEN InitClass \/ InitGap ELSE InitKind
  /\ usedBy = [x \in Slot |-> NoDecision]
  /\ current = Voter
  /\ click = [d \in Decision |-> NoClick]
  /\ call = [h \in Handler |-> Idle]
  /\ claim = "none"

Start(h, v, vote, id) ==
  /\ ticket = "pending"
  /\ call[h] = Idle
  /\ call' = [call EXCEPT ![h] =
       [pc |-> IF wf.status = "none" THEN "insert" ELSE "cast",
        voter |-> v, vote |-> vote, id |-> id, expected |-> OpenStage]]
  /\ UNCHANGED <<policy, ticket, wf, ballot, usedBy, current, click, claim>>

\* createApproval and the chat webhooks initialise without voting.
Initialize(h) == wf.status = "none" /\ Start(h, NoVoter, "reject", NoDecision)

\* createWorkflowInstance; a second insert fails on unique(approval_id) and the call throws.
InsertInstance(h) ==
  /\ call[h].pc = "insert"
  /\ IF wf.status = "none"
       THEN wf' = Fresh /\ call' = [call EXCEPT ![h].pc = "ballots"]
       ELSE call' = [call EXCEPT ![h] = Idle] /\ UNCHANGED wf
  /\ UNCHANGED <<policy, ticket, ballot, usedBy, current, click, claim>>

\* createBallotsForStage, for the first stage only.
InsertBallots(h) ==
  /\ call[h].pc = "ballots"
  /\ ballot' = [x \in Slot |-> IF x[1] = 1 THEN "open" ELSE ballot[x]]
  /\ call' = IF call[h].voter = NoVoter THEN [call EXCEPT ![h] = Idle]
                                        ELSE [call EXCEPT ![h].pc = "cast"]
  /\ UNCHANGED <<policy, ticket, wf, usedBy, current, click, claim>>

(***************************************************************************)
(* Voting                                                                  *)
(***************************************************************************)
Press(d, v, vote) ==
  /\ v \in Named
  /\ ticket = "pending"
  /\ click[d] = NoClick
  /\ click' = [click EXCEPT ![d] = [voter |-> v, vote |-> vote]]
  /\ UNCHANGED <<policy, ticket, wf, ballot, usedBy, current, call, claim>>

\* The provider's delivery, or its retry.
Deliver(h, d) == click[d] # NoClick /\ Start(h, click[d].voter, click[d].vote, d)

WebVote(h, v) == v \in Named /\ \E vote \in Vote : Start(h, v, vote, NoDecision)

\* Mutant: the ticket's status, read before, not looked at again under the lock.
MayVoteLate(c) ==
  /\ c.voter \in current
  /\ policy.admin => c.id = NoDecision /\ c.voter \in AdminVoter

\* The checked entry: under enforcement only a named admin voter, and the id a chat call
\* passes is empty there.
MayVote(c) ==
  /\ ticket = "pending"
  /\ c.voter \in current
  /\ policy.admin => c.id = NoDecision /\ c.voter \in AdminVoter

\* Mutant: a click looked for among the ballots of the open stage only.
FreshInStage(c) ==
  c.id = NoDecision \/ \A x \in Slot : x[1] = OpenStage => usedBy[x] # c.id

FreshDecision(c) == c.id = NoDecision \/ \A x \in Slot : usedBy[x] # c.id

\* Mutant: a recorded vote taken for a free ballot.
AnyBallot(c) == <<OpenStage, c.voter>> \in Slot /\ ballot[<<OpenStage, c.voter>>] # "absent"

OpenBallot(c) == <<OpenStage, c.voter>> \in Slot /\ ballot[<<OpenStage, c.voter>>] = "open"

Accepted(c) ==
  /\ wf.status = "active"
  /\ MayVote(c)
  /\ c.expected = OpenStage
  /\ FreshDecision(c)
  /\ OpenBallot(c)

NewBallots(c) == [ballot EXCEPT ![<<OpenStage, c.voter>>] = c.vote]

\* Mutant: a stage after the last one.
AdvancedPastTheLast ==
  IF wf.stage <= Len(Stages) THEN [wf EXCEPT !.stage = @ + 1]
  ELSE IF FinalGo # NoVoter THEN [wf EXCEPT !.finalPending = TRUE]
  ELSE [wf EXCEPT !.status = "approved"]

\* Where the quorum of the open stage leads.
Advanced ==
  IF wf.stage < Len(Stages) THEN [wf EXCEPT !.stage = @ + 1]
  ELSE IF FinalGo # NoVoter THEN [wf EXCEPT !.finalPending = TRUE]
  ELSE [wf EXCEPT !.status = "approved"]

\* Mutant: every vote cast counts towards the quorum that moves the instance on.
NewInstanceByTurnout(c) ==
  IF wf.finalPending
    THEN [wf EXCEPT !.status = IF c.vote = "approve" THEN "approved" ELSE "rejected",
                    !.finalPending = FALSE]
  ELSE IF Vetoed(NewBallots(c), wf.stage) THEN [wf EXCEPT !.status = "rejected"]
  ELSE IF Cardinality(Stages[wf.stage].voters \ Having(NewBallots(c), wf.stage, "open"))
            >= Required(wf.stage)
    THEN Advanced
  ELSE wf

NewInstance(c) ==
  IF wf.finalPending
    THEN [wf EXCEPT !.status = IF c.vote = "approve" THEN "approved" ELSE "rejected",
                    !.finalPending = FALSE]
  ELSE IF Vetoed(NewBallots(c), wf.stage) THEN [wf EXCEPT !.status = "rejected"]
  ELSE IF QuorumMet(NewBallots(c), wf.stage) THEN Advanced
  ELSE wf

\* Mutant: the instance decided alone, as the old implementation did.
InstanceOnly(w) == ticket

\* The ticket follows a decided instance in the same transaction, with no resolver.
Resolved(w) == IF w.status = "active" THEN ticket ELSE w.status
Commits(w, b) == w.status = "approved" => Satisfied(w, b) /\ AdminGuard("approved", NoVoter)

CountVote(h) ==
  LET c == call[h] IN
  /\ c.pc = "cast"
  /\ Accepted(c)
  /\ Commits(NewInstance(c), NewBallots(c))
  /\ wf' = NewInstance(c)
  /\ ballot' = NewBallots(c)
  /\ usedBy' = [usedBy EXCEPT ![<<OpenStage, c.voter>>] = c.id]
  /\ ticket' = Resolved(NewInstance(c))
  /\ call' = [call EXCEPT ![h] = Idle]
  /\ UNCHANGED <<policy, current, click, claim>>

\* A recorded voter finishes what the old implementation left half done.
CanRecover(c) ==
  /\ wf.status \in {"approved", "rejected"}
  /\ MayVote(c)
  /\ \E x \in Slot : x[2] = c.voter /\ ballot[x] \in Vote
  /\ Commits(wf, ballot)

Recover(h) ==
  /\ call[h].pc = "cast"
  /\ CanRecover(call[h])
  /\ ticket' = Resolved(wf)
  /\ call' = [call EXCEPT ![h] = Idle]
  /\ UNCHANGED <<policy, wf, ballot, usedBy, current, click, claim>>

\* A reason is returned, or an exception undoes the transaction: nothing is left of the call.
VoteRefused(h) ==
  LET c == call[h] IN
  /\ c.pc = "cast"
  /\ ~(Accepted(c) /\ Commits(NewInstance(c), NewBallots(c)))
  /\ ~CanRecover(c)
  /\ call' = [call EXCEPT ![h] = Idle]
  /\ UNCHANGED <<policy, ticket, wf, ballot, usedBy, current, click, claim>>

Cast(h) == CountVote(h) \/ Recover(h) \/ VoteRefused(h)

\* The process stops, or loses the database, between two statements.
Crash(h) ==
  /\ call[h] # Idle
  /\ call' = [call EXCEPT ![h] = Idle]
  /\ UNCHANGED <<policy, ticket, wf, ballot, usedBy, current, click, claim>>

(***************************************************************************)
(* The rest of the system                                                  *)
(***************************************************************************)
\* Role, capability, suspension, ban, chat binding.
ChangeAuthority(v) ==
  /\ v \in Named
  /\ current' = IF v \in current THEN current \ {v} ELSE current \cup {v}
  /\ UNCHANGED <<policy, ticket, wf, ballot, usedBy, click, call, claim>>

\* A writer of the status column that knows nothing of workflows.  (Where there is no
\* instance, resolve_approval_w1_checked runs only for tickets that never get one.)
DirectResolve(status, by) ==
  /\ ticket = "pending"
  /\ wf.status # "none"
  /\ StatusGuard(status)
  /\ AdminGuard(status, by)
  /\ ticket' = status
  /\ UNCHANGED <<policy, wf, ballot, usedBy, current, click, call, claim>>

\* Expiry, and closing without sending.
Close ==
  /\ ticket \in {"pending", "approved"}
  /\ ticket' = "closed"
  /\ UNCHANGED <<policy, wf, ballot, usedBy, current, click, call, claim>>

\* claim_approval_execution under guard_workflow_execution_claim, first time or after a failure.
ClaimExecution ==
  /\ ticket = "approved"
  /\ claim \in {"none", "failed"}
  /\ wf.status # "none" => Satisfied(wf, ballot)
  /\ claim' = "running"
  /\ UNCHANGED <<policy, ticket, wf, ballot, usedBy, current, click, call>>

FinishExecution ==
  /\ claim = "running"
  /\ claim' \in {"failed", "over"}
  /\ UNCHANGED <<policy, ticket, wf, ballot, usedBy, current, click, call>>

HandlerNext(h) ==
  \/ Initialize(h) \/ InsertInstance(h) \/ InsertBallots(h)
  \/ \E d \in Decision : Deliver(h, d)
  \/ \E v \in Voter : WebVote(h, v)
  \/ CountVote(h) \/ Recover(h) \/ VoteRefused(h) \/ Crash(h)

Next ==
  \/ \E h \in Handler : HandlerNext(h)
  \/ \E d \in Decision, v \in Voter, vote \in Vote : Press(d, v, vote)
  \/ \E v \in Voter : ChangeAuthority(v)
  \/ \E status \in {"approved", "rejected"}, by \in Voter \cup {NoVoter} : DirectResolve(status, by)
  \/ Close \/ ClaimExecution \/ FinishExecution

Spec == Init /\ [][Next]_vars

(***************************************************************************)
(* A call ends, if only by a timeout.  Every voter keeps voting from the   *)
(* web while the ticket is open, and not every one of those calls dies.    *)
(* Closing, clicking in chat and changes of authority need never happen.   *)
(***************************************************************************)
Fairness ==
  /\ \A h \in Handler : WF_vars(Cast(h) \/ Crash(h))
  /\ \A v \in Voter :
       /\ SF_vars(\E h \in Handler : WebVote(h, v))
       /\ SF_vars(\E h \in Handler : call[h].voter = v /\ call[h].id = NoDecision /\ Cast(h))
  /\ SF_vars(\E h \in Handler : InsertInstance(h))
  /\ SF_vars(\E h \in Handler : InsertBallots(h))

FairSpec == Spec /\ Fairness

(***************************************************************************)
(* Properties                                                              *)
(***************************************************************************)
\* A vote in a later stage, or the final go, was possible only after every earlier stage got
\* its quorum of approvals and, where one rejection ends the matter, none: the stage
\* arithmetic of the vote RPC over ballots of several voters, retries and calls.
StagesInOrder ==
  \A x \in Slot : ballot[x] \in Vote =>
    \A s \in Stage : x[1] = FINAL \/ s < x[1] =>
      /\ Cardinality({v \in Stages[s].voters : ballot[<<s, v>>] = "approve"}) >= Required(s)
      /\ FailClosed(s) => \A v \in Stages[s].voters : ballot[<<s, v>>] # "reject"

\* A ticket is approved or rejected only as its instance is: no writer of the status column
\* gets past the trigger (guard_workflow_approval_status).
TicketFollowsInstance == ticket \in {"approved", "rejected"} => wf.status = ticket

\* The vote that decides the instance decides the ticket in the same step: the gap the old
\* implementation left, which the recovery branch repairs, is not made any more.
DecidedTogether ==
  [][wf.status = "active" /\ wf'.status # "active" => ticket' = wf'.status]_vars

\* An execution starts, also after a failed one, only while each stage still has its quorum
\* of approvals by members who may approve now, no veto stands and the final go was given by
\* someone who may give it now: authority lost after the vote stops the send.
Consent ==
  /\ \A s \in Stage :
       /\ \E yes \in SUBSET (Stages[s].voters \cap current) :
            Cardinality(yes) >= Required(s) /\ \A v \in yes : ballot[<<s, v>>] = "approve"
       /\ FailClosed(s) => \A v \in Stages[s].voters : ballot[<<s, v>>] # "reject"
  /\ FinalGo # NoVoter => FinalGo \in current /\ ballot[<<FINAL, FinalGo>>] = "approve"

ExecutionHasConsent == [][claim # "running" /\ claim' = "running" => Consent]_vars

\* A chat click, however often and however late it is delivered, is at most one ballot, of
\* the person who clicked and with the vote they chose.
OneClickOneBallot ==
  \A x \in Slot : usedBy[x] # NoDecision =>
    /\ \A y \in Slot : usedBy[y] = usedBy[x] => y = x
    /\ click[usedBy[x]] = [voter |-> x[2], vote |-> ballot[x]]

\* A vote is never changed, and is cast only in the stage that is open when it is counted,
\* whatever the call read before (expectedStage) and whoever voted in between.
VotesAreFinal ==
  [][\A x \in Slot : ballot'[x] # ballot[x] /\ ballot[x] # "absent" =>
       ballot[x] = "open" /\ wf.status = "active" /\ x[1] = OpenStage]_vars

\* When everything waits for the final go, the person named for it has a ballot to give it
\* with: "all ballot rows are created with the immutable snapshot in the same transaction".
FinalGoCanVote == wf.finalPending => ballot[<<FINAL, FinalGo>>] # "absent"

\* If nobody loses authority and rejections never put the open stage's quorum out of reach,
\* voters who keep voting bring the ticket to a decision, through refused and crashed calls
\* and from the old implementation's gap.
QuorumReachable ==
  wf.status = "active" /\ ~wf.finalPending =>
    Cardinality(Stages[wf.stage].voters \ Having(ballot, wf.stage, "reject")) >= Required(wf.stage)

VotesDecide == [](current = Voter /\ QuorumReachable) => <>(ticket # "pending")

ClassVotesDecide == policy.route = "class" /\ ~policy.admin => VotesDecide

\* The call of v at its last step, if v voted now.
Casting(v, vote) ==
  [pc |-> "cast", voter |-> v, vote |-> vote, id |-> NoDecision, expected |-> OpenStage]

\* Somebody's vote, whichever it is, would be counted now or finish a decision left half done.
SomebodyCanVote ==
  \E v \in Named : \A vote \in Vote :
    LET c == Casting(v, vote) IN
    (Accepted(c) /\ Commits(NewInstance(c), NewBallots(c))) \/ CanRecover(c)

\* Voting never comes to a dead end: while nobody loses authority and the rejections leave
\* the open stage its quorum, an undecided ticket always has a voter whose vote is neither
\* refused nor rolled back.
NeverStuck ==
  policy.route = "class" /\ ~policy.admin =>
    ([](current = Voter /\ QuorumReachable) => [](ticket = "pending" => SomebodyCanVote))

(***************************************************************************)
(* Refinement                                                              *)
(***************************************************************************)
\* What the ticket's row says, in the terms of TicketLife.
LifeStatus == IF ticket = "rejected" THEN "refused" ELSE ticket

Life == INSTANCE TicketLife WITH status <- LifeStatus, claim <- claim

\* Votes, retries, recoveries, direct writers and executions move the ticket and its claim
\* as the execution of approved tickets expects of them.
ImplementsTicketLife == Life!Spec
=============================================================================
