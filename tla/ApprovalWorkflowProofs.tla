----------------------- MODULE ApprovalWorkflowProofs -----------------------
(***************************************************************************)
(* Proofs about ApprovalWorkflow, for any voters, valid policies, clicks   *)
(* and concurrent calls.                                                   *)
(***************************************************************************)
EXTENDS ApprovalWorkflow, FiniteSetTheorems, TLAPS

\* A stage that has its approvals, and no rejection that ends the matter.
Done(s) ==
  /\ Cardinality(Having(ballot, s, "approve")) >= Required(s)
  /\ FailClosed(s) => Having(ballot, s, "reject") = {}

\* The stages before the open one are done, and nobody has voted in those after it.
StagesDone ==
  /\ wf.finalPending => wf.status = "active"
  /\ \A s \in Stage : s < wf.stage \/ wf.finalPending => Done(s)
  /\ \A x \in Slot : ballot[x] \in Vote =>
       IF x[1] = FINAL THEN ~wf.finalPending /\ wf.status # "active" /\ \A s \in Stage : Done(s)
                       ELSE x[1] <= wf.stage

\* One call makes the rows of an instance, before anybody can vote.
RowsMadeOnce ==
  /\ wf.status = "none" => \A h \in Handler : call[h].pc # "ballots"
  /\ wf.status = "none" => \A x \in Slot : ballot[x] = "absent"
  /\ \A h \in Handler : call[h].pc = "ballots" =>
       /\ \A x \in Slot : ballot[x] = "absent"
       /\ \A k \in Handler : call[k].pc = "ballots" => k = h

\* A call that carries a click casts that click.
CallsCarryClicks ==
  \A h \in Handler : call[h].id # NoDecision =>
    /\ call[h].voter \in Voter
    /\ click[call[h].id] = [voter |-> call[h].voter, vote |-> call[h].vote]

WorkflowInvariant ==
  TypeOK /\ TicketFollowsInstance /\ StagesDone /\ RowsMadeOnce /\ CallsCarryClicks /\ OneClickOneBallot

(***************************************************************************)
(* The policy                                                              *)
(***************************************************************************)
LEMMA PolicyFacts ==
  ASSUME policy \in Policy
  PROVE  /\ Len(Stages) \in Nat \ {0}
         /\ 1 \in Stage /\ Len(Stages) \in Stage
         /\ FinalGo \in Voter \cup {NoVoter}
         /\ \A s \in Stage : /\ Stages[s].voters \subseteq Voter
                             /\ IsFiniteSet(Stages[s].voters)
                             /\ Cardinality(Stages[s].voters) \in Nat
                             /\ Required(s) \in 1..Cardinality(Stages[s].voters)
<1>1. ValidPolicy(policy)
  BY WorkflowConstants DEF WorkflowConstants
<1>2. ASSUME NEW s \in Stage
      PROVE  /\ Stages[s].voters \subseteq Voter
             /\ IsFiniteSet(Stages[s].voters)
             /\ Cardinality(Stages[s].voters) \in Nat
             /\ Required(s) \in 1..Cardinality(Stages[s].voters)
  <2>1. ValidStage(Stages[s])
    BY <1>1 DEF ValidPolicy, Stages, Stage
  <2>2. IsFiniteSet(Stages[s].voters)
    BY <2>1, FS_Subset, WorkflowConstants DEF ValidStage, WorkflowConstants
  <2>3. Cardinality(Stages[s].voters) \in Nat
    BY <2>2, FS_CardinalityType
  <2> QED BY <2>1, <2>2, <2>3 DEF ValidStage, Required
<1> QED BY <1>1, <1>2 DEF ValidPolicy, Stages, Stage, FinalGo

\* The slots are the voters of each stage and the person of the final go.
LEMMA SlotFacts ==
  ASSUME policy \in Policy
  PROVE  /\ \A x \in Slot :
              /\ x = <<x[1], x[2]>>
              /\ x[2] \in Voter
              /\ x[1] \in Stage \cup {FINAL}
              /\ x[1] \in Stage => x[1] # FINAL /\ x[2] \in Stages[x[1]].voters
              /\ x[1] = FINAL => x[2] = FinalGo /\ FinalGo # NoVoter
         /\ \A s \in Stage : \A v \in Stages[s].voters : <<s, v>> \in Slot
         /\ FinalGo # NoVoter => <<FINAL, FinalGo>> \in Slot
<1> USE PolicyFacts
<1>1. \A s \in Stage : s # FINAL
  BY DEF Stage, FINAL
<1>2. ASSUME NEW x \in Slot
      PROVE  /\ x = <<x[1], x[2]>>
             /\ x[2] \in Voter
             /\ x[1] \in Stage \cup {FINAL}
             /\ x[1] \in Stage => x[1] # FINAL /\ x[2] \in Stages[x[1]].voters
             /\ x[1] = FINAL => x[2] = FinalGo /\ FinalGo # NoVoter
  BY <1>1 DEF Slot
<1>3. \A s \in Stage : \A v \in Stages[s].voters : <<s, v>> \in Slot
  BY DEF Slot
<1> QED BY <1>2, <1>3 DEF Slot

LEMMA SamePolicy ==
  ASSUME policy' = policy
  PROVE  /\ Stages' = Stages /\ FinalGo' = FinalGo /\ Stage' = Stage /\ Slot' = Slot
         /\ Instance' = Instance /\ Call' = Call
         /\ \A s : Required(s)' = Required(s) /\ FailClosed(s)' = FailClosed(s)
BY DEF Stages, FinalGo, Stage, Slot, Instance, Call, Required, FailClosed

LEMMA HavingFacts ==
  ASSUME policy \in Policy, NEW b, NEW s \in Stage, NEW vote, NEW S \in SUBSET Having(b, s, vote)
  PROVE  /\ Cardinality(S) \in Nat /\ Cardinality(Having(b, s, vote)) \in Nat
         /\ Cardinality(S) <= Cardinality(Having(b, s, vote))
<1>1. IsFiniteSet(Having(b, s, vote))
  BY PolicyFacts, FS_Subset DEF Having
<1>2. IsFiniteSet(S) /\ Cardinality(S) <= Cardinality(Having(b, s, vote))
  BY <1>1, FS_Subset
<1> QED BY <1>1, <1>2, FS_CardinalityType

(***************************************************************************)
(* The invariant                                                           *)
(***************************************************************************)
LEMMA InitWorkflow == Init => WorkflowInvariant
<1> SUFFICES ASSUME Init PROVE WorkflowInvariant
  OBVIOUS
<1> USE WorkflowConstants DEF WorkflowConstants
<1>1. policy \in Policy /\ ticket = "pending"
  BY DEF Init
<1>0. \/ wf = InstanceAt("active", 1) \/ wf = InstanceAt("approved", Len(Stages))
      \/ wf = InstanceAt("rejected", 1)
      \/ wf = InstanceAt("none", 1) /\ ballot = [x \in Slot |-> "absent"]
  BY DEF Init, InitClass, InitGap, InitKind, Fresh
<1>2. wf \in Instance
  <2>1. \A status \in {"none", "active", "approved", "rejected"}, n \in Stage :
          InstanceAt(status, n) \in Instance
    BY DEF Instance, InstanceAt
  <2> QED BY <1>1, <1>0, <2>1, PolicyFacts
<1>3. ballot \in [Slot -> {"absent", "open"} \cup Vote]
  <2>1. CASE ballot = [x \in Slot |-> "open"] \/ ballot = [x \in Slot |-> "approve"]
             \/ ballot = [x \in Slot |-> "absent"]
    BY <2>1 DEF Vote
  <2>2. CASE \E v \in Stages[1].voters :
               ballot = [x \in Slot |-> IF x = <<1, v>> THEN "reject" ELSE "open"]
    BY <2>2 DEF Vote
  <2> QED BY <2>1, <2>2 DEF Init, InitClass, InitGap, InitKind
<1>4. wf.finalPending = FALSE
  BY <1>0 DEF InstanceAt
<1>5. Idle \in Call /\ Idle.id = NoDecision /\ Idle.pc = "idle"
  BY DEF Idle, Call, Vote
<1>6. TypeOK
  BY <1>1, <1>2, <1>3, <1>5 DEF Init, TypeOK
<1>7. CallsCarryClicks /\ OneClickOneBallot /\ TicketFollowsInstance
  BY <1>1, <1>5 DEF Init, CallsCarryClicks, OneClickOneBallot, TicketFollowsInstance
<1>8. RowsMadeOnce
  <2>1. \A h \in Handler : call[h].pc # "ballots"
    BY <1>5 DEF Init
  <2>2. wf.status = "none" => ballot = [x \in Slot |-> "absent"]
    BY <1>0 DEF InstanceAt
  <2> QED BY <2>1, <2>2 DEF RowsMadeOnce
<1>9. StagesDone
  <2>1. CASE InitClass \/ InitKind
    <3>1. \A x \in Slot : ballot[x] \notin Vote
      BY <2>1 DEF InitClass, InitKind, Vote
    <3>2. wf.stage = 1
      BY <2>1 DEF InitClass, InitKind, Fresh, InstanceAt
    <3> QED BY <1>4, <3>1, <3>2 DEF StagesDone, Stage
  <2>2. CASE wf = InstanceAt("approved", Len(Stages))
             /\ ballot = [x \in Slot |-> "approve"]
    <3>1. ASSUME NEW s \in Stage PROVE Done(s)
      <4>1. Having(ballot, s, "approve") = Stages[s].voters /\ Having(ballot, s, "reject") = {}
        BY <1>1, <2>2, SlotFacts DEF Having
      <4> QED BY <1>1, <4>1, PolicyFacts DEF Done
    <3>2. wf.stage = Len(Stages) /\ wf.status = "approved" /\ ~wf.finalPending
      BY <2>2 DEF Fresh, InstanceAt
    <3> QED BY <1>1, <3>1, <3>2, SlotFacts, PolicyFacts DEF StagesDone, Stage
  <2>3. CASE wf = InstanceAt("rejected", 1)
             /\ \E v \in Stages[1].voters :
                  ballot = [x \in Slot |-> IF x = <<1, v>> THEN "reject" ELSE "open"]
    <3>1. wf.stage = 1 /\ ~wf.finalPending
      BY <2>3 DEF Fresh, InstanceAt
    <3>2. \A x \in Slot : ballot[x] \in Vote => x[1] = 1
      BY <2>3 DEF Vote
    <3> QED BY <3>1, <3>2 DEF StagesDone, Stage, FINAL
  <2> QED BY <2>1, <2>2, <2>3 DEF Init, InitGap
<1> QED BY <1>6, <1>7, <1>8, <1>9 DEF WorkflowInvariant

\* Steps that leave the rows of the instance alone: its parts that speak of nothing else.
LEMMA RowsKept ==
  ASSUME WorkflowInvariant, UNCHANGED <<policy, wf, ballot>>
  PROVE  StagesDone'
BY SamePolicy DEF WorkflowInvariant, StagesDone, Done, Having

LEMMA UsesKept ==
  ASSUME WorkflowInvariant, UNCHANGED <<policy, ballot, usedBy>>,
         \A d \in Decision : click[d] # NoClick => click'[d] = click[d]
  PROVE  OneClickOneBallot'
<1> USE WorkflowConstants DEF WorkflowConstants
<1>1. ASSUME NEW x \in Slot, usedBy[x] # NoDecision
      PROVE  click'[usedBy[x]] = click[usedBy[x]]
  <2>1. usedBy[x] \in Decision
    BY <1>1 DEF WorkflowInvariant, TypeOK
  <2>2. click[usedBy[x]] = [voter |-> x[2], vote |-> ballot[x]] /\ x[2] \in Voter
    BY <1>1, SlotFacts DEF WorkflowInvariant, TypeOK, OneClickOneBallot
  <2>3. click[usedBy[x]].voter = x[2] /\ NoClick.voter = NoVoter
    BY <2>2 DEF NoClick
  <2> QED BY <2>1, <2>2, <2>3
<1> QED BY <1>1, SamePolicy DEF WorkflowInvariant, OneClickOneBallot

LEMMA StartStep ==
  ASSUME WorkflowInvariant, NEW h \in Handler, NEW v \in Voter \cup {NoVoter}, NEW vote \in Vote,
         NEW id \in Decision \cup {NoDecision}, Start(h, v, vote, id),
         id # NoDecision => v \in Voter /\ click[id] = [voter |-> v, vote |-> vote]
  PROVE  WorkflowInvariant'
<1> USE WorkflowConstants DEF WorkflowConstants, WorkflowInvariant
<1>1. UNCHANGED <<policy, ticket, wf, ballot, usedBy, current, click, claim>>
  BY DEF Start
<1> DEFINE new == [pc |-> IF wf.status = "none" THEN "insert" ELSE "cast",
                   voter |-> v, vote |-> vote, id |-> id, expected |-> OpenStage]
<1>2. call' = [call EXCEPT ![h] = new]
  BY DEF Start
<1>3. OpenStage \in Stage \cup {FINAL} /\ new \in Call
  BY DEF OpenStage, TypeOK, Instance, Call
<1> HIDE DEF new
<1>4. TypeOK'
  BY <1>1, <1>2, <1>3, SamePolicy DEF TypeOK
<1>5. \A k \in Handler : call'[k] = IF k = h THEN new ELSE call[k]
  BY <1>2 DEF TypeOK
<1>6. new.pc # "ballots" /\ new.voter = v /\ new.vote = vote /\ new.id = id
  BY DEF new
<1>7. RowsMadeOnce'
  BY <1>1, <1>5, <1>6, SamePolicy DEF RowsMadeOnce
<1>8. CallsCarryClicks'
  BY <1>1, <1>5, <1>6 DEF CallsCarryClicks
<1> QED BY <1>1, <1>4, <1>7, <1>8, RowsKept, UsesKept DEF TicketFollowsInstance

\* A call that ends with nothing done.
LEMMA CallEnds ==
  ASSUME WorkflowInvariant, NEW h \in Handler, call' = [call EXCEPT ![h] = Idle],
         UNCHANGED <<policy, ticket, wf, ballot, usedBy, current, click, claim>>
  PROVE  WorkflowInvariant'
<1> USE DEF WorkflowInvariant
<1>1. Idle \in Call /\ Idle.pc # "ballots" /\ Idle.id = NoDecision
  BY DEF Idle, Call, Vote
<1>2. \A k \in Handler : call'[k] = IF k = h THEN Idle ELSE call[k]
  BY DEF TypeOK
<1>3. TypeOK'
  BY <1>1, SamePolicy DEF TypeOK
<1>4. RowsMadeOnce' /\ CallsCarryClicks'
  BY <1>1, <1>2, SamePolicy DEF RowsMadeOnce, CallsCarryClicks
<1> QED BY <1>3, <1>4, RowsKept, UsesKept DEF TicketFollowsInstance

LEMMA InsertInstanceStep ==
  ASSUME WorkflowInvariant, NEW h \in Handler, InsertInstance(h)
  PROVE  WorkflowInvariant'
<1> USE DEF WorkflowInvariant
<1>1. CASE wf.status # "none"
  BY <1>1, CallEnds DEF InsertInstance
<1>2. CASE wf.status = "none"
  <2>1. /\ wf' = Fresh /\ call' = [call EXCEPT ![h].pc = "ballots"]
        /\ UNCHANGED <<policy, ticket, ballot, usedBy, current, click, claim>>
    BY <1>2 DEF InsertInstance
  <2>2. /\ Fresh \in Instance /\ Fresh.stage = 1 /\ ~Fresh.finalPending
        /\ Fresh.status = "active"
    BY PolicyFacts DEF Fresh, InstanceAt, Instance, TypeOK
  <2>3. \A k \in Handler : call'[k] = IF k = h THEN [call[k] EXCEPT !.pc = "ballots"] ELSE call[k]
    BY <2>1 DEF TypeOK
  <2>4. [call[h] EXCEPT !.pc = "ballots"] \in Call
    BY DEF TypeOK, Call
  <2>5. TypeOK'
    BY <2>1, <2>2, <2>4, SamePolicy DEF TypeOK
  <2>6. ticket \notin {"approved", "rejected"}
    BY <1>2 DEF TicketFollowsInstance
  <2>7. \A x \in Slot : ballot[x] \notin Vote
    BY <1>2 DEF RowsMadeOnce, Vote
  <2>8. StagesDone'
    BY <2>1, <2>2, <2>7, SamePolicy DEF StagesDone, Stage
  <2>9. RowsMadeOnce'
    BY <1>2, <2>1, <2>2, <2>3, SamePolicy DEF RowsMadeOnce, TypeOK, Call
  <2>10. CallsCarryClicks'
    BY <2>1, <2>3 DEF CallsCarryClicks, TypeOK, Call
  <2> QED BY <2>1, <2>5, <2>6, <2>8, <2>9, <2>10, UsesKept DEF TicketFollowsInstance
<1> QED BY <1>1, <1>2

LEMMA InsertBallotsStep ==
  ASSUME WorkflowInvariant, NEW h \in Handler, InsertBallots(h)
  PROVE  WorkflowInvariant'
<1> USE DEF WorkflowInvariant
<1>1. /\ call[h].pc = "ballots"
      /\ ballot' = [x \in Slot |-> IF x[1] = 1 THEN "open" ELSE ballot[x]]
      /\ UNCHANGED <<policy, ticket, wf, usedBy, current, click, claim>>
  BY DEF InsertBallots
<1>2. \A x \in Slot : ballot[x] = "absent"
  BY <1>1 DEF RowsMadeOnce
<1>3. /\ \A x \in Slot : ballot'[x] \in {"absent", "open"}
      /\ ballot' \in [Slot -> {"absent", "open"} \cup Vote]
  BY <1>1, <1>2 DEF TypeOK
<1>4. wf.status # "none"
  BY <1>1 DEF RowsMadeOnce
<1>5. /\ \A k \in Handler : k # h => call'[k] = call[k]
      /\ call'[h] \in Call /\ call'[h].pc # "ballots" /\ call' \in [Handler -> Call]
      /\ call'[h].id # NoDecision =>
           call'[h].id = call[h].id /\ call'[h].voter = call[h].voter /\ call'[h].vote = call[h].vote
  <2>1. CASE call' = [call EXCEPT ![h] = Idle]
    BY <2>1 DEF TypeOK, Idle, Call, Vote
  <2>2. CASE call' = [call EXCEPT ![h].pc = "cast"]
    BY <2>2 DEF TypeOK, Call
  <2> QED BY <2>1, <2>2 DEF InsertBallots
<1>6. TypeOK'
  BY <1>1, <1>3, <1>5, SamePolicy DEF TypeOK
<1>7. RowsMadeOnce'
  BY <1>1, <1>4, <1>5, SamePolicy DEF RowsMadeOnce
<1>8. CallsCarryClicks'
  BY <1>1, <1>5 DEF CallsCarryClicks
<1>9. OneClickOneBallot'
  <2>1. \A x \in Slot : usedBy[x] = NoDecision
    <3> SUFFICES ASSUME NEW x \in Slot, usedBy[x] # NoDecision PROVE FALSE
      OBVIOUS
    <3>1. usedBy[x] \in Decision
      BY DEF TypeOK
    <3>2. click[usedBy[x]] = [voter |-> x[2], vote |-> ballot[x]]
      BY DEF OneClickOneBallot
    <3>3. click[usedBy[x]].vote = "absent"
      BY <1>2, <3>2
    <3>4. click[usedBy[x]].vote \in Vote
      BY <3>1 DEF TypeOK, Click, NoClick, Vote
    <3> QED BY <3>3, <3>4 DEF Vote
  <2> QED BY <1>1, <2>1, SamePolicy DEF OneClickOneBallot
<1>10. StagesDone'
  <2>1. ASSUME NEW s \in Stage, NEW vote \in Vote
        PROVE  Having(ballot, s, vote) = {} /\ Having(ballot', s, vote) = {}
    BY <1>2, <1>3, SlotFacts DEF Having, TypeOK, Vote
  <2>2. \A s \in Stage, vote \in Vote : Having(ballot, s, vote)' = Having(ballot, s, vote)
    BY <1>1, <2>1 DEF Having, Stages
  <2>3. \A s \in Stage : Done(s) => Done(s)'
    BY <1>1, <2>2, SamePolicy DEF Done, Vote
  <2>4. \A x \in Slot : ballot'[x] \notin Vote
    BY <1>3 DEF Vote
  <2> QED BY <1>1, <2>3, <2>4, SamePolicy DEF StagesDone
<1> QED BY <1>1, <1>6, <1>7, <1>8, <1>9, <1>10 DEF TicketFollowsInstance

(***************************************************************************)
(* A counted vote                                                          *)
(***************************************************************************)
\* What a counted vote does to the ballots: it fills an open one of the open stage.
LEMMA VoteFacts ==
  ASSUME WorkflowInvariant, NEW h \in Handler, CountVote(h)
  PROVE  /\ <<OpenStage, call[h].voter>> \in Slot
         /\ ballot[<<OpenStage, call[h].voter>>] = "open"
         /\ call[h].vote \in Vote
         /\ ballot' \in [Slot -> {"absent", "open"} \cup Vote]
         /\ \A x \in Slot : ballot'[x] =
              IF x = <<OpenStage, call[h].voter>> THEN call[h].vote ELSE ballot[x]
         /\ wf.status = "active" /\ ticket = "pending"
         /\ UNCHANGED <<policy, current, click, claim>>
         /\ call' = [call EXCEPT ![h] = Idle]
         /\ wf' = NewInstance(call[h])
         /\ ballot' = NewBallots(call[h])
<1> USE DEF WorkflowInvariant
<1>1. call[h] \in Call
  BY DEF TypeOK
<1>2. call[h].vote \in Vote
  BY <1>1 DEF Call
<1>3. /\ <<OpenStage, call[h].voter>> \in Slot
      /\ ballot[<<OpenStage, call[h].voter>>] = "open"
      /\ wf.status = "active" /\ ticket = "pending"
  BY DEF CountVote, Accepted, MayVote, OpenBallot
<1>4. ballot' = [ballot EXCEPT ![<<OpenStage, call[h].voter>>] = call[h].vote]
  BY DEF CountVote, NewBallots
<1>5. /\ ballot' \in [Slot -> {"absent", "open"} \cup Vote]
      /\ \A x \in Slot : ballot'[x] =
           IF x = <<OpenStage, call[h].voter>> THEN call[h].vote ELSE ballot[x]
  BY <1>2, <1>3, <1>4 DEF TypeOK
<1> QED BY <1>2, <1>3, <1>5 DEF CountVote

\* Where the instance goes: nowhere, to the next stage, to the final go or to its end.
LEMMA NewInstanceFacts ==
  ASSUME WorkflowInvariant, NEW h \in Handler, CountVote(h)
  PROVE  /\ wf' \in Instance
         /\ wf'.status \in {"active", "approved", "rejected"}
         /\ wf.finalPending => wf'.stage = wf.stage /\ ~wf'.finalPending /\ wf'.status # "active"
         /\ ~wf.finalPending =>
              \/ wf'.stage = wf.stage /\ ~wf'.finalPending
              \/ /\ QuorumMet(ballot', wf.stage) /\ ~Vetoed(ballot', wf.stage)
                 /\ wf'.status = "active"
                 /\ \/ wf'.stage = wf.stage + 1 /\ ~wf'.finalPending
                    \/ wf'.stage = wf.stage /\ wf'.finalPending /\ wf.stage = Len(Stages)
<1> USE DEF WorkflowInvariant
<1>1. /\ wf \in Instance /\ wf' = NewInstance(call[h]) /\ ballot' = NewBallots(call[h])
      /\ wf.status = "active" /\ call[h].vote \in Vote
  BY VoteFacts DEF TypeOK
<1>2. wf.stage \in 1..Len(Stages) /\ Len(Stages) \in Nat
  BY <1>1, PolicyFacts DEF TypeOK, Instance, Stage
<1>3. CASE wf.finalPending
  BY <1>1, <1>3 DEF NewInstance, Instance, Vote
<1>4. CASE ~wf.finalPending /\ wf' = [wf EXCEPT !.status = "rejected"]
  BY <1>1, <1>4 DEF Instance
<1>5. CASE ~wf.finalPending /\ wf' = wf
  BY <1>1, <1>5 DEF Instance
<1>6. CASE /\ ~wf.finalPending
           /\ QuorumMet(ballot', wf.stage) /\ ~Vetoed(ballot', wf.stage) /\ wf' = Advanced
  <2>1. CASE wf.stage < Len(Stages)
    <3>1. wf' = [wf EXCEPT !.stage = @ + 1]
      BY <1>6, <2>1 DEF Advanced
    <3>2. wf.stage + 1 \in Stage
      BY <1>2, <2>1 DEF Stage
    <3> QED BY <1>1, <1>6, <3>1, <3>2 DEF Instance
  <2>2. CASE wf.stage = Len(Stages) /\ FinalGo # NoVoter
    <3>1. wf' = [wf EXCEPT !.finalPending = TRUE]
      BY <1>6, <2>2 DEF Advanced
    <3>2. /\ wf'.finalPending = TRUE
          /\ wf'.stage = wf.stage /\ wf'.status = "active"
          /\ wf' \in Instance
      BY <1>1, <3>1 DEF Instance
    <3> QED BY <1>6, <2>2, <3>2
  <2>3. CASE wf.stage = Len(Stages) /\ FinalGo = NoVoter
    BY <1>1, <1>6, <2>3 DEF Advanced, Instance
  <2> QED BY <1>2, <2>1, <2>2, <2>3
<1> QED BY <1>1, <1>3, <1>4, <1>5, <1>6 DEF NewInstance

LEMMA VoteKeepsStages ==
  ASSUME WorkflowInvariant, NEW h \in Handler, CountVote(h)
  PROVE  StagesDone'
<1> USE DEF WorkflowInvariant
<1> DEFINE filled == <<OpenStage, call[h].voter>>
<1>1. /\ filled \in Slot /\ ballot[filled] = "open"
      /\ \A x \in Slot : ballot'[x] = IF x = filled THEN call[h].vote ELSE ballot[x]
      /\ wf.status = "active" /\ policy' = policy
  BY VoteFacts
<1>2. /\ wf \in Instance /\ wf' \in Instance /\ wf.stage \in Nat /\ wf.stage \in Stage
      /\ OpenStage = IF wf.finalPending THEN FINAL ELSE wf.stage
      /\ FINAL \notin Stage /\ Stage \subseteq Nat
  BY NewInstanceFacts, PolicyFacts DEF TypeOK, Instance, OpenStage, Stage, FINAL
<1>3. Stage' = Stage /\ Slot' = Slot /\ Stages' = Stages
      /\ \A s : Required(s)' = Required(s) /\ FailClosed(s)' = FailClosed(s)
  BY <1>1, SamePolicy
<1>4. ASSUME NEW s \in Stage, s # OpenStage, Done(s) PROVE Done(s)'
  <2>1. ASSUME NEW v \in Stages[s].voters PROVE ballot'[<<s, v>>] = ballot[<<s, v>>]
    BY <1>1, <1>4, SlotFacts DEF TypeOK
  <2>2. /\ Having(ballot, s, "approve")' = Having(ballot, s, "approve")
        /\ Having(ballot, s, "reject")' = Having(ballot, s, "reject")
    BY <1>3, <2>1 DEF Having
  <2> QED BY <1>3, <1>4, <2>2 DEF Done
<1>5. ASSUME NEW s \in Stage, QuorumMet(ballot', s), ~Vetoed(ballot', s) PROVE Done(s)'
  <2>1. /\ Cardinality(Having(ballot', s, "approve") \cap current) >= Required(s)
        /\ FailClosed(s) => Having(ballot', s, "reject") = {}
    BY <1>5 DEF QuorumMet, Vetoed
  <2>2. /\ Cardinality(Having(ballot', s, "approve") \cap current) \in Nat
        /\ Cardinality(Having(ballot', s, "approve")) \in Nat
        /\ Cardinality(Having(ballot', s, "approve") \cap current)
             <= Cardinality(Having(ballot', s, "approve"))
    BY HavingFacts DEF TypeOK
  <2>3. Required(s) \in Nat
    BY PolicyFacts DEF TypeOK
  <2>4. Cardinality(Having(ballot', s, "approve")) >= Required(s)
    BY <2>1, <2>2, <2>3
  <2>5. \A vote : Having(ballot, s, vote)' = Having(ballot', s, vote)
    BY <1>3 DEF Having
  <2> QED BY <1>3, <2>1, <2>4, <2>5 DEF Done
<1>6. /\ wf'.finalPending => wf'.status = "active"
      /\ wf'.finalPending \/ wf'.stage # wf.stage => ~wf.finalPending
  BY <1>1, <1>2, NewInstanceFacts DEF StagesDone
<1>7. ASSUME NEW s \in Stage, s < wf'.stage \/ wf'.finalPending PROVE Done(s)'
  <2>1. ~wf.finalPending \/ (s < wf.stage)
    BY <1>6, <1>7, NewInstanceFacts
  <2>2. CASE s < wf.stage
    BY <1>2, <1>4, <2>2 DEF StagesDone
  <2>3. CASE ~wf.finalPending /\ ~(s < wf.stage)
    <3>1. QuorumMet(ballot', wf.stage) /\ ~Vetoed(ballot', wf.stage) /\ s = wf.stage
      <4>1. wf.stage = Len(Stages) => s <= wf.stage
        BY PolicyFacts DEF TypeOK, Stage
      <4> QED BY <1>2, <1>7, <2>3, <4>1, NewInstanceFacts
    <3> QED BY <1>5, <3>1
  <2> QED BY <2>1, <2>2, <2>3
<1>8. ASSUME NEW x \in Slot, ballot'[x] \in Vote
      PROVE  IF x[1] = FINAL THEN ~wf'.finalPending /\ wf'.status # "active" /\ \A s \in Stage : Done(s)'
                             ELSE x[1] <= wf'.stage
  <2>1. wf'.stage >= wf.stage /\ wf'.stage \in Nat
    BY <1>2, NewInstanceFacts
  <2>2. CASE x # filled
    <3>1. x[1] # FINAL /\ x[1] <= wf.stage
      BY <1>1, <1>8, <2>2 DEF StagesDone
    <3>2. x[1] \in Nat
      BY <1>2, <3>1, SlotFacts DEF TypeOK
    <3> QED BY <1>2, <2>1, <3>1, <3>2
  <2>3. CASE x = filled /\ ~wf.finalPending
    BY <1>2, <2>1, <2>3
  <2>4. CASE x = filled /\ wf.finalPending
    <3>1. \A s \in Stage : Done(s)'
      BY <1>2, <1>4, <2>4 DEF StagesDone
    <3> QED BY <1>2, <2>4, <3>1, NewInstanceFacts
  <2> QED BY <2>2, <2>3, <2>4
<1> QED BY <1>3, <1>6, <1>7, <1>8 DEF StagesDone

LEMMA CountVoteStep ==
  ASSUME WorkflowInvariant, NEW h \in Handler, CountVote(h)
  PROVE  WorkflowInvariant'
<1> USE WorkflowConstants DEF WorkflowConstants, WorkflowInvariant
<1> DEFINE filled == <<OpenStage, call[h].voter>>
<1>1. /\ filled \in Slot /\ ballot[filled] = "open"
      /\ call[h].vote \in Vote
      /\ ballot' \in [Slot -> {"absent", "open"} \cup Vote]
      /\ \A x \in Slot : ballot'[x] = IF x = filled THEN call[h].vote ELSE ballot[x]
      /\ wf.status = "active" /\ ticket = "pending"
      /\ UNCHANGED <<policy, current, click, claim>>
      /\ call' = [call EXCEPT ![h] = Idle]
  BY VoteFacts
<1>2. /\ wf' \in Instance /\ wf'.status \in {"active", "approved", "rejected"}
      /\ ticket' = IF wf'.status = "active" THEN "pending" ELSE wf'.status
  BY <1>1, NewInstanceFacts DEF CountVote, Resolved
<1>3. /\ call[h].id \in Decision \cup {NoDecision}
      /\ usedBy' \in [Slot -> Decision \cup {NoDecision}]
      /\ \A x \in Slot : usedBy'[x] = IF x = filled THEN call[h].id ELSE usedBy[x]
  <2>1. call[h].id \in Decision \cup {NoDecision}
    BY DEF TypeOK, Call
  <2>2. usedBy' = [usedBy EXCEPT ![filled] = call[h].id]
    BY DEF CountVote
  <2> QED BY <1>1, <2>1, <2>2 DEF TypeOK
<1>4. Idle \in Call /\ Idle.pc # "ballots" /\ Idle.id = NoDecision
  BY DEF Idle, Call, Vote
<1>5. TypeOK'
  BY <1>1, <1>2, <1>3, <1>4, SamePolicy DEF TypeOK
<1>6. TicketFollowsInstance'
  BY <1>2 DEF TicketFollowsInstance
<1>7. \A k \in Handler : call[k].pc # "ballots"
  BY <1>1 DEF RowsMadeOnce
<1>8. \A k \in Handler : call'[k] = IF k = h THEN Idle ELSE call[k]
  BY <1>1 DEF TypeOK
<1>9. RowsMadeOnce' /\ CallsCarryClicks'
  BY <1>1, <1>2, <1>4, <1>7, <1>8 DEF RowsMadeOnce, CallsCarryClicks
<1>10. OneClickOneBallot'
  <2>1. call[h].id # NoDecision => \A x \in Slot : usedBy[x] # call[h].id
    BY DEF CountVote, Accepted, FreshDecision
  <2>2. call[h].id # NoDecision =>
          click[call[h].id] = [voter |-> call[h].voter, vote |-> call[h].vote]
    BY DEF CallsCarryClicks
  <2>3. filled[2] = call[h].voter
    OBVIOUS
  <2> SUFFICES ASSUME NEW x \in Slot, usedBy'[x] # NoDecision
               PROVE  /\ \A y \in Slot : usedBy'[y] = usedBy'[x] => y = x
                      /\ click[usedBy'[x]] = [voter |-> x[2], vote |-> ballot'[x]]
    BY <1>1, SamePolicy DEF OneClickOneBallot
  <2> HIDE DEF filled
  <2>4. CASE x = filled
    BY <1>1, <1>3, <2>1, <2>2, <2>3, <2>4
  <2>5. CASE x # filled
    BY <1>1, <1>3, <2>1, <2>5 DEF OneClickOneBallot
  <2> QED BY <2>4, <2>5
<1> QED BY <1>5, <1>6, <1>9, <1>10, VoteKeepsStages

LEMMA RecoverStep ==
  ASSUME WorkflowInvariant, NEW h \in Handler, Recover(h)
  PROVE  WorkflowInvariant'
<1> USE DEF WorkflowInvariant
<1>1. /\ ticket' = wf.status /\ wf.status \in {"approved", "rejected"}
      /\ call' = [call EXCEPT ![h] = Idle]
      /\ UNCHANGED <<policy, wf, ballot, usedBy, current, click, claim>>
  BY DEF Recover, CanRecover, Resolved
<1>2. Idle \in Call /\ Idle.pc # "ballots" /\ Idle.id = NoDecision
  BY DEF Idle, Call, Vote
<1>3. \A k \in Handler : call'[k] = IF k = h THEN Idle ELSE call[k]
  BY <1>1 DEF TypeOK
<1>4. TypeOK'
  BY <1>1, <1>2, SamePolicy DEF TypeOK
<1>5. RowsMadeOnce' /\ CallsCarryClicks'
  BY <1>1, <1>2, <1>3, SamePolicy DEF RowsMadeOnce, CallsCarryClicks
<1> QED BY <1>1, <1>4, <1>5, RowsKept, UsesKept DEF TicketFollowsInstance

\* The steps outside the calls.
LEMMA PressStep ==
  ASSUME WorkflowInvariant, NEW d \in Decision, NEW v \in Voter, NEW vote \in Vote, Press(d, v, vote)
  PROVE  WorkflowInvariant'
<1> USE WorkflowConstants DEF WorkflowConstants, WorkflowInvariant
<1>1. /\ click[d] = NoClick /\ click' = [click EXCEPT ![d] = [voter |-> v, vote |-> vote]]
      /\ UNCHANGED <<policy, ticket, wf, ballot, usedBy, current, call, claim>>
  BY DEF Press
<1>2. TypeOK'
  BY <1>1, SamePolicy DEF TypeOK, Click
<1>3. \A e \in Decision : click[e] # NoClick => click'[e] = click[e]
  BY <1>1 DEF TypeOK
<1>4. CallsCarryClicks'
  <2> SUFFICES ASSUME NEW h \in Handler, call[h].id # NoDecision
               PROVE  click'[call[h].id] = click[call[h].id]
    BY <1>1 DEF CallsCarryClicks
  <2>1. call[h].id \in Decision
    BY DEF TypeOK, Call
  <2>2. click[call[h].id].voter \in Voter /\ NoClick.voter = NoVoter
    <3>1. call[h].voter \in Voter /\ click[call[h].id] = [voter |-> call[h].voter, vote |-> call[h].vote]
      BY DEF CallsCarryClicks
    <3> QED BY <3>1 DEF NoClick
  <2> QED BY <1>3, <2>1, <2>2
<1>5. RowsMadeOnce'
  BY <1>1, SamePolicy DEF RowsMadeOnce
<1> QED BY <1>1, <1>2, <1>3, <1>4, <1>5, RowsKept, UsesKept DEF TicketFollowsInstance

LEMMA TicketStep ==
  ASSUME WorkflowInvariant, UNCHANGED <<policy, wf, ballot, usedBy, click, call>>,
         current' \subseteq Voter, claim' \in {"none", "running", "failed", "over"},
         ticket' \in {ticket, "closed", wf.status}, ticket' \in {ticket, "closed", "approved", "rejected"}
  PROVE  WorkflowInvariant'
<1> USE DEF WorkflowInvariant
<1>1. TypeOK'
  BY SamePolicy DEF TypeOK
<1>2. TicketFollowsInstance'
  BY DEF TicketFollowsInstance
<1>3. RowsMadeOnce' /\ CallsCarryClicks'
  BY SamePolicy DEF RowsMadeOnce, CallsCarryClicks
<1> QED BY <1>1, <1>2, <1>3, RowsKept, UsesKept

LEMMA WorkflowStep == WorkflowInvariant /\ [Next]_vars => WorkflowInvariant'
<1> SUFFICES ASSUME WorkflowInvariant, [Next]_vars PROVE WorkflowInvariant'
  OBVIOUS
<1> USE WorkflowConstants DEF WorkflowConstants
<1>1. CASE UNCHANGED vars
  BY <1>1, TicketStep DEF vars, WorkflowInvariant, TypeOK
<1>2. ASSUME NEW h \in Handler, HandlerNext(h) PROVE WorkflowInvariant'
  <2>1. CASE Initialize(h)
    BY <2>1, StartStep DEF Initialize, Vote
  <2>2. ASSUME NEW d \in Decision, Deliver(h, d) PROVE WorkflowInvariant'
    <3>1. click[d] \in Click
      BY <2>2 DEF Deliver, WorkflowInvariant, TypeOK
    <3>2. click[d] = [voter |-> click[d].voter, vote |-> click[d].vote]
          /\ click[d].voter \in Voter /\ click[d].vote \in Vote
      BY <3>1 DEF Click
    <3> QED BY <2>2, <3>2, StartStep DEF Deliver
  <2>3. ASSUME NEW v \in Voter, WebVote(h, v) PROVE WorkflowInvariant'
    BY <2>3, StartStep DEF WebVote
  <2>4. CASE VoteRefused(h) \/ Crash(h)
    BY <2>4, CallEnds DEF VoteRefused, Crash
  <2> QED BY <1>2, <2>1, <2>2, <2>3, <2>4, InsertInstanceStep, InsertBallotsStep, CountVoteStep, RecoverStep
          DEF HandlerNext
<1>3. ASSUME NEW v \in Voter, ChangeAuthority(v) PROVE WorkflowInvariant'
  BY <1>3, TicketStep DEF ChangeAuthority, WorkflowInvariant, TypeOK
<1>4. ASSUME NEW status \in {"approved", "rejected"}, NEW by \in Voter \cup {NoVoter},
             DirectResolve(status, by)
      PROVE  WorkflowInvariant'
  BY <1>4, TicketStep DEF DirectResolve, StatusGuard, WorkflowInvariant, TypeOK
<1>5. CASE Close
  BY <1>5, TicketStep DEF Close, WorkflowInvariant, TypeOK
<1>6. CASE ClaimExecution \/ FinishExecution
  BY <1>6, TicketStep DEF ClaimExecution, FinishExecution, WorkflowInvariant, TypeOK
<1> QED BY <1>1, <1>2, <1>3, <1>4, <1>5, <1>6, PressStep DEF Next

(***************************************************************************)
(* The theorems                                                            *)
(***************************************************************************)
\* The types, the properties of a state, and what they rest on.
THEOREM WorkflowInvariantHolds == Spec => []WorkflowInvariant
BY InitWorkflow, WorkflowStep, PTL DEF Spec

\* Every variable keeps to its values.
THEOREM TypeCorrect == Spec => []TypeOK
BY WorkflowInvariantHolds, PTL DEF WorkflowInvariant

\* A ticket is approved or rejected only as its instance is.
THEOREM TicketsFollowInstances == Spec => []TicketFollowsInstance
BY WorkflowInvariantHolds, PTL DEF WorkflowInvariant

\* A chat click is at most one ballot, of the person who clicked and with their vote.
THEOREM ClicksCountOnce == Spec => []OneClickOneBallot
BY WorkflowInvariantHolds, PTL DEF WorkflowInvariant

\* Nobody votes in a stage, or gives the final go, before the earlier stages are done.
THEOREM StagesCompleteInOrder == Spec => []StagesInOrder
<1>1. WorkflowInvariant => StagesInOrder
  <2> SUFFICES ASSUME WorkflowInvariant, NEW x \in Slot, ballot[x] \in Vote, NEW s \in Stage,
                      x[1] = FINAL \/ s < x[1]
               PROVE  Done(s)
    BY DEF StagesInOrder, Done, Having
  <2>1. CASE x[1] = FINAL
    BY <2>1 DEF WorkflowInvariant, StagesDone
  <2>2. CASE x[1] # FINAL
    <3>1. x[1] <= wf.stage /\ s < x[1]
      BY <2>2 DEF WorkflowInvariant, StagesDone
    <3>2. x[1] \in Nat /\ s \in Nat /\ wf.stage \in Nat
      BY <2>2, SlotFacts DEF WorkflowInvariant, TypeOK, Stage, Instance
    <3>3. s < wf.stage
      BY <3>1, <3>2
    <3> QED BY <3>3 DEF WorkflowInvariant, StagesDone
  <2> QED BY <2>1, <2>2
<1> QED BY <1>1, WorkflowInvariantHolds, PTL

\* A cast vote stands, and is cast in the stage that is open when it is counted.
THEOREM VotesStand == Spec => VotesAreFinal
<1>1. WorkflowInvariant /\ [Next]_vars =>
        [\A x \in Slot : ballot'[x] # ballot[x] /\ ballot[x] # "absent" =>
           ballot[x] = "open" /\ wf.status = "active" /\ x[1] = OpenStage]_vars
  <2> SUFFICES ASSUME WorkflowInvariant, [Next]_vars, NEW x \in Slot,
                      ballot'[x] # ballot[x], ballot[x] # "absent"
               PROVE  ballot[x] = "open" /\ wf.status = "active" /\ x[1] = OpenStage
    OBVIOUS
  <2>1. ASSUME NEW h \in Handler, CountVote(h)
        PROVE  ballot[x] = "open" /\ wf.status = "active" /\ x[1] = OpenStage
    <3>1. x = <<OpenStage, call[h].voter>>
      BY <2>1, VoteFacts
    <3>2. ballot[<<OpenStage, call[h].voter>>] = "open" /\ wf.status = "active"
      BY <2>1, VoteFacts
    <3> QED BY <3>1, <3>2
  <2>2. ASSUME NEW h \in Handler, InsertBallots(h) PROVE FALSE
    BY <2>2 DEF InsertBallots, WorkflowInvariant, RowsMadeOnce
  <2>3. ASSUME UNCHANGED ballot PROVE FALSE
    BY <2>3
  <2> QED BY <2>1, <2>2, <2>3
          DEF Next, HandlerNext, vars, Start, Initialize, Deliver, WebVote, InsertInstance, Recover, VoteRefused,
              Crash, Press, ChangeAuthority, DirectResolve, Close, ClaimExecution, FinishExecution
<1> QED BY <1>1, WorkflowInvariantHolds, PTL DEF Spec, VotesAreFinal

\* An execution starts only with the consent the policy asks for, given by members who may
\* give it at that moment.
THEOREM ExecutionsHaveConsent == Spec => ExecutionHasConsent
<1>1. WorkflowInvariant /\ Satisfied(wf, ballot) => Consent
  <2> SUFFICES ASSUME WorkflowInvariant, Satisfied(wf, ballot) PROVE Consent
    OBVIOUS
  <2>1. ASSUME NEW s \in Stage
        PROVE  /\ \E yes \in SUBSET (Stages[s].voters \cap current) :
                    Cardinality(yes) >= Required(s) /\ \A v \in yes : ballot[<<s, v>>] = "approve"
               /\ FailClosed(s) => \A v \in Stages[s].voters : ballot[<<s, v>>] # "reject"
    <3> DEFINE yes == Having(ballot, s, "approve") \cap current
    <3>1. yes \in SUBSET (Stages[s].voters \cap current) /\ \A v \in yes : ballot[<<s, v>>] = "approve"
      BY DEF Having
    <3>2. Cardinality(yes) >= Required(s)
      BY DEF Satisfied, QuorumMet
    <3>3. FailClosed(s) => \A v \in Stages[s].voters : ballot[<<s, v>>] # "reject"
      BY DEF Satisfied, Vetoed, Having
    <3> HIDE DEF yes
    <3> QED BY <3>1, <3>2, <3>3
  <2> QED BY <2>1 DEF Satisfied, Consent
<1>2. WorkflowInvariant /\ [Next]_vars => [claim # "running" /\ claim' = "running" => Consent]_vars
  <2> SUFFICES ASSUME WorkflowInvariant, [Next]_vars, claim # "running", claim' = "running"
               PROVE  Consent
    OBVIOUS
  <2>1. CASE ClaimExecution
    <3>1. wf.status = "approved"
      BY <2>1 DEF ClaimExecution, WorkflowInvariant, TicketFollowsInstance
    <3> QED BY <1>1, <2>1, <3>1 DEF ClaimExecution
  <2>2. claim' = claim \/ ClaimExecution \/ FinishExecution
    BY DEF Next, HandlerNext, vars, Start, Initialize, Deliver, WebVote, InsertInstance, InsertBallots, CountVote,
           Recover, VoteRefused, Crash, Press, ChangeAuthority, DirectResolve, Close
  <2> QED BY <2>1, <2>2 DEF FinishExecution
<1> QED BY <1>2, WorkflowInvariantHolds, PTL DEF Spec, ExecutionHasConsent

\* The vote that decides the instance decides the ticket with it.
THEOREM InstanceAndTicketTogether == Spec => DecidedTogether
<1>1. WorkflowInvariant /\ [Next]_vars =>
        [wf.status = "active" /\ wf'.status # "active" => ticket' = wf'.status]_vars
  <2> SUFFICES ASSUME WorkflowInvariant, [Next]_vars, wf.status = "active", wf'.status # "active"
               PROVE  ticket' = wf'.status
    OBVIOUS
  <2>1. ASSUME NEW h \in Handler, CountVote(h) PROVE ticket' = wf'.status
    BY <2>1 DEF CountVote, Resolved
  <2>2. ASSUME NEW h \in Handler, InsertInstance(h) PROVE FALSE
    BY <2>2 DEF InsertInstance
  <2>3. ASSUME UNCHANGED wf PROVE FALSE
    BY <2>3
  <2> QED BY <2>1, <2>2, <2>3
          DEF Next, HandlerNext, vars, Start, Initialize, Deliver, WebVote, InsertBallots, Recover, VoteRefused,
              Crash, Press, ChangeAuthority, DirectResolve, Close, ClaimExecution, FinishExecution
<1> QED BY <1>1, WorkflowInvariantHolds, PTL DEF Spec, DecidedTogether

(***************************************************************************)
(* The final go                                                            *)
(***************************************************************************)
\* Kind-route calls make no ballot for the final go: the premise of what follows.
NoKindFinalGo == \A p \in Policy : p.route = "kind" => p.finalGo = NoVoter

\* Who is named for the final go has a ballot; an instance waits for one only if somebody is.
FinalBallotMade ==
  /\ FinalGo # NoVoter => ballot[<<FINAL, FinalGo>>] # "absent"
  /\ wf.finalPending => FinalGo # NoVoter

LEMMA InitFinal ==
  ASSUME NoKindFinalGo, Init
  PROVE  FinalBallotMade
<1>1. policy \in Policy /\ ValidPolicy(policy)
  BY WorkflowConstants DEF Init, WorkflowConstants
<1>2. wf.finalPending = FALSE
  BY DEF Init, InitClass, InitGap, InitKind, Fresh, InstanceAt
<1>3. ASSUME FinalGo # NoVoter PROVE ballot[<<FINAL, FinalGo>>] # "absent"
  <2>1. policy.route = "class" /\ <<FINAL, FinalGo>> \in Slot
    BY <1>1, <1>3, SlotFacts DEF NoKindFinalGo, FinalGo, ValidPolicy
  <2>2. InitClass \/ InitGap
    BY <2>1 DEF Init
  <2> QED BY <2>1, <2>2 DEF InitClass, InitGap
<1> QED BY <1>2, <1>3 DEF FinalBallotMade

LEMMA FinalStep ==
  ASSUME WorkflowInvariant, FinalBallotMade, [Next]_vars
  PROVE  FinalBallotMade'
<1>0. policy \in Policy /\ (FinalGo # NoVoter => <<FINAL, FinalGo>> \in Slot)
  BY SlotFacts DEF WorkflowInvariant, TypeOK
<1>1. ASSUME NEW h \in Handler, CountVote(h) PROVE FinalBallotMade'
  <2>1. FinalGo' = FinalGo
    BY <1>1, VoteFacts, SamePolicy
  <2>2. FinalGo # NoVoter => ballot'[<<FINAL, FinalGo>>] # "absent"
    BY <1>0, <1>1, VoteFacts DEF FinalBallotMade, Vote
  <2>3. ASSUME wf'.finalPending PROVE FinalGo # NoVoter
    <3>1. wf \in Instance /\ wf' = NewInstance(call[h])
      BY <1>1, VoteFacts DEF WorkflowInvariant, TypeOK
    <3>2. ~wf.finalPending
      BY <1>1, <2>3, NewInstanceFacts
    <3> QED BY <2>3, <3>1, <3>2 DEF NewInstance, Advanced, Instance
  <2> QED BY <2>1, <2>2, <2>3 DEF FinalBallotMade
<1>2. ASSUME NEW h \in Handler, InsertInstance(h) PROVE FinalBallotMade'
  <2>1. UNCHANGED <<policy, ballot>> /\ (wf' = wf \/ wf' = Fresh)
    BY <1>2 DEF InsertInstance
  <2> QED BY <2>1, SamePolicy DEF FinalBallotMade, Fresh, InstanceAt
<1>3. ASSUME NEW h \in Handler, InsertBallots(h) PROVE FinalBallotMade'
  <2>1. \A x \in Slot : ballot[x] = "absent"
    BY <1>3 DEF InsertBallots, WorkflowInvariant, RowsMadeOnce
  <2>2. FinalGo = NoVoter /\ UNCHANGED <<policy, wf>>
    BY <1>0, <1>3, <2>1 DEF FinalBallotMade, InsertBallots
  <2> QED BY <2>2, SamePolicy DEF FinalBallotMade
<1>4. ASSUME UNCHANGED <<policy, wf, ballot>> PROVE FinalBallotMade'
  BY <1>4, SamePolicy DEF FinalBallotMade
<1> QED BY <1>1, <1>2, <1>3, <1>4
        DEF Next, HandlerNext, vars, Start, Initialize, Deliver, WebVote, Recover, VoteRefused,
            Crash, Press, ChangeAuthority, DirectResolve, Close, ClaimExecution, FinishExecution

\* Where no kind route has a final go, the person a ticket waits for has a ballot to give
\* it with, whatever voters, handlers and crashes did.
THEOREM FinalGoVotes == NoKindFinalGo => (Spec => []FinalGoCanVote)
<1> SUFFICES ASSUME NoKindFinalGo PROVE Spec => []FinalGoCanVote
  OBVIOUS
<1>1. Init => WorkflowInvariant /\ FinalBallotMade
  BY InitWorkflow, InitFinal
<1>2. WorkflowInvariant /\ FinalBallotMade /\ [Next]_vars => (WorkflowInvariant /\ FinalBallotMade)'
  BY WorkflowStep, FinalStep
<1>3. WorkflowInvariant /\ FinalBallotMade => FinalGoCanVote
  BY DEF FinalBallotMade, FinalGoCanVote
<1> QED BY <1>1, <1>2, <1>3, PTL DEF Spec

(***************************************************************************)
(* The life of the ticket                                                  *)
(***************************************************************************)
\* A step of the workflow is a step of the ticket's life or none.
LEMMA StepLives ==
  ASSUME WorkflowInvariant, [Next]_vars
  PROVE  [Life!Next]_(Life!vars)
<1> USE DEF Life!vars, Life!Next, LifeStatus
<1>1. CASE UNCHANGED <<ticket, claim>>
  BY <1>1
<1>2. ASSUME ticket = "pending", ticket' \in {"approved", "rejected"}, UNCHANGED claim
      PROVE  Life!Decide
  BY <1>2 DEF Life!Decide
<1>3. ASSUME NEW h \in Handler, CountVote(h) PROVE [Life!Next]_(Life!vars)
  <2>1. ticket = "pending" /\ UNCHANGED claim
    BY <1>3, VoteFacts
  <2>2. ticket' \in {"pending", "approved", "rejected"}
    BY <1>3, <2>1, NewInstanceFacts, VoteFacts DEF CountVote, Resolved
  <2> QED BY <1>1, <1>2, <2>1, <2>2
<1>4. ASSUME NEW h \in Handler, Recover(h) PROVE Life!Decide
  BY <1>2, <1>4 DEF Recover, CanRecover, MayVote, Resolved
<1>5. ASSUME NEW status \in {"approved", "rejected"}, NEW by \in Voter \cup {NoVoter},
             DirectResolve(status, by)
      PROVE  Life!Decide
  BY <1>2, <1>5 DEF DirectResolve
<1>6. CASE Close
  BY <1>6 DEF Close, Life!Close
<1>7. CASE ClaimExecution
  BY <1>7 DEF ClaimExecution, Life!Begin
<1>8. CASE FinishExecution
  BY <1>8 DEF FinishExecution, Life!End
<1> QED BY <1>1, <1>3, <1>4, <1>5, <1>6, <1>7, <1>8
        DEF Next, HandlerNext, vars, Start, Initialize, Deliver, WebVote, InsertInstance, InsertBallots,
            VoteRefused, Crash, Press, ChangeAuthority

\* For any policy, voters and calls the ticket and its claim live by TicketLife: what the
\* execution of approved tickets relies on is what the voting does.
THEOREM WorkflowKeepsTicketLife == Spec => ImplementsTicketLife
<1>1. Init => Life!Init
  BY DEF Init, Life!Init, LifeStatus
<1>2. WorkflowInvariant /\ [Next]_vars => [Life!Next]_(Life!vars)
  BY StepLives
<1> QED BY <1>1, <1>2, WorkflowInvariantHolds, PTL DEF Spec, ImplementsTicketLife, Life!Spec

(***************************************************************************)
(* No dead end of the voting                                               *)
(***************************************************************************)
\* The premise of NeverStuck.
Calm == current = Voter /\ QuorumReachable

\* What keeps a class-route ticket votable while everything is calm: every row is made, the
\* open stage is neither met nor vetoed (else the vote that did it had moved the instance),
\* and a decision the ticket has not followed can be finished by somebody who voted.
Votable ==
  /\ policy.route = "class" /\ ~policy.admin
  /\ wf.status # "none" /\ \A x \in Slot : ballot[x] # "absent"
  /\ wf.finalPending => FinalGo # NoVoter
  /\ wf.status = "active" /\ ~wf.finalPending =>
       ~QuorumMet(ballot, wf.stage) /\ ~Vetoed(ballot, wf.stage)
  /\ ticket = "pending" /\ wf.status # "active" =>
       (\E x \in Slot : ballot[x] \in Vote) /\ Commits(wf, ballot)

\* With everybody's authority intact the quorum counts every approval.
LEMMA EverybodyCounts ==
  ASSUME policy \in Policy, current = Voter, NEW b, NEW s \in Stage
  PROVE  QuorumMet(b, s) <=> Cardinality(Having(b, s, "approve")) >= Required(s)
<1>1. Having(b, s, "approve") \cap current = Having(b, s, "approve")
  BY PolicyFacts DEF Having
<1> QED BY <1>1 DEF QuorumMet

\* A stage without votes is open.
LEMMA NoVotesNoQuorum ==
  ASSUME policy \in Policy, NEW b, NEW s \in Stage,
         \A v \in Stages[s].voters : b[<<s, v>>] \notin Vote
  PROVE  ~QuorumMet(b, s) /\ ~Vetoed(b, s)
<1>1. Having(b, s, "approve") = {} /\ Having(b, s, "reject") = {}
  BY DEF Having, Vote
<1>2. Cardinality(Having(b, s, "approve") \cap current) = 0
  BY <1>1, FS_EmptySet
<1>3. Required(s) \in Nat /\ Required(s) >= 1
  BY PolicyFacts
<1> QED BY <1>1, <1>2, <1>3 DEF QuorumMet, Vetoed

LEMMA InitVotable ==
  ASSUME Init, policy.route = "class", ~policy.admin
  PROVE  Votable
<1>1. policy \in Policy /\ ticket = "pending" /\ current = Voter
  BY DEF Init
<1>2. PICK v \in Stages[1].voters : TRUE
  <2>1. Stages[1].voters # {}
    BY <1>1, PolicyFacts, FS_EmptySet
  <2> QED BY <2>1
<1>3. CASE InitClass
  <2>1. wf.status = "active" /\ wf.stage = 1 /\ ~wf.finalPending /\ \A x \in Slot : ballot[x] = "open"
    BY <1>3 DEF InitClass, Fresh, InstanceAt
  <2>2. ~QuorumMet(ballot, 1) /\ ~Vetoed(ballot, 1)
    BY <1>1, <2>1, PolicyFacts, SlotFacts, NoVotesNoQuorum DEF Vote
  <2> QED BY <2>1, <2>2 DEF Votable
<1>4. CASE wf = InstanceAt("approved", Len(Stages)) /\ ballot = [x \in Slot |-> "approve"]
  <2>1. wf.status = "approved" /\ ~wf.finalPending /\ \A x \in Slot : ballot[x] = "approve"
    BY <1>4 DEF InstanceAt
  <2>2. ASSUME NEW s \in Stage PROVE QuorumMet(ballot, s) /\ ~Vetoed(ballot, s)
    <3>1. \A u \in Stages[s].voters : ballot[<<s, u>>] = "approve"
      BY <1>1, <2>1, SlotFacts
    <3>2. Having(ballot, s, "approve") = Stages[s].voters /\ Having(ballot, s, "reject") = {}
      BY <3>1 DEF Having
    <3>3. Cardinality(Stages[s].voters) >= Required(s)
      BY <1>1, PolicyFacts
    <3> QED BY <1>1, <3>2, <3>3, EverybodyCounts DEF Vetoed
  <2>3. FinalGo # NoVoter => ballot[<<FINAL, FinalGo>>] = "approve" /\ FinalGo \in current
    BY <1>1, <2>1, SlotFacts, PolicyFacts
  <2>4. Commits(wf, ballot)
    BY <2>1, <2>2, <2>3 DEF Commits, Satisfied, AdminGuard
  <2>5. <<1, v>> \in Slot
    BY <1>1, <1>2, PolicyFacts, SlotFacts
  <2> QED BY <2>1, <2>4, <2>5 DEF Votable, Vote
<1>5. ASSUME wf = InstanceAt("rejected", 1), NEW u \in Stages[1].voters,
             ballot = [x \in Slot |-> IF x = <<1, u>> THEN "reject" ELSE "open"]
      PROVE  Votable
  <2>1. <<1, u>> \in Slot
    BY <1>1, PolicyFacts, SlotFacts
  <2>2. wf.status = "rejected" /\ ~wf.finalPending /\ ballot[<<1, u>>] = "reject"
    BY <1>5, <2>1 DEF InstanceAt
  <2> QED BY <1>5, <2>1, <2>2 DEF Votable, Vote, Commits
<1> QED BY <1>3, <1>4, <1>5 DEF Init, InitGap

LEMMA CountVoteVotable ==
  ASSUME WorkflowInvariant, Votable, NEW h \in Handler, CountVote(h)
  PROVE  Votable'
<1> DEFINE filled == <<OpenStage, call[h].voter>>
<1>1. /\ policy \in Policy /\ wf \in Instance /\ wf.stage \in Stage
      /\ policy' = policy /\ current' = current /\ wf.status = "active"
      /\ filled \in Slot /\ call[h].vote \in Vote
      /\ \A x \in Slot : ballot'[x] = IF x = filled THEN call[h].vote ELSE ballot[x]
      /\ wf' = NewInstance(call[h]) /\ ballot' = NewBallots(call[h])
  BY VoteFacts DEF WorkflowInvariant, TypeOK, Instance
<1>2. Slot' = Slot /\ Stage' = Stage /\ Stages' = Stages /\ FinalGo' = FinalGo
      /\ \A s : Required(s)' = Required(s) /\ FailClosed(s)' = FailClosed(s)
  BY <1>1, SamePolicy
<1>3. wf'.status \in {"active", "approved", "rejected"}
      /\ (ticket' = "pending" => wf'.status = "active")
  BY NewInstanceFacts, VoteFacts DEF CountVote, Resolved
<1>4. \A x \in Slot : ballot'[x] # "absent"
  BY <1>1 DEF Votable, Vote
<1>5. ASSUME wf'.finalPending PROVE FinalGo # NoVoter
  <2>1. ~wf.finalPending
    BY <1>5, NewInstanceFacts
  <2> QED BY <1>1, <1>5, <2>1 DEF NewInstance, Advanced, Instance
<1>6. ASSUME wf'.status = "active", ~wf'.finalPending
      PROVE  ~QuorumMet(ballot', wf'.stage) /\ ~Vetoed(ballot', wf'.stage)
  <2>1. ~wf.finalPending /\ OpenStage = wf.stage
    BY <1>6, NewInstanceFacts DEF OpenStage
  <2>2. CASE Vetoed(ballot', wf.stage)
    BY <1>1, <1>6, <2>1, <2>2 DEF NewInstance, Instance
  <2>3. CASE ~Vetoed(ballot', wf.stage) /\ ~QuorumMet(ballot', wf.stage)
    BY <1>1, <2>1, <2>3 DEF NewInstance
  <2>4. CASE ~Vetoed(ballot', wf.stage) /\ QuorumMet(ballot', wf.stage)
    <3>1. wf' = Advanced
      BY <1>1, <2>1, <2>4 DEF NewInstance
    <3>2. wf'.stage = wf.stage + 1
      BY <1>1, <1>6, <3>1 DEF Advanced, Instance
    <3>3. wf'.stage \in Stage /\ wf.stage \in Nat /\ wf'.stage # wf.stage
      BY <1>1, <1>2, <3>2, NewInstanceFacts DEF Instance, Stage
    <3>4. ASSUME NEW v \in Stages[wf'.stage].voters PROVE ballot'[<<wf'.stage, v>>] \notin Vote
      <4>1. <<wf'.stage, v>> \in Slot /\ <<wf'.stage, v>> # filled
        BY <1>1, <2>1, <3>3, SlotFacts
      <4>2. wf'.stage # FINAL /\ ~(wf'.stage <= wf.stage)
        BY <3>2, <3>3 DEF FINAL
      <4>3. ballot[<<wf'.stage, v>>] \notin Vote
        BY <4>1, <4>2 DEF WorkflowInvariant, StagesDone
      <4> QED BY <1>1, <4>1, <4>3
    <3> QED BY <1>1, <3>3, <3>4, NoVotesNoQuorum
  <2> QED BY <2>2, <2>3, <2>4
<1>7. \A s : /\ QuorumMet(ballot, s)' = QuorumMet(ballot', s)
             /\ Vetoed(ballot, s)' = Vetoed(ballot', s)
  BY <1>1, <1>2 DEF QuorumMet, Vetoed, Having
<1> QED BY <1>1, <1>2, <1>3, <1>4, <1>5, <1>6, <1>7 DEF Votable

LEMMA StepVotable ==
  ASSUME WorkflowInvariant, Votable, Calm, Calm', [Next]_vars
  PROVE  Votable'
<1>1. ASSUME UNCHANGED <<policy, wf, ballot, current>>,
             ticket' = "pending" => ticket = "pending"
      PROVE  Votable'
  <2>1. \A b, s : QuorumMet(b, s)' = QuorumMet(b', s) /\ Vetoed(b, s)' = Vetoed(b', s)
    BY <1>1, SamePolicy DEF QuorumMet, Vetoed, Having
  <2>2. Commits(wf, ballot)' = Commits(wf, ballot)
    BY <1>1, SamePolicy DEF Commits, Satisfied, AdminGuard, QuorumMet, Vetoed, Having
  <2>3. QuorumMet(ballot, wf.stage)' = QuorumMet(ballot, wf.stage)
        /\ Vetoed(ballot, wf.stage)' = Vetoed(ballot, wf.stage)
    BY <1>1, SamePolicy DEF QuorumMet, Vetoed, Having
  <2> QED BY <1>1, <2>2, <2>3, SamePolicy DEF Votable
<1>2. ASSUME NEW h \in Handler, InsertInstance(h) PROVE Votable'
  BY <1>1, <1>2 DEF InsertInstance, Votable
<1>3. ASSUME NEW h \in Handler, InsertBallots(h) PROVE FALSE
  <2>1. \A x \in Slot : ballot[x] = "absent"
    BY <1>3 DEF InsertBallots, WorkflowInvariant, RowsMadeOnce
  <2>2. Stages[1].voters # {}
    BY PolicyFacts, FS_EmptySet DEF WorkflowInvariant, TypeOK
  <2>3. Slot # {}
    BY <2>2, PolicyFacts, SlotFacts DEF WorkflowInvariant, TypeOK
  <2> QED BY <2>1, <2>3 DEF Votable
<1>4. ASSUME NEW h \in Handler, Recover(h) PROVE Votable'
  BY <1>1, <1>4 DEF Recover, CanRecover, MayVote
<1>5. ASSUME NEW status \in {"approved", "rejected"}, NEW by \in Voter \cup {NoVoter},
             DirectResolve(status, by)
      PROVE  Votable'
  BY <1>1, <1>5 DEF DirectResolve
<1>6. CASE Close
  BY <1>1, <1>6 DEF Close
<1>7. ASSUME NEW v \in Voter, ChangeAuthority(v) PROVE Votable'
  <2>1. current' = current
    BY DEF Calm
  <2> QED BY <1>1, <1>7, <2>1 DEF ChangeAuthority
<1>8. ASSUME UNCHANGED <<policy, wf, ballot, current, ticket>> PROVE Votable'
  BY <1>1, <1>8
<1> QED BY <1>2, <1>3, <1>4, <1>5, <1>6, <1>7, <1>8, CountVoteVotable
        DEF Next, HandlerNext, vars, Start, Initialize, Deliver, WebVote, VoteRefused, Crash, Press,
            ClaimExecution, FinishExecution

\* The last stage or the final go: an approved instance is satisfied, so the vote commits.
LEMMA VoteCommits ==
  ASSUME WorkflowInvariant, Votable, Calm, wf.status = "active", ticket = "pending",
         NEW v \in Voter, NEW vote \in Vote, <<OpenStage, v>> \in Slot,
         ballot[<<OpenStage, v>>] = "open"
  PROVE  LET c == Casting(v, vote) IN Accepted(c) /\ Commits(NewInstance(c), NewBallots(c))
<1> DEFINE c == Casting(v, vote)
           b == NewBallots(c)
           w == NewInstance(c)
<1>1. c.voter = v /\ c.vote = vote /\ c.id = NoDecision /\ c.expected = OpenStage
  BY DEF Casting
<1>2. Accepted(c)
  BY <1>1 DEF Accepted, MayVote, FreshDecision, OpenBallot, Calm, Votable
<1>3. /\ policy \in Policy /\ current = Voter /\ ~policy.admin
      /\ wf \in Instance /\ wf.stage \in Stage
  BY DEF WorkflowInvariant, TypeOK, Instance, Calm, Votable
<1>4. \A x \in Slot : b[x] = IF x = <<OpenStage, v>> THEN vote ELSE ballot[x]
  BY <1>1 DEF NewBallots, WorkflowInvariant, TypeOK
<1>5. ASSUME NEW s \in Stage, s # OpenStage, Done(s) PROVE QuorumMet(b, s) /\ ~Vetoed(b, s)
  <2>1. \A u \in Stages[s].voters : b[<<s, u>>] = ballot[<<s, u>>]
    BY <1>3, <1>4, <1>5, SlotFacts
  <2>2. \A x \in Vote : Having(b, s, x) = Having(ballot, s, x)
    BY <2>1 DEF Having
  <2> QED BY <1>3, <1>5, <2>2, EverybodyCounts DEF Done, Vetoed, Vote
<1>6. CASE wf.finalPending
  <2>1. OpenStage = FINAL /\ v = FinalGo /\ FinalGo # NoVoter
    BY <1>3, <1>6, SlotFacts DEF OpenStage
  <2>2. \A s \in Stage : QuorumMet(b, s) /\ ~Vetoed(b, s)
    BY <1>5, <1>6, <2>1 DEF WorkflowInvariant, StagesDone, Stage, FINAL
  <2>3. ~w.finalPending /\ (w.status = "approved" => vote = "approve")
    BY <1>1, <1>3, <1>6 DEF NewInstance, Instance
  <2>4. vote = "approve" => b[<<FINAL, FinalGo>>] = "approve" /\ FinalGo \in current
    BY <1>3, <1>4, <2>1
  <2>5. Commits(w, b)
    BY <1>3, <2>2, <2>3, <2>4 DEF Commits, Satisfied, AdminGuard
  <2> QED BY <1>2, <2>5
<1>7. CASE ~wf.finalPending
  <2>1. OpenStage = wf.stage
    BY <1>7 DEF OpenStage
  <2>2. ASSUME w.status = "approved" PROVE Satisfied(w, b)
    <3>1. QuorumMet(b, wf.stage) /\ ~Vetoed(b, wf.stage) /\ w = Advanced
      BY <1>3, <1>7, <2>2 DEF NewInstance, Instance
    <3>2. ~(wf.stage < Len(Stages)) /\ FinalGo = NoVoter /\ ~w.finalPending
      BY <1>3, <1>7, <2>2, <3>1 DEF Advanced, Instance
    <3>3. ASSUME NEW s \in Stage PROVE QuorumMet(b, s) /\ ~Vetoed(b, s)
      <4>1. s = wf.stage \/ s < wf.stage
        BY <1>3, <3>2, PolicyFacts DEF Stage
      <4>2. s # wf.stage => Done(s)
        BY <4>1 DEF WorkflowInvariant, StagesDone
      <4> QED BY <1>5, <2>1, <3>1, <4>2
    <3> QED BY <2>2, <3>2, <3>3 DEF Satisfied
  <2>3. Commits(w, b)
    BY <1>3, <2>2 DEF Commits, AdminGuard
  <2> QED BY <1>2, <2>3
<1> QED BY <1>6, <1>7

\* An undecided stage whose quorum is in reach has an open ballot.
LEMMA OpenBallotLeft ==
  ASSUME WorkflowInvariant, Votable, Calm, wf.status = "active", ~wf.finalPending
  PROVE  \E v \in Stages[wf.stage].voters : ballot[<<wf.stage, v>>] = "open"
<1> DEFINE s == wf.stage
           voters == Stages[s].voters
<1>1. policy \in Policy /\ s \in Stage /\ current = Voter
  BY DEF WorkflowInvariant, TypeOK, Instance, Calm
<1>2. SUFFICES ASSUME \A v \in voters : ballot[<<s, v>>] # "open" PROVE FALSE
  OBVIOUS
<1>3. \A v \in voters : ballot[<<s, v>>] \in Vote
  BY <1>1, <1>2, SlotFacts DEF WorkflowInvariant, TypeOK, Votable
<1>4. voters \ Having(ballot, s, "reject") = Having(ballot, s, "approve")
  BY <1>3 DEF Having, Vote
<1>5. Cardinality(Having(ballot, s, "approve")) >= Required(s)
  BY <1>4 DEF Calm, QuorumReachable
<1> QED BY <1>1, <1>5, EverybodyCounts DEF Votable

LEMMA CalmHasAVoter ==
  ASSUME WorkflowInvariant, Votable, Calm, ticket = "pending"
  PROVE  SomebodyCanVote
<1>1. policy \in Policy /\ wf \in Instance /\ wf.stage \in Stage
  BY DEF WorkflowInvariant, TypeOK, Instance
<1>2. ASSUME NEW x \in Slot PROVE x[2] \in Named /\ x[2] \in Voter /\ x = <<x[1], x[2]>>
  BY <1>1, SlotFacts DEF Named
<1>3. CASE wf.status = "active" /\ ~wf.finalPending
  <2>1. PICK v \in Stages[wf.stage].voters : ballot[<<wf.stage, v>>] = "open"
    BY <1>3, OpenBallotLeft
  <2>2. OpenStage = wf.stage /\ <<wf.stage, v>> \in Slot
    BY <1>1, <1>3, SlotFacts DEF OpenStage
  <2>3. v \in Named /\ v \in Voter
    BY <1>2, <2>2
  <2> QED BY <1>3, <2>1, <2>2, <2>3, VoteCommits DEF SomebodyCanVote
<1>4. CASE wf.status = "active" /\ wf.finalPending
  <2>1. FinalGo # NoVoter /\ <<FINAL, FinalGo>> \in Slot /\ OpenStage = FINAL
    BY <1>1, <1>4, SlotFacts DEF Votable, OpenStage
  <2>2. ballot[<<FINAL, FinalGo>>] = "open"
    BY <1>4, <2>1 DEF Votable, WorkflowInvariant, StagesDone, TypeOK
  <2>3. FinalGo \in Named /\ FinalGo \in Voter
    BY <1>2, <2>1
  <2> QED BY <1>4, <2>1, <2>2, <2>3, VoteCommits DEF SomebodyCanVote
<1>5. CASE wf.status # "active"
  <2>1. PICK x \in Slot : ballot[x] \in Vote
    BY <1>5 DEF Votable
  <2>2. wf.status \in {"approved", "rejected"} /\ Commits(wf, ballot)
    BY <1>1, <1>5 DEF Votable, Instance
  <2>3. ASSUME NEW vote \in Vote PROVE CanRecover(Casting(x[2], vote))
    BY <1>2, <2>1, <2>2 DEF CanRecover, Casting, MayVote, Calm, Votable
  <2> QED BY <1>2, <2>1, <2>3 DEF SomebodyCanVote
<1> QED BY <1>3, <1>4, <1>5

\* The voting of a class route never comes to a dead end, for any policy, voters, clicks and
\* calls: what is left to ClassVotesDecide is that somebody does vote.
THEOREM VotingNeverStuck == Spec => NeverStuck
<1>1. Init /\ policy.route = "class" /\ ~policy.admin => Votable
  BY InitVotable
<1>2. WorkflowInvariant /\ Votable /\ Calm /\ Calm' /\ [Next]_vars => Votable'
  BY StepVotable
<1>3. WorkflowInvariant /\ Votable /\ Calm => (ticket = "pending" => SomebodyCanVote)
  BY CalmHasAVoter
<1> QED BY <1>1, <1>2, <1>3, WorkflowInvariantHolds, PTL DEF Spec, NeverStuck, Calm
=============================================================================
