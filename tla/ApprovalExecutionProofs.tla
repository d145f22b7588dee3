---------------------- MODULE ApprovalExecutionProofs ----------------------
(***************************************************************************)
(* Proofs about ApprovalExecution, for every set of tickets, calls and     *)
(* notifiers and every number of stops.                                    *)
(***************************************************************************)
EXTENDS ApprovalExecution, TLAPS

\* The row that a call or a notifier copies is a value of its copy.
LEMMA RowIsCopy ==
  ASSUME TypeOK, NEW t \in Ticket
  PROVE  Row(t) \in Copy
BY DEF TypeOK, Row, Copy

\* A result is recorded and reported with values the tables allow.
LEMMA RecordedAndVerdict ==
  ASSUME NEW r \in Result
  PROVE  Recorded(r) \subseteq Fulfillment /\ Verdict(r) \in ClaimState
BY DEF Result, Recorded, Verdict, Fulfillment, ClaimState

(***************************************************************************)
(* Types                                                                   *)
(***************************************************************************)
LEMMA NoCopyIsCopy == NoCopy \in Copy
BY DEF NoCopy, Copy, Status, Fulfillment, Marker

LEMMA InitType == Init => TypeOK
<1> SUFFICES ASSUME Init PROVE TypeOK
  OBVIOUS
<1> USE DEF Init
<1>1. /\ status \in [Ticket -> Status]
      /\ fulfillment \in [Ticket -> Fulfillment]
      /\ held \in [Ticket -> Marker]
      /\ filing \in [Ticket -> BOOLEAN]
  BY DEF Status, Decision, Closed, Fulfillment, Marker
<1>2. claimState \in [Ticket -> ClaimState] /\ claimId \in [Ticket -> Attempt \cup {NoAttempt}]
  BY DEF ClaimState
<1>5. onHold \in BOOLEAN
  OBVIOUS
<1>7. holdCount \in 0..HoldLimit
  BY ConstantsAssumption DEF ConstantsAssumption
<1>6. delivered \in [Ticket -> Nat]
  OBVIOUS
<1>3. /\ pc \in [Attempt -> Pc]
      /\ ticket \in [Attempt -> Ticket \cup {NoTicket}]
      /\ copy \in [Attempt -> Copy]
      /\ result \in [Attempt -> Result]
  BY NoCopyIsCopy DEF Pc, PreClaim, Result
<1>4. note \in [Notifier -> [ticket : Ticket \cup {NoTicket}, row : Copy]]
  BY NoCopyIsCopy
<1> QED BY <1>1, <1>2, <1>3, <1>4, <1>5, <1>6, <1>7 DEF TypeOK

LEMMA TicketStepType ==
  ASSUME TypeOK, NEW t \in Ticket, TicketStep(t)
  PROVE  TypeOK'
<1> USE DEF TypeOK, Status, Decision, Closed, rowVars, claimVars, holdVars, callVars, historyVars
<1>1. CASE InsertApproval(t)
  BY <1>1 DEF InsertApproval
<1>2. CASE WritePollPath(t)
  BY <1>2 DEF WritePollPath, Fulfillment, Marker
<1>3. CASE \E d \in Decision : ResolveApproval(t, d)
  BY <1>3 DEF ResolveApproval
<1>4. CASE \E to \in Closed : CloseWithoutSend(t, to)
  BY <1>4 DEF CloseWithoutSend
<1> QED BY <1>1, <1>2, <1>3, <1>4 DEF TicketStep

LEMMA NotifierStepType ==
  ASSUME TypeOK, NEW n \in Notifier, NotifierStep(n)
  PROVE  TypeOK'
<1> USE DEF rowVars, claimVars, holdVars, callVars, historyVars
<1>1. ASSUME NEW t \in Ticket, NotifierRead(n, t) PROVE TypeOK'
  <2>1. Row(t) \in Copy BY RowIsCopy
  <2> QED BY <1>1, <2>1 DEF NotifierRead, TypeOK
<1>2. CASE UpdateTelegramState(n)
  <2> DEFINE t == note[n].ticket
  <2>1. t \in Ticket /\ note[n].row \in Copy
    BY <1>2 DEF UpdateTelegramState, TypeOK
  <2>2. note[n].row.fulfillment \in Fulfillment /\ note[n].row.held \in Marker
    BY <2>1 DEF Copy
  <2> QED BY <1>2, <2>1, <2>2, NoCopyIsCopy DEF UpdateTelegramState, TypeOK
<1> QED BY <1>1, <1>2 DEF NotifierStep

LEMMA HoldStepType ==
  ASSUME TypeOK, HoldStep
  PROVE  TypeOK'
<1> USE ConstantsAssumption DEF ConstantsAssumption, TypeOK, Marker, rowVars, claimVars, holdVars, callVars, historyVars
<1>1. CASE StartHold
  BY <1>1 DEF StartHold, Taggable
<1>2. CASE ReleaseHold
  BY <1>2 DEF ReleaseHold
<1> QED BY <1>1, <1>2 DEF HoldStep

LEMMA LoadType ==
  ASSUME TypeOK, NEW a \in Attempt, NEW t \in Ticket, LoadApproval(a, t)
  PROVE  TypeOK'
<1>1. Row(t) \in Copy BY RowIsCopy
<1> QED BY <1>1 DEF LoadApproval, TypeOK, Pc, PreClaim, rowVars, claimVars, holdVars, historyVars

LEMMA CallStepType ==
  ASSUME TypeOK, CallHasTicket, NEW a \in Attempt, CallStep(a)
  PROVE  TypeOK'
<1> USE DEF Pc, PreClaim, UnderClaim, Ended, rowVars, claimVars, holdVars, callVars, historyVars
<1>t. pc[a] # "idle" => ticket[a] \in Ticket BY DEF CallHasTicket
<1>1. CASE ReturnWithoutClaim(a) BY <1>1 DEF ReturnWithoutClaim, TypeOK
<1>2. CASE PolicyAllows(a) BY <1>2 DEF PolicyAllows, TypeOK
<1>3. CASE PolicyBlocks(a) BY <1>3 DEF PolicyBlocks, TypeOK
<1>4. CASE BlockFulfillment(a) BY <1>4, <1>t DEF BlockFulfillment, TypeOK, Fulfillment
<1>5. CASE AuthorityAllows(a) BY <1>5 DEF AuthorityAllows, TypeOK
<1>6. CASE AuthorityRefuses(a) BY <1>6 DEF AuthorityRefuses, TypeOK
<1>7. CASE ClaimExecution(a)
  <2>1. ticket[a] \in Ticket BY <1>7, <1>t DEF ClaimExecution
  <2>2. Row(ticket[a]) \in Copy BY <2>1, RowIsCopy
  <2> QED BY <1>7, <2>1, <2>2 DEF ClaimExecution, TypeOK, ClaimState
<1>8. CASE ClaimRefused(a) BY <1>8 DEF ClaimRefused, TypeOK
<1>9. CASE RecheckAllows(a) BY <1>9 DEF RecheckAllows, TypeOK
<1>10. CASE RecheckRefuses(a) BY <1>10 DEF RecheckRefuses, TypeOK, Result
<1>11. CASE StopBeforeSend(a) BY <1>11 DEF StopBeforeSend, TypeOK, Result
<1>12. CASE \E to \in Closed : CloseAtFulfill(a, to)
  BY <1>12, <1>t DEF CloseAtFulfill, TypeOK, Status, Result
<1>13. CASE PreSendCheck(a) BY <1>13 DEF PreSendCheck, TypeOK
<1>14. ASSUME NEW r \in Result, NEW n \in {0, 1}, Answer(a, r, n) PROVE TypeOK'
  BY <1>14, <1>t DEF Answer, TypeOK
<1>15. CASE PersistFulfillment(a)
  <2>1. Recorded(result[a]) \subseteq Fulfillment
    BY RecordedAndVerdict DEF TypeOK
  <2> QED BY <1>15, <1>t, <2>1 DEF PersistFulfillment, TypeOK
<1>16. CASE PersistFails(a) BY <1>16, <1>t DEF PersistFails, TypeOK, Fulfillment, Result
<1>17. CASE FinishExecution(a)
  <2>1. Verdict(result[a]) \in ClaimState
    BY RecordedAndVerdict DEF TypeOK
  <2> QED BY <1>17, <1>t, <2>1 DEF FinishExecution, TypeOK
<1>18. CASE FinishUnavailable(a) BY <1>18 DEF FinishUnavailable, TypeOK
<1> QED
  BY <1>1, <1>2, <1>3, <1>4, <1>5, <1>6, <1>7, <1>8, <1>9, <1>10, <1>11, <1>12, <1>13, <1>14,
     <1>15, <1>16, <1>17, <1>18
  DEF CallStep, ProviderAccepts, ProviderRefuses, ProviderUnclear, Result

LEMMA CrashType ==
  ASSUME TypeOK, NEW a \in Attempt, Crash(a)
  PROVE  TypeOK'
BY DEF Crash, TypeOK, Pc, Ended, rowVars, claimVars, holdVars, historyVars

(***************************************************************************)
(* The execution invariant                                                 *)
(***************************************************************************)
\* What is left of ExecutionInvariant when the types are known.
Core ==
  CallHasTicket /\ ClaimIsHeld /\ CallKnowsItsSend /\ AtMostOnce /\ SafeToRunAgain /\ SuccessIsReal

LEMMA InitCore == Init => Core
BY DEF Init, Core, CallHasTicket, ClaimIsHeld, CallKnowsItsSend, AtMostOnce, SafeToRunAgain,
       SuccessIsReal, UnderClaim, NoCopy

\* Steps that touch neither claims, nor calls, nor notes, nor the provider keep Core
\* when they make no row show a success it did not show.
LEMMA OutsideStep ==
  ASSUME TypeOK, Core,
         UNCHANGED <<claimVars, callVars, note, delivered>>,
         \A t \in Ticket : fulfillment'[t] = "ok" => fulfillment[t] = "ok"
  PROVE  Core'
BY DEF TypeOK, Core, CallHasTicket, ClaimIsHeld, CallKnowsItsSend, AtMostOnce, SafeToRunAgain,
       SuccessIsReal, claimVars, callVars

LEMMA TicketStepCore ==
  ASSUME TypeOK, Core, NEW t \in Ticket, TicketStep(t)
  PROVE  Core'
<1>1. UNCHANGED <<claimVars, callVars, note, delivered>>
  BY DEF TicketStep, InsertApproval, WritePollPath, ResolveApproval, CloseWithoutSend
<1>2. \A u \in Ticket : fulfillment'[u] = "ok" => fulfillment[u] = "ok"
  BY DEF TypeOK, TicketStep, InsertApproval, WritePollPath, ResolveApproval, CloseWithoutSend
<1> QED BY <1>1, <1>2, OutsideStep

LEMMA HoldStepCore ==
  ASSUME TypeOK, Core, HoldStep
  PROVE  Core'
<1>1. UNCHANGED <<claimVars, callVars, note, delivered, fulfillment>>
  BY DEF HoldStep, StartHold, ReleaseHold
<1> QED BY <1>1, OutsideStep

LEMMA NotifierStepCore ==
  ASSUME TypeOK, Core, NEW n \in Notifier, NotifierStep(n)
  PROVE  Core'
<1> USE DEF Core, claimVars, callVars
<1>1. ASSUME NEW t \in Ticket, NotifierRead(n, t) PROVE Core'
  <2>1. SuccessIsReal' /\ CallHasTicket'
    BY <1>1 DEF NotifierRead, TypeOK, SuccessIsReal, CallHasTicket, Row, rowVars
  <2>2. ClaimIsHeld' /\ CallKnowsItsSend' /\ AtMostOnce' /\ SafeToRunAgain'
    BY <1>1 DEF NotifierRead, ClaimIsHeld, CallKnowsItsSend, AtMostOnce, SafeToRunAgain
  <2> QED BY <2>1, <2>2
<1>2. CASE UpdateTelegramState(n)
  <2>1. note[n].ticket \in Ticket
    BY <1>2 DEF UpdateTelegramState, TypeOK
  <2>2. SuccessIsReal' /\ CallHasTicket'
    BY <1>2, <2>1 DEF UpdateTelegramState, TypeOK, SuccessIsReal, CallHasTicket, NoCopy
  <2>3. ClaimIsHeld' /\ CallKnowsItsSend' /\ AtMostOnce' /\ SafeToRunAgain'
    BY <1>2 DEF UpdateTelegramState, ClaimIsHeld, CallKnowsItsSend, AtMostOnce, SafeToRunAgain
  <2> QED BY <2>2, <2>3
<1> QED BY <1>1, <1>2 DEF NotifierStep

\* What a call knows of its own message at each point: CallKnowsItsSend for one call.
Knows(a) ==
  /\ pc[a] \in {"claimed", "executing", "sending"} => delivered[ticket[a]] = 0
  /\ pc[a] \in {"persisting", "finishing"} /\ result[a] = "ok" => delivered[ticket[a]] = 1
  /\ pc[a] \in {"persisting", "finishing"} /\ result[a] = "refused" => delivered[ticket[a]] = 0

\* Steps of one call that leave the claim, the copies and the provider alone keep Core
\* when the call enters no claim, still knows its own send and records no success but
\* a real one.
LEMMA QuietCallStep ==
  ASSUME TypeOK, Core, NEW a \in Attempt,
         UNCHANGED <<claimVars, ticket, copy, note, delivered>>,
         pc[a] # "idle",
         \A b \in Attempt \ {a} : pc'[b] = pc[b] /\ result'[b] = result[b],
         pc'[a] \in UnderClaim => pc[a] \in UnderClaim,
         Knows(a)',
         \A t \in Ticket : fulfillment'[t] = "ok" => fulfillment[t] = "ok" \/ delivered[t] = 1
  PROVE  Core'
<1> USE DEF claimVars
<1>1. CallHasTicket'
  BY DEF Core, CallHasTicket
<1>2. ClaimIsHeld'
  BY DEF Core, ClaimIsHeld
<1>3. CallKnowsItsSend'
  BY DEF Core, CallKnowsItsSend, Knows
<1>4. AtMostOnce' /\ SafeToRunAgain'
  BY DEF Core, AtMostOnce, SafeToRunAgain
<1>5. SuccessIsReal'
  BY DEF Core, SuccessIsReal
<1> QED BY <1>1, <1>2, <1>3, <1>4, <1>5 DEF Core

LEMMA LoadCore ==
  ASSUME TypeOK, Core, NEW a \in Attempt, NEW t \in Ticket, LoadApproval(a, t)
  PROVE  Core'
<1> USE DEF LoadApproval, TypeOK, Core, claimVars, rowVars
<1>1. CallHasTicket'
  BY DEF CallHasTicket
<1>2. ClaimIsHeld'
  BY DEF ClaimIsHeld, UnderClaim
<1>3. CallKnowsItsSend'
  BY DEF CallKnowsItsSend
<1>4. AtMostOnce' /\ SafeToRunAgain'
  BY DEF AtMostOnce, SafeToRunAgain
<1>5. SuccessIsReal'
  BY DEF SuccessIsReal, Row
<1> QED BY <1>1, <1>2, <1>3, <1>4, <1>5

\* Claiming: the row was claimable, so nothing was sent and nobody else holds it.
LEMMA ClaimCore ==
  ASSUME TypeOK, Core, NEW a \in Attempt, ClaimExecution(a)
  PROVE  Core'
<1> DEFINE t == ticket[a]
<1>1. t \in Ticket /\ pc[a] = "authorized" /\ Claimable(t)
  BY DEF ClaimExecution, Core, CallHasTicket
<1>2. claimState[t] \in {"none", "failed"} /\ delivered[t] = 0 /\ fulfillment[t] # "ok"
  BY <1>1 DEF Claimable, Core, SafeToRunAgain
<1>3. \A b \in Attempt : pc[b] \in UnderClaim => ticket[b] # t
  BY <1>2 DEF Core, ClaimIsHeld
<1>4. CallHasTicket'
  BY <1>1 DEF ClaimExecution, Core, CallHasTicket, TypeOK
<1>5. ClaimIsHeld'
  <2> SUFFICES ASSUME NEW b \in Attempt, pc'[b] \in UnderClaim
               PROVE  claimState'[ticket'[b]] = "running" /\ claimId'[ticket'[b]] = b
    BY DEF ClaimIsHeld
  <2>1. CASE b = a
    BY <2>1, <1>1 DEF ClaimExecution, TypeOK
  <2>2. CASE b # a
    <3>1. pc[b] \in UnderClaim /\ ticket[b] # t
      BY <2>2, <1>3 DEF ClaimExecution, TypeOK
    <3>2. ticket[b] \in Ticket
      BY <3>1 DEF Core, CallHasTicket, UnderClaim
    <3> QED BY <3>1, <3>2 DEF ClaimExecution, TypeOK, Core, ClaimIsHeld
  <2> QED BY <2>1, <2>2
<1>6. CallKnowsItsSend'
  BY <1>1, <1>2 DEF ClaimExecution, TypeOK, Core, CallKnowsItsSend
<1>7. AtMostOnce' /\ SafeToRunAgain'
  BY <1>1 DEF ClaimExecution, TypeOK, Core, AtMostOnce, SafeToRunAgain
<1>8. SuccessIsReal'
  BY <1>1, <1>2 DEF ClaimExecution, TypeOK, Core, SuccessIsReal, Row, rowVars
<1> QED BY <1>4, <1>5, <1>6, <1>7, <1>8 DEF Core

\* The provider answers: the only step that sends, and by a call that alone holds the
\* claim of a ticket not sent before.
LEMMA AnswerCore ==
  ASSUME TypeOK, Core, NEW a \in Attempt, NEW r \in Result, NEW n \in {0, 1}, Answer(a, r, n),
         r = "ok" => n = 1, r = "refused" => n = 0
  PROVE  Core'
<1> DEFINE t == ticket[a]
<1>1. t \in Ticket /\ pc[a] = "sending" /\ delivered[t] = 0
  BY DEF Answer, Core, CallHasTicket, CallKnowsItsSend
<1>2. claimState[t] = "running" /\ claimId[t] = a
  BY <1>1 DEF Core, ClaimIsHeld, UnderClaim
<1>3. delivered' = [delivered EXCEPT ![t] = n]
  <2>1. delivered[t] + n = n
    BY <1>1
  <2> QED BY <2>1 DEF Answer
<1>4. \A b \in Attempt \ {a} : pc[b] \in UnderClaim => ticket[b] # t /\ ticket[b] \in Ticket
  BY <1>2 DEF Core, ClaimIsHeld, CallHasTicket, UnderClaim
<1>5. CallHasTicket' /\ ClaimIsHeld'
  BY <1>1, <1>2 DEF Answer, TypeOK, Core, CallHasTicket, ClaimIsHeld, UnderClaim, claimVars
<1>6. CallKnowsItsSend'
  <2> SUFFICES ASSUME NEW b \in Attempt PROVE Knows(b)'
    BY DEF CallKnowsItsSend, Knows
  <2>1. CASE b = a
    BY <2>1, <1>1, <1>3 DEF Answer, TypeOK, Knows
  <2>2. CASE b # a
    <3>1. pc'[b] = pc[b] /\ result'[b] = result[b] /\ ticket'[b] = ticket[b]
      BY <2>2 DEF Answer, TypeOK
    <3>2. pc[b] \in UnderClaim => delivered'[ticket[b]] = delivered[ticket[b]]
      BY <2>2, <1>3, <1>4 DEF TypeOK
    <3> QED BY <3>1, <3>2 DEF Knows, Core, CallKnowsItsSend, UnderClaim
  <2> QED BY <2>1, <2>2
<1>7. AtMostOnce' /\ SafeToRunAgain'
  BY <1>1, <1>2, <1>3 DEF Answer, TypeOK, Core, AtMostOnce, SafeToRunAgain, claimVars
<1>8. SuccessIsReal'
  <2>1. \A u \in Ticket : delivered[u] = 1 => delivered'[u] = 1
    BY <1>1, <1>3 DEF TypeOK
  <2> QED
    BY <2>1 DEF Answer, Core, SuccessIsReal, CallHasTicket, claimVars, rowVars
<1> QED BY <1>5, <1>6, <1>7, <1>8 DEF Core

\* Finishing: the verdict says of the message what the call knows of it.
LEMMA FinishCore ==
  ASSUME TypeOK, Core, NEW a \in Attempt, FinishExecution(a)
  PROVE  Core'
<1> DEFINE t == ticket[a]
<1>1. t \in Ticket /\ pc[a] = "finishing" /\ claimId[t] = a
  BY DEF FinishExecution, Core, CallHasTicket
<1>2. CallHasTicket'
  BY <1>1 DEF FinishExecution, TypeOK, Core, CallHasTicket
<1>3. ClaimIsHeld'
  <2> SUFFICES ASSUME NEW b \in Attempt, pc'[b] \in UnderClaim
               PROVE  claimState'[ticket'[b]] = "running" /\ claimId'[ticket'[b]] = b
    BY DEF ClaimIsHeld
  <2>1. b # a /\ pc[b] \in UnderClaim
    BY DEF FinishExecution, TypeOK, UnderClaim
  <2>2. ticket[b] \in Ticket /\ ticket[b] # t
    BY <2>1, <1>1 DEF Core, CallHasTicket, ClaimIsHeld, UnderClaim
  <2> QED BY <2>1, <2>2 DEF FinishExecution, TypeOK, Core, ClaimIsHeld
<1>4. CallKnowsItsSend'
  BY <1>1 DEF FinishExecution, TypeOK, Core, CallKnowsItsSend
<1>5. result[a] = "ok" => delivered[t] = 1
  BY <1>1 DEF Core, CallKnowsItsSend
<1>6. result[a] = "refused" => delivered[t] = 0
  BY <1>1 DEF Core, CallKnowsItsSend
<1>7. claimState' = [claimState EXCEPT ![t] = Verdict(result[a])] /\ UNCHANGED <<delivered, fulfillment, copy, note, ticket>>
  BY DEF FinishExecution, rowVars
<1>8. result[a] \in Result
  BY DEF TypeOK
<1>9. AtMostOnce' /\ SafeToRunAgain'
  BY <1>1, <1>6, <1>7, <1>8 DEF TypeOK, Core, AtMostOnce, SafeToRunAgain, Verdict, Result
<1>10. SuccessIsReal'
  BY <1>1, <1>5, <1>7, <1>8 DEF TypeOK, Core, SuccessIsReal, Verdict, Result
<1> QED BY <1>2, <1>3, <1>4, <1>9, <1>10 DEF Core

LEMMA CrashCore ==
  ASSUME TypeOK, Core, NEW a \in Attempt, Crash(a)
  PROVE  Core'
<1>1. Knows(a)'
  BY DEF Crash, TypeOK, Knows
<1> QED
  BY <1>1, QuietCallStep DEF Crash, TypeOK, UnderClaim, rowVars, PreClaim

\* The steps of a call before its claim, and the refusals of the claim.
LEMMA PreClaimStepCore ==
  ASSUME TypeOK, Core, NEW a \in Attempt,
         \/ ReturnWithoutClaim(a) \/ PolicyAllows(a) \/ PolicyBlocks(a) \/ BlockFulfillment(a)
         \/ AuthorityAllows(a) \/ AuthorityRefuses(a) \/ ClaimRefused(a)
  PROVE  Core'
<1> USE DEF ReturnWithoutClaim, PolicyAllows, PolicyBlocks, BlockFulfillment, AuthorityAllows,
            AuthorityRefuses, ClaimRefused
<1>1. UNCHANGED <<claimVars, ticket, copy, note, delivered>> /\ pc[a] # "idle"
  OBVIOUS
<1>2. \A b \in Attempt \ {a} : pc'[b] = pc[b] /\ result'[b] = result[b]
  BY DEF TypeOK
<1>3. pc'[a] \notin UnderClaim
  BY DEF TypeOK, UnderClaim
<1>4. Knows(a)'
  BY <1>3 DEF Knows, UnderClaim
<1>5. \A t \in Ticket : fulfillment'[t] = "ok" => fulfillment[t] = "ok"
  BY DEF TypeOK, rowVars
<1> QED BY <1>1, <1>2, <1>3, <1>4, <1>5, QuietCallStep

\* The steps of a call under its claim that neither send nor finish.
LEMMA UnderClaimStepCore ==
  ASSUME TypeOK, Core, NEW a \in Attempt,
         \/ RecheckAllows(a) \/ RecheckRefuses(a) \/ StopBeforeSend(a)
         \/ (\E to \in Closed : CloseAtFulfill(a, to)) \/ PreSendCheck(a)
         \/ PersistFulfillment(a) \/ PersistFails(a) \/ FinishUnavailable(a)
  PROVE  Core'
<1> USE DEF RecheckAllows, RecheckRefuses, StopBeforeSend, CloseAtFulfill, PreSendCheck,
            PersistFulfillment, PersistFails, FinishUnavailable
<1>1. UNCHANGED <<claimVars, ticket, copy, note, delivered>>
  OBVIOUS
<1>2. pc[a] \in UnderClaim /\ pc[a] # "idle"
  BY DEF UnderClaim
<1>3. \A b \in Attempt \ {a} : pc'[b] = pc[b] /\ result'[b] = result[b]
  BY DEF TypeOK
<1>4. Knows(a)'
  BY DEF TypeOK, Knows, Core, CallKnowsItsSend
<1>5. \A t \in Ticket : fulfillment'[t] = "ok" => fulfillment[t] = "ok" \/ delivered[t] = 1
  <2>1. CASE PersistFulfillment(a)
    <3>1. result[a] = "ok" => delivered[ticket[a]] = 1
      BY <2>1 DEF Core, CallKnowsItsSend
    <3>2. PICK f \in Recorded(result[a]) : fulfillment' = [fulfillment EXCEPT ![ticket[a]] = f]
      BY <2>1
    <3>3. f = "ok" => result[a] = "ok"
      BY <3>2 DEF Recorded, TypeOK, Result
    <3> QED BY <3>1, <3>2, <3>3 DEF TypeOK
  <2>2. CASE ~PersistFulfillment(a)
    BY <2>2 DEF TypeOK, rowVars
  <2> QED BY <2>1, <2>2
<1> QED BY <1>1, <1>2, <1>3, <1>4, <1>5, QuietCallStep

LEMMA CallStepCore ==
  ASSUME TypeOK, Core, NEW a \in Attempt, CallStep(a)
  PROVE  Core'
<1>1. CASE ProviderAccepts(a) \/ ProviderRefuses(a) \/ ProviderUnclear(a)
  BY <1>1, AnswerCore DEF ProviderAccepts, ProviderRefuses, ProviderUnclear, Result
<1>2. CASE ClaimExecution(a)
  BY <1>2, ClaimCore
<1>3. CASE FinishExecution(a)
  BY <1>3, FinishCore
<1> QED BY <1>1, <1>2, <1>3, PreClaimStepCore, UnderClaimStepCore DEF CallStep

LEMMA StutterInvariant ==
  ASSUME TypeOK, Core, UNCHANGED vars
  PROVE  TypeOK' /\ Core'
<1>1. TypeOK'
  BY DEF TypeOK, vars, rowVars, claimVars, holdVars, callVars, historyVars
<1>2. Core'
  BY OutsideStep DEF vars, rowVars, claimVars, callVars
<1> QED BY <1>1, <1>2

\* Every step of the system keeps the invariant.
LEMMA NextInvariant ==
  ASSUME ExecutionInvariant, [Next]_vars
  PROVE  ExecutionInvariant'
<1> SUFFICES TypeOK' /\ Core'
  BY DEF ExecutionInvariant, Core
<1>0. TypeOK /\ Core /\ CallHasTicket
  BY DEF ExecutionInvariant, Core
<1>1. ASSUME NEW t \in Ticket, TicketStep(t) PROVE TypeOK' /\ Core'
  BY <1>0, <1>1, TicketStepType, TicketStepCore
<1>2. ASSUME NEW n \in Notifier, NotifierStep(n) PROVE TypeOK' /\ Core'
  BY <1>0, <1>2, NotifierStepType, NotifierStepCore
<1>3. CASE HoldStep
  BY <1>0, <1>3, HoldStepType, HoldStepCore
<1>4. ASSUME NEW a \in Attempt, NEW t \in Ticket, LoadApproval(a, t) PROVE TypeOK' /\ Core'
  BY <1>0, <1>4, LoadType, LoadCore
<1>5. ASSUME NEW a \in Attempt, CallStep(a) PROVE TypeOK' /\ Core'
  BY <1>0, <1>5, CallStepType, CallStepCore
<1>6. ASSUME NEW a \in Attempt, Crash(a) PROVE TypeOK' /\ Core'
  BY <1>0, <1>6, CrashType, CrashCore
<1>7. CASE UNCHANGED vars
  BY <1>0, <1>7, StutterInvariant
<1> QED BY <1>1, <1>2, <1>3, <1>4, <1>5, <1>6, <1>7 DEF Next

\* The invariant of the execution path holds in every state of every behaviour.
THEOREM ExecutionInvariantHolds == Spec => []ExecutionInvariant
<1>1. Init => ExecutionInvariant
  BY InitType, InitCore DEF ExecutionInvariant, Core
<1>2. ExecutionInvariant /\ [Next]_vars => ExecutionInvariant'
  BY NextInvariant
<1> QED BY <1>1, <1>2, PTL DEF Spec

\* Whatever the calls, stops, crashes and metadata writers do, every variable keeps to
\* the values the schema and the code give it.
THEOREM TypeCorrect == Spec => []TypeOK
<1>1. ExecutionInvariant => TypeOK
  BY DEF ExecutionInvariant
<1> QED BY <1>1, ExecutionInvariantHolds, PTL

\* No number of concurrent calls, crashes and lost answers makes the provider accept the
\* message of a ticket twice (executeApproval, claim_approval_execution).
THEOREM SentAtMostOnce == Spec => []AtMostOnce
<1>1. ExecutionInvariant => AtMostOnce
  BY DEF ExecutionInvariant
<1> QED BY <1>1, ExecutionInvariantHolds, PTL

\* A ticket claim_approval_execution would hand out (again) has sent nothing.
THEOREM RetriesAreSafe == Spec => []SafeToRunAgain
<1>1. ExecutionInvariant => SafeToRunAgain
  BY DEF ExecutionInvariant
<1> QED BY <1>1, ExecutionInvariantHolds, PTL

\* A success on record, or in a stale copy that may be written back, was really sent.
THEOREM SuccessesAreReal == Spec => []SuccessIsReal
<1>1. ExecutionInvariant => SuccessIsReal
  BY DEF ExecutionInvariant
<1> QED BY <1>1, ExecutionInvariantHolds, PTL

\* A call that works under a claim holds it: while no other outcome is recorded, the row
\* runs under this call's token.
THEOREM ClaimsAreHeld == Spec => []ClaimIsHeld
<1>1. ExecutionInvariant => ClaimIsHeld
  BY DEF ExecutionInvariant
<1> QED BY <1>1, ExecutionInvariantHolds, PTL

\* What a call believes about its message agrees with what the provider did.
THEOREM CallsKnowTheirSends == Spec => []CallKnowsItsSend
<1>1. ExecutionInvariant => CallKnowsItsSend
  BY DEF ExecutionInvariant
<1> QED BY <1>1, ExecutionInvariantHolds, PTL

\* The claim is a lock: two calls never work on one ticket under it.
THEOREM RunsAreExclusive == Spec => []ExclusiveRun
<1>1. ExecutionInvariant => ExclusiveRun
  BY DEF ExecutionInvariant, ClaimIsHeld, ExclusiveRun
<1> QED BY <1>1, ExecutionInvariantHolds, PTL

(***************************************************************************)
(* Final outcomes and the abstract promise                                 *)
(***************************************************************************)
\* Only claim_approval_execution, the provider and finish_approval_execution change
\* what the claim table and the provider know.
LEMMA OtherSteps ==
  ASSUME [Next]_vars
  PROVE  \/ UNCHANGED <<claimVars, delivered>>
         \/ \E a \in Attempt : ClaimExecution(a) \/ FinishExecution(a)
         \/ \E a \in Attempt, r \in Result, n \in {0, 1} : Answer(a, r, n)
<1> USE DEF Result
<1>1. CASE UNCHANGED vars
  BY <1>1 DEF vars
<1>2. ASSUME NEW t \in Ticket, TicketStep(t) PROVE UNCHANGED <<claimVars, delivered>>
  BY <1>2 DEF TicketStep, InsertApproval, WritePollPath, ResolveApproval, CloseWithoutSend
<1>3. ASSUME NEW n \in Notifier, NotifierStep(n) PROVE UNCHANGED <<claimVars, delivered>>
  BY <1>3 DEF NotifierStep, NotifierRead, UpdateTelegramState
<1>4. CASE HoldStep
  BY <1>4 DEF HoldStep, StartHold, ReleaseHold
<1>5. ASSUME NEW a \in Attempt, (\E t \in Ticket : LoadApproval(a, t)) \/ Crash(a)
      PROVE  UNCHANGED <<claimVars, delivered>>
  BY <1>5 DEF LoadApproval, Crash
<1>6. ASSUME NEW a \in Attempt, CallStep(a)
      PROVE  \/ UNCHANGED <<claimVars, delivered>> \/ ClaimExecution(a) \/ FinishExecution(a)
             \/ \E r \in Result, n \in {0, 1} : Answer(a, r, n)
  BY <1>6 DEF CallStep, ReturnWithoutClaim, PolicyAllows, PolicyBlocks, BlockFulfillment,
       AuthorityAllows, AuthorityRefuses, ClaimRefused, RecheckAllows, RecheckRefuses,
       StopBeforeSend, CloseAtFulfill, PreSendCheck, PersistFulfillment, PersistFails,
       FinishUnavailable, ProviderAccepts, ProviderRefuses, ProviderUnclear
<1> QED BY <1>1, <1>2, <1>3, <1>4, <1>5, <1>6 DEF Next

\* OutcomeIsFinal for one step.
FinalStep ==
  \A t \in Ticket :
    /\ claimState[t] \in {"succeeded", "uncertain"} => claimState'[t] = claimState[t]
    /\ claimState[t] = "running" /\ claimState'[t] # "running" => pc[claimId[t]] = "finishing"
    /\ claimState[t] = "running" => claimId'[t] = claimId[t]

LEMMA StepIsFinal ==
  ASSUME ExecutionInvariant, [Next]_vars
  PROVE  FinalStep
<1>0. TypeOK /\ CallHasTicket
  BY DEF ExecutionInvariant
<1>1. CASE UNCHANGED <<claimVars, delivered>>
  BY <1>1 DEF claimVars, FinalStep
<1>2. ASSUME NEW a \in Attempt, ClaimExecution(a) PROVE FinalStep
  BY <1>0, <1>2 DEF ClaimExecution, Claimable, TypeOK, CallHasTicket, FinalStep
<1>3. ASSUME NEW a \in Attempt, FinishExecution(a) PROVE FinalStep
  BY <1>0, <1>3 DEF FinishExecution, TypeOK, CallHasTicket, FinalStep
<1>4. ASSUME NEW a \in Attempt, NEW r \in Result, NEW n \in {0, 1}, Answer(a, r, n) PROVE FinalStep
  BY <1>4 DEF Answer, claimVars, FinalStep
<1> QED BY <1>1, <1>2, <1>3, <1>4, OtherSteps

\* succeeded and uncertain never change, and only its own call ends a running claim
\* (finish_approval_execution's "where state = running and claim_id = p_claim_id").
THEOREM OutcomesAreFinal == Spec => OutcomeIsFinal
<1>1. ExecutionInvariant /\ [Next]_vars => [FinalStep]_vars
  BY StepIsFinal
<1>2. [FinalStep]_vars <=> [\A t \in Ticket :
       /\ claimState[t] \in {"succeeded", "uncertain"} => claimState'[t] = claimState[t]
       /\ claimState[t] = "running" /\ claimState'[t] # "running" => pc[claimId[t]] = "finishing"
       /\ claimState[t] = "running" => claimId'[t] = claimId[t]]_vars
  BY DEF FinalStep
<1> QED BY <1>1, <1>2, ExecutionInvariantHolds, PTL DEF Spec, OutcomeIsFinal

LEMMA InitRefines == Init => Send!Init
BY DEF Init, Send!Init, AbstractState, SendStateOf

\* One claim changes: one entry of the abstract state does.
LEMMA AbstractUpdate ==
  ASSUME TypeOK, NEW t \in Ticket, NEW s \in ClaimState,
         claimState' = [claimState EXCEPT ![t] = s]
  PROVE  /\ s = "running" => AbstractState' = [AbstractState EXCEPT ![t] = "busy"]
         /\ s = "succeeded" => AbstractState' = [AbstractState EXCEPT ![t] = "done"]
         /\ s = "failed" => AbstractState' = [AbstractState EXCEPT ![t] = "idle"]
         /\ s = "uncertain" => AbstractState' = [AbstractState EXCEPT ![t] = "unknown"]
<1>1. \A u \in Ticket : claimState'[u] = IF u = t THEN s ELSE claimState[u]
  BY DEF TypeOK
<1>2. \A u \in Ticket \ {t} : SendStateOf(u)' = SendStateOf(u)
  BY <1>1 DEF SendStateOf
<1>3. /\ s = "running" => SendStateOf(t)' = "busy"
      /\ s = "succeeded" => SendStateOf(t)' = "done"
      /\ s = "failed" => SendStateOf(t)' = "idle"
      /\ s = "uncertain" => SendStateOf(t)' = "unknown"
  BY <1>1 DEF SendStateOf
<1> QED BY <1>2, <1>3 DEF AbstractState

\* A step of the code is a step of AtMostOnceSend or none.
LEMMA StepRefines ==
  ASSUME ExecutionInvariant, [Next]_vars
  PROVE  [Send!Next]_(Send!vars)
<1>0. TypeOK /\ CallHasTicket /\ ClaimIsHeld /\ CallKnowsItsSend
  BY DEF ExecutionInvariant
<1>1. CASE UNCHANGED <<claimVars, delivered>>
  BY <1>1 DEF claimVars, Send!vars, AbstractState, SendStateOf
<1>2. ASSUME NEW a \in Attempt, ClaimExecution(a) PROVE Send!Next
  <2>0. PICK t \in Ticket : t = ticket[a]
    BY <1>0, <1>2 DEF ClaimExecution, CallHasTicket
  <2>1. claimState[t] \in {"none", "failed"}
    BY <1>2, <2>0 DEF ClaimExecution, Claimable
  <2>2. claimState' = [claimState EXCEPT ![t] = "running"] /\ UNCHANGED delivered
    BY <1>2, <2>0 DEF ClaimExecution
  <2>3. AbstractState[t] = "idle" /\ AbstractState' = [AbstractState EXCEPT ![t] = "busy"]
    BY <1>0, <2>1, <2>2, AbstractUpdate DEF ClaimState, AbstractState, SendStateOf
  <2>4. Send!Begin(t)
    BY <2>1, <2>2, <2>3 DEF Send!Begin
  <2> QED BY <2>4 DEF Send!Next
<1>3. ASSUME NEW a \in Attempt, FinishExecution(a) PROVE Send!Next
  <2>0. PICK t \in Ticket : t = ticket[a]
    BY <1>0, <1>3 DEF FinishExecution, CallHasTicket
  <2>1. claimState[t] = "running" /\ result[a] \in Result /\ pc[a] = "finishing"
    BY <1>0, <1>3, <2>0 DEF FinishExecution, TypeOK
  <2>2. claimState' = [claimState EXCEPT ![t] = Verdict(result[a])] /\ UNCHANGED delivered
    BY <1>3, <2>0 DEF FinishExecution
  <2>6. AbstractState[t] = "busy"
    BY <2>1 DEF AbstractState, SendStateOf
  <2>3. CASE result[a] = "ok"
    <3>1. delivered[t] = 1
      BY <1>0, <2>0, <2>1, <2>3 DEF CallKnowsItsSend
    <3>2. AbstractState' = [AbstractState EXCEPT ![t] = "done"]
      BY <1>0, <2>1, <2>2, <2>3, AbstractUpdate DEF Verdict, ClaimState
    <3>3. Send!Complete(t)
      BY <2>2, <2>6, <3>1, <3>2 DEF Send!Complete
    <3> QED BY <3>3 DEF Send!Next
  <2>4. CASE result[a] = "refused"
    <3>1. delivered[t] = 0
      BY <1>0, <2>0, <2>1, <2>4 DEF CallKnowsItsSend
    <3>2. AbstractState' = [AbstractState EXCEPT ![t] = "idle"]
      BY <1>0, <2>1, <2>2, <2>4, AbstractUpdate DEF Verdict, ClaimState
    <3>3. Send!Abandon(t)
      BY <2>2, <2>6, <3>1, <3>2 DEF Send!Abandon
    <3> QED BY <3>3 DEF Send!Next
  <2>5. CASE result[a] = "unknown"
    <3>1. AbstractState' = [AbstractState EXCEPT ![t] = "unknown"]
      BY <1>0, <2>1, <2>2, <2>5, AbstractUpdate DEF Verdict, ClaimState
    <3>2. Send!GiveUp(t)
      BY <2>2, <2>6, <3>1 DEF Send!GiveUp
    <3> QED BY <3>2 DEF Send!Next
  <2> QED BY <2>1, <2>3, <2>4, <2>5 DEF Result
<1>4. ASSUME NEW a \in Attempt, NEW r \in Result, NEW n \in {0, 1}, Answer(a, r, n)
      PROVE  [Send!Next]_(Send!vars)
  <2> DEFINE t == ticket[a]
  <2>1. t \in Ticket /\ claimState[t] = "running" /\ delivered[t] = 0
    BY <1>0, <1>4 DEF Answer, CallHasTicket, ClaimIsHeld, CallKnowsItsSend, UnderClaim
  <2>2. delivered[t] + n = n
    BY <2>1
  <2>3. delivered' = [delivered EXCEPT ![t] = n] /\ UNCHANGED claimState
    BY <1>4, <2>2 DEF Answer, claimVars
  <2>4. CASE n = 0
    <3>1. delivered' = delivered
      BY <1>0, <2>1, <2>3, <2>4 DEF TypeOK
    <3> QED BY <2>3, <3>1 DEF Send!vars, AbstractState, SendStateOf
  <2>5. CASE n = 1
    <3>1. Send!Deliver(t)
      BY <2>1, <2>3, <2>5 DEF Send!Deliver, AbstractState, SendStateOf
    <3> QED BY <2>1, <3>1 DEF Send!Next
  <2> QED BY <2>4, <2>5
<1> QED BY <1>1, <1>2, <1>3, <1>4, OtherSteps

\* Execution as coded (claims, copies, stale rows, crashes, stops) implements the
\* at-most-once promise of AtMostOnceSend.
THEOREM RefinesAtMostOnceSend == Spec => ImplementsAtMostOnceSend
<1>1. ExecutionInvariant /\ [Next]_vars => [Send!Next]_(Send!vars)
  BY StepRefines
<1> QED BY <1>1, InitRefines, ExecutionInvariantHolds, PTL DEF Spec, ImplementsAtMostOnceSend, Send!Spec

(***************************************************************************)
(* The life of a ticket                                                    *)
(***************************************************************************)
\* Who writes the status of a ticket, and from what to what.
LEMMA StatusSteps ==
  ASSUME TypeOK, CallHasTicket, [Next]_vars
  PROVE  \/ UNCHANGED status
         \/ UNCHANGED claimState
            /\ \E t \in Ticket :
                 \/ status[t] = "absent" /\ status' = [status EXCEPT ![t] = "pending"]
                 \/ status[t] = "pending" /\ \E d \in Decision : status' = [status EXCEPT ![t] = d]
                 \/ status[t] \in {"pending", "approved"}
                    /\ \E to \in Closed : status' = [status EXCEPT ![t] = to]
<1> USE DEF claimVars, rowVars
<1>1. CASE UNCHANGED vars
  BY <1>1 DEF vars
<1>2. ASSUME NEW t \in Ticket, InsertApproval(t) \/ WritePollPath(t)
      PROVE  \/ UNCHANGED status
             \/ UNCHANGED claimState /\ status[t] = "absent"
                /\ status' = [status EXCEPT ![t] = "pending"]
  BY <1>2 DEF InsertApproval, WritePollPath
<1>3. ASSUME NEW t \in Ticket, NEW d \in Decision, ResolveApproval(t, d)
      PROVE  UNCHANGED claimState /\ status[t] = "pending" /\ status' = [status EXCEPT ![t] = d]
  BY <1>3 DEF ResolveApproval
<1>4. ASSUME NEW t \in Ticket, NEW to \in Closed, CloseWithoutSend(t, to)
      PROVE  UNCHANGED claimState /\ status[t] \in {"pending", "approved"}
             /\ status' = [status EXCEPT ![t] = to]
  BY <1>4 DEF CloseWithoutSend
<1>5. ASSUME NEW n \in Notifier, NotifierStep(n) PROVE UNCHANGED status
  BY <1>5 DEF NotifierStep, NotifierRead, UpdateTelegramState
<1>6. CASE HoldStep
  BY <1>6 DEF HoldStep, StartHold, ReleaseHold
<1>7. ASSUME NEW a \in Attempt, (\E t \in Ticket : LoadApproval(a, t)) \/ Crash(a)
      PROVE  UNCHANGED status
  BY <1>7 DEF LoadApproval, Crash
<1>8. ASSUME NEW a \in Attempt, NEW to \in Closed, CloseAtFulfill(a, to)
      PROVE  /\ UNCHANGED claimState /\ ticket[a] \in Ticket /\ status[ticket[a]] = "approved"
             /\ status' = [status EXCEPT ![ticket[a]] = to]
  BY <1>8 DEF CloseAtFulfill, CallHasTicket
<1>9. ASSUME NEW a \in Attempt, CallStep(a)
      PROVE  UNCHANGED status \/ \E to \in Closed : CloseAtFulfill(a, to)
  BY <1>9 DEF CallStep, ReturnWithoutClaim, PolicyAllows, PolicyBlocks, BlockFulfillment,
       AuthorityAllows, AuthorityRefuses, ClaimExecution, ClaimRefused, RecheckAllows,
       RecheckRefuses, StopBeforeSend, PreSendCheck, PersistFulfillment, PersistFails,
       FinishExecution, FinishUnavailable, ProviderAccepts, ProviderRefuses, ProviderUnclear, Answer
<1> QED BY <1>1, <1>2, <1>3, <1>4, <1>5, <1>6, <1>7, <1>8, <1>9 DEF Next, TicketStep

\* A step of the code is, for every ticket, a step of its life or none.
LEMMA StepLives ==
  ASSUME TypeOK, CallHasTicket, [Next]_vars, NEW t \in Ticket
  PROVE  [Life(t)!Next]_(Life(t)!vars)
<1> USE DEF Life!vars, Life!Next, LifeStatus, LifeClaim, Closed
<1>1. CASE status'[t] = status[t] /\ claimState'[t] = claimState[t]
  BY <1>1
<1>2. ASSUME UNCHANGED claimState, NEW u \in Ticket,
             \/ status[u] = "absent" /\ status' = [status EXCEPT ![u] = "pending"]
             \/ status[u] = "pending" /\ \E d \in Decision : status' = [status EXCEPT ![u] = d]
             \/ status[u] \in {"pending", "approved"}
                /\ \E to \in Closed : status' = [status EXCEPT ![u] = to],
             u = t
      PROVE  Life(t)!File \/ Life(t)!Decide \/ Life(t)!Close
  BY <1>2 DEF TypeOK, Decision, Life!File, Life!Decide, Life!Close
<1>3. ASSUME NEW a \in Attempt, ClaimExecution(a), ticket[a] = t
      PROVE  Life(t)!Begin
  BY <1>3 DEF TypeOK, ClaimExecution, Claimable, rowVars, Life!Begin
<1>4. ASSUME NEW a \in Attempt, FinishExecution(a), ticket[a] = t
      PROVE  Life(t)!End
  <2>1. Verdict(result[a]) \in {"succeeded", "failed", "uncertain"}
    BY DEF TypeOK, Result, Verdict
  <2>2. claimState[t] = "running" /\ claimState'[t] = Verdict(result[a]) /\ UNCHANGED status
    BY <1>4 DEF TypeOK, FinishExecution, rowVars
  <2> QED BY <2>1, <2>2 DEF Life!End
<1>5. ASSUME UNCHANGED status, claimState'[t] # claimState[t]
      PROVE  \E a \in Attempt : ticket[a] = t /\ (ClaimExecution(a) \/ FinishExecution(a))
  <2>1. PICK a \in Attempt : ClaimExecution(a) \/ FinishExecution(a)
    BY <1>5, OtherSteps DEF claimVars, Answer
  <2> QED BY <1>5, <2>1 DEF TypeOK, ClaimExecution, FinishExecution
<1>6. CASE UNCHANGED status
  BY <1>1, <1>3, <1>4, <1>5, <1>6
<1>7. CASE ~UNCHANGED status
  <2>1. UNCHANGED claimState
    BY <1>7, StatusSteps
  <2>2. PICK u \in Ticket :
          \/ status[u] = "absent" /\ status' = [status EXCEPT ![u] = "pending"]
          \/ status[u] = "pending" /\ \E d \in Decision : status' = [status EXCEPT ![u] = d]
          \/ status[u] \in {"pending", "approved"}
             /\ \E to \in Closed : status' = [status EXCEPT ![u] = to]
    BY <1>7, StatusSteps
  <2>3. CASE u = t
    BY <1>2, <2>1, <2>2, <2>3
  <2>4. CASE u # t
    BY <1>1, <2>1, <2>2, <2>4 DEF TypeOK
  <2> QED BY <2>3, <2>4
<1> QED BY <1>6, <1>7

\* Every ticket lives by TicketLife, for any number of tickets, calls, notifiers and stops:
\* the execution asks no more of the decision than the workflow module promises, and runs
\* nothing that is not approved at that moment.
THEOREM ExecutionKeepsTicketLife == Spec => ImplementsTicketLife
<1>1. Init => \A t \in Ticket : Life(t)!Init
  BY DEF Init, Life!Init, LifeStatus, LifeClaim, Closed
<1>2. ExecutionInvariant /\ [Next]_vars =>
        [\A t \in Ticket : [Life(t)!Next]_(Life(t)!vars)]_vars
  BY StepLives DEF ExecutionInvariant
<1> QED BY <1>1, <1>2, ExecutionInvariantHolds, PTL DEF Spec, ImplementsTicketLife

(***************************************************************************)
(* The emergency stop                                                      *)
(***************************************************************************)
\* During a stop only the calls past the pre-send check when it began can still send
\* (postConversationMessage's preSendHoldCode), for any number of calls and stops.
THEOREM StopHolds == Spec => []StopReachesTheSend
<1>1. Init => StopReachesTheSend
  BY DEF Init, StopReachesTheSend
<1>2. ASSUME TypeOK, StopReachesTheSend, [Next]_vars PROVE StopReachesTheSend'
  <2> USE <1>2 DEF StopReachesTheSend, callVars, holdVars, historyVars
  <2>1. CASE UNCHANGED vars
    BY <2>1 DEF vars
  <2>2. ASSUME NEW t \in Ticket, TicketStep(t) PROVE StopReachesTheSend'
    BY <2>2 DEF TicketStep, InsertApproval, WritePollPath, ResolveApproval, CloseWithoutSend
  <2>3. ASSUME NEW n \in Notifier, NotifierStep(n) PROVE StopReachesTheSend'
    BY <2>3 DEF NotifierStep, NotifierRead, UpdateTelegramState
  <2>4. CASE HoldStep
    BY <2>4 DEF HoldStep, StartHold, ReleaseHold
  <2>5. ASSUME NEW a \in Attempt, (\E t \in Ticket : LoadApproval(a, t)) \/ CallStep(a) \/ Crash(a)
        PROVE  StopReachesTheSend'
    <3>1. UNCHANGED <<onHold, inFlight>>
      BY <2>5 DEF LoadApproval, Crash, CallStep, ReturnWithoutClaim, PolicyAllows, PolicyBlocks,
           BlockFulfillment, AuthorityAllows, AuthorityRefuses, ClaimExecution, ClaimRefused,
           RecheckAllows, RecheckRefuses, StopBeforeSend, CloseAtFulfill, PreSendCheck,
           ProviderAccepts, ProviderRefuses, ProviderUnclear, Answer, PersistFulfillment,
           PersistFails, FinishExecution, FinishUnavailable
    <3>2. pc' = [pc EXCEPT ![a] = pc'[a]] /\ (pc'[a] = "sending" => ~onHold)
      BY <2>5 DEF TypeOK, LoadApproval, Crash, CallStep, ReturnWithoutClaim, PolicyAllows, PolicyBlocks,
           BlockFulfillment, AuthorityAllows, AuthorityRefuses, ClaimExecution, ClaimRefused,
           RecheckAllows, RecheckRefuses, StopBeforeSend, CloseAtFulfill, PreSendCheck,
           ProviderAccepts, ProviderRefuses, ProviderUnclear, Answer, PersistFulfillment,
           PersistFails, FinishExecution, FinishUnavailable
    <3> QED BY <3>1, <3>2 DEF TypeOK
  <2> QED BY <2>1, <2>2, <2>3, <2>4, <2>5 DEF Next
<1> QED BY <1>1, <1>2, TypeCorrect, PTL DEF Spec

\* Where the marker is when nobody writes a whole metadata object back: a tagged ticket
\* stays marked, and so does every copy handed out by a claim made after the tag.
MarkerStays ==
  /\ \A t \in Ticket : status[t] # "absent" /\ ~filing[t]
  /\ \A t \in everHeld : held[t] # "none"
  /\ \A a \in claimedHeld :
       copy[a].held # "none" /\ pc[a] \in {"claimed", "finishing", "done", "crashed", "lost"}

LEMMA MarkerStep ==
  ASSUME Notifier = {}, TypeOK, CallHasTicket, MarkerStays, [Next]_vars
  PROVE  MarkerStays'
<1> USE DEF MarkerStays, rowVars, claimVars, callVars, holdVars, historyVars
<1>1. CASE UNCHANGED vars
  BY <1>1 DEF vars
<1>2. ASSUME NEW t \in Ticket, TicketStep(t) PROVE MarkerStays'
  BY <1>2 DEF TypeOK, TicketStep, InsertApproval, WritePollPath, ResolveApproval, CloseWithoutSend,
       Decision, Closed
<1>3. ASSUME NEW n \in Notifier, NotifierStep(n) PROVE FALSE
  OBVIOUS
<1>4. CASE HoldStep
  BY <1>4 DEF TypeOK, HoldStep, StartHold, ReleaseHold, Taggable
<1>5. ASSUME NEW a \in Attempt, \E t \in Ticket : LoadApproval(a, t) PROVE MarkerStays'
  BY <1>5 DEF TypeOK, LoadApproval
<1>6. ASSUME NEW a \in Attempt, Crash(a) PROVE MarkerStays'
  BY <1>6 DEF TypeOK, Crash
<1>7. ASSUME NEW a \in Attempt, CallStep(a) PROVE MarkerStays'
  <2>1. CASE ClaimExecution(a)
    <3>1. ticket[a] \in Ticket
      BY <2>1 DEF ClaimExecution, CallHasTicket
    <3>2. Row(ticket[a]).held = held[ticket[a]]
      BY DEF Row
    <3> QED BY <2>1, <3>1, <3>2 DEF TypeOK, ClaimExecution
  <2>2. CASE \E to \in Closed : CloseAtFulfill(a, to)
    BY <2>2 DEF TypeOK, CloseAtFulfill, Closed
  <2>3. CASE RecheckAllows(a)
    BY <2>3 DEF TypeOK, RecheckAllows, MayExecute
  <2>4. CASE ReturnWithoutClaim(a) \/ PolicyAllows(a) \/ PolicyBlocks(a) \/ BlockFulfillment(a)
             \/ AuthorityAllows(a) \/ AuthorityRefuses(a) \/ ClaimRefused(a) \/ RecheckRefuses(a)
    BY <2>4 DEF TypeOK, ReturnWithoutClaim, PolicyAllows, PolicyBlocks, BlockFulfillment,
         AuthorityAllows, AuthorityRefuses, ClaimRefused, RecheckRefuses
  <2>5. CASE StopBeforeSend(a) \/ PreSendCheck(a)
             \/ ProviderAccepts(a) \/ ProviderRefuses(a) \/ ProviderUnclear(a)
             \/ PersistFulfillment(a) \/ PersistFails(a) \/ FinishExecution(a) \/ FinishUnavailable(a)
    BY <2>5 DEF TypeOK, StopBeforeSend, PreSendCheck, ProviderAccepts, ProviderRefuses,
         ProviderUnclear, Answer, PersistFulfillment, PersistFails, FinishExecution,
         FinishUnavailable
  <2> QED BY <1>7, <2>1, <2>2, <2>3, <2>4, <2>5 DEF CallStep
<1> QED BY <1>1, <1>2, <1>3, <1>4, <1>5, <1>6, <1>7 DEF Next

\* With every ticket filed and no handler writing a whole metadata object back, a call
\* that claims a ticket after a stop tagged it never executes it, neither during the
\* stop nor after its release.  (The run held_tag_overwritten shows that the two
\* hypotheses are needed.)
THEOREM HeldTicketsNeverExecuted ==
  ASSUME Notifier = {}, Filed = Ticket
  PROVE  Spec => []HeldTicketNeverExecuted
<1>1. Init => MarkerStays
  BY DEF Init, MarkerStays
<1>2. TypeOK /\ CallHasTicket /\ MarkerStays /\ [Next]_vars => MarkerStays'
  BY MarkerStep
<1>3. MarkerStays => HeldTicketNeverExecuted
  BY DEF MarkerStays, HeldTicketNeverExecuted
<1>4. ExecutionInvariant => TypeOK /\ CallHasTicket
  BY DEF ExecutionInvariant
<1> QED BY <1>1, <1>2, <1>3, <1>4, ExecutionInvariantHolds, PTL DEF Spec

(***************************************************************************)
(* No running claim without its call                                       *)
(***************************************************************************)
Answering == UnderClaim \cup {"crashed", "lost"}

\* A step that leaves the claims alone and takes no call out of those that answer for them.
LEMMA ClaimsOnly ==
  ASSUME RunningClaimHasItsCall, UNCHANGED <<claimState, claimId, ticket>>,
         \A a \in Attempt : pc[a] \in Answering => pc'[a] \in Answering
  PROVE  RunningClaimHasItsCall'
BY DEF RunningClaimHasItsCall, Answering

LEMMA CallStepAnswers ==
  ASSUME TypeOK, NEW a \in Attempt, CallStep(a), ~ClaimExecution(a), ~FinishExecution(a)
  PROVE  /\ UNCHANGED <<claimState, claimId, ticket>>
         /\ \A b \in Attempt : pc[b] \in Answering => pc'[b] \in Answering
<1> USE DEF TypeOK, Answering, UnderClaim, claimVars
<1>1. CASE ReturnWithoutClaim(a) \/ PolicyAllows(a) \/ PolicyBlocks(a) \/ BlockFulfillment(a)
           \/ AuthorityAllows(a) \/ AuthorityRefuses(a) \/ ClaimRefused(a)
  BY <1>1 DEF ReturnWithoutClaim, PolicyAllows, PolicyBlocks, BlockFulfillment, AuthorityAllows,
              AuthorityRefuses, ClaimRefused
<1>2. CASE RecheckAllows(a) \/ RecheckRefuses(a) \/ StopBeforeSend(a)
           \/ (\E to \in Closed : CloseAtFulfill(a, to)) \/ PreSendCheck(a)
  BY <1>2 DEF RecheckAllows, RecheckRefuses, StopBeforeSend, CloseAtFulfill, PreSendCheck
<1>3. CASE ProviderAccepts(a) \/ ProviderRefuses(a) \/ ProviderUnclear(a)
  BY <1>3 DEF ProviderAccepts, ProviderRefuses, ProviderUnclear, Answer
<1>4. CASE PersistFulfillment(a) \/ PersistFails(a) \/ FinishUnavailable(a)
  BY <1>4 DEF PersistFulfillment, PersistFails, FinishUnavailable
<1> QED BY <1>1, <1>2, <1>3, <1>4 DEF CallStep

LEMMA StepHasCalls ==
  ASSUME ExecutionInvariant, RunningClaimHasItsCall, [Next]_vars
  PROVE  RunningClaimHasItsCall'
<1>0. TypeOK /\ CallHasTicket
  BY DEF ExecutionInvariant
<1>1. CASE UNCHANGED vars \/ (\E t \in Ticket : TicketStep(t)) \/ (\E n \in Notifier : NotifierStep(n))
           \/ HoldStep
  <2>1. UNCHANGED <<claimState, claimId, ticket, pc>>
    BY <1>1 DEF vars, claimVars, callVars, TicketStep, InsertApproval, WritePollPath, ResolveApproval,
                CloseWithoutSend, NotifierStep, NotifierRead, UpdateTelegramState, HoldStep, StartHold,
                ReleaseHold
  <2> QED BY <2>1, ClaimsOnly
<1>2. ASSUME NEW a \in Attempt, NEW t \in Ticket, LoadApproval(a, t) PROVE RunningClaimHasItsCall'
  <2>1. /\ pc[a] \notin Answering /\ UNCHANGED <<claimState, claimId>>
        /\ \A b \in Attempt : b # a => pc'[b] = pc[b] /\ ticket'[b] = ticket[b]
    BY <1>0, <1>2 DEF LoadApproval, TypeOK, claimVars, Answering, UnderClaim
  <2> QED BY <2>1 DEF RunningClaimHasItsCall, Answering
<1>3. ASSUME NEW a \in Attempt, ClaimExecution(a) PROVE RunningClaimHasItsCall'
  <2>1. PICK t \in Ticket : t = ticket[a]
    BY <1>0, <1>3 DEF ClaimExecution, CallHasTicket
  <2>2. /\ claimId'[t] = a /\ ticket' = ticket /\ pc[a] = "authorized" /\ pc'[a] = "claimed"
        /\ \A b \in Attempt : b # a => pc'[b] = pc[b]
        /\ \A u \in Ticket : u # t => claimState'[u] = claimState[u] /\ claimId'[u] = claimId[u]
    BY <1>0, <1>3, <2>1 DEF ClaimExecution, TypeOK
  <2>3. "claimed" \in Answering /\ "authorized" \notin Answering
    BY DEF Answering, UnderClaim
  <2>4. ASSUME NEW u \in Ticket, claimState'[u] = "running"
        PROVE  \E b \in Attempt : claimId'[u] = b /\ ticket'[b] = u /\ pc'[b] \in Answering
    <3>1. CASE u = t
      BY <2>1, <2>2, <2>3, <3>1
    <3>2. CASE u # t
      <4>1. PICK b \in Attempt : claimId[u] = b /\ ticket[b] = u /\ pc[b] \in Answering
        BY <2>2, <2>4, <3>2 DEF RunningClaimHasItsCall, Answering
      <4> QED BY <2>2, <2>3, <3>2, <4>1
    <3> QED BY <3>1, <3>2
  <2> QED BY <2>4 DEF RunningClaimHasItsCall, Answering
<1>4. ASSUME NEW a \in Attempt, FinishExecution(a) PROVE RunningClaimHasItsCall'
  <2>1. PICK t \in Ticket : t = ticket[a]
    BY <1>0, <1>4 DEF FinishExecution, CallHasTicket
  <2>2. /\ claimState'[t] # "running" /\ claimId' = claimId /\ ticket' = ticket
        /\ \A b \in Attempt : b # a => pc'[b] = pc[b]
        /\ \A u \in Ticket : u # t => claimState'[u] = claimState[u]
    BY <1>0, <1>4, <2>1 DEF FinishExecution, TypeOK, Result, Verdict
  <2>3. ASSUME NEW u \in Ticket, claimState'[u] = "running"
        PROVE  \E b \in Attempt : claimId'[u] = b /\ ticket'[b] = u /\ pc'[b] \in Answering
    <3>1. PICK b \in Attempt : claimId[u] = b /\ ticket[b] = u /\ pc[b] \in Answering
      BY <2>2, <2>3 DEF RunningClaimHasItsCall, Answering
    <3> QED BY <2>1, <2>2, <2>3, <3>1
  <2> QED BY <2>3 DEF RunningClaimHasItsCall, Answering
<1>5. ASSUME NEW a \in Attempt, CallStep(a), ~ClaimExecution(a), ~FinishExecution(a)
      PROVE  RunningClaimHasItsCall'
  BY <1>0, <1>5, CallStepAnswers, ClaimsOnly
<1>6. ASSUME NEW a \in Attempt, Crash(a) PROVE RunningClaimHasItsCall'
  <2>1. /\ UNCHANGED <<claimState, claimId, ticket>>
        /\ \A b \in Attempt : pc[b] \in Answering => pc'[b] \in Answering
    BY <1>0, <1>6 DEF Crash, TypeOK, claimVars, Answering
  <2> QED BY <2>1, ClaimsOnly
<1> QED BY <1>1, <1>2, <1>3, <1>4, <1>5, <1>6 DEF Next

\* Claim rows and calls agree for any number of tickets and calls: a call at work under a
\* claim holds it, and a running claim has a call that is at work, was killed or could not
\* report (claim_approval_execution, finish_approval_execution, executeApproval).
THEOREM ClaimsAndCallsMatch == Spec => []ClaimsAndCallsAgree
<1>1. Init => RunningClaimHasItsCall
  BY DEF Init, RunningClaimHasItsCall
<1>2. ExecutionInvariant /\ RunningClaimHasItsCall /\ [Next]_vars => RunningClaimHasItsCall'
  BY StepHasCalls
<1>3. ExecutionInvariant /\ RunningClaimHasItsCall => ClaimsAndCallsAgree
  BY DEF ExecutionInvariant, ClaimsAndCallsAgree
<1> QED BY <1>1, <1>2, <1>3, ExecutionInvariantHolds, PTL DEF Spec
=============================================================================
