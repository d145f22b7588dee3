------------------------- MODULE ApprovalExecution -------------------------
(***************************************************************************)
(* From an approved ticket to the provider call: the row of                *)
(* approval_requests, the row of approval_execution_claims, the emergency  *)
(* stop of the employee, and any number of concurrent calls of             *)
(* fulfillApprovedInvoke (immediate fulfilment, MCP re-invoke, proxy, W2). *)
(*                                                                         *)
(* Every call works on its own COPY of the row, read earlier; only the     *)
(* SQL functions see the row itself.  A step is what happens between two   *)
(* awaits: a statement or RPC of the database, a provider call, or a       *)
(* decision taken on the copy.                                             *)
(***************************************************************************)
EXTENDS Naturals, FiniteSets

CONSTANTS
  Ticket,     \* rows of approval_requests, all of one employee
  Attempt,    \* calls of fulfillApprovedInvoke; each draws its own claim id
  Notifier,   \* Telegram / LINE handlers that write a whole metadata object back
  Filed,      \* tickets whose filing is over when the behaviour starts
  NoTicket,   \* "no ticket"
  NoAttempt,  \* "no claim id"
  HoldLimit   \* bound: how many times the employee is stopped

ASSUME ConstantsAssumption ==
  /\ NoTicket \notin Ticket
  /\ NoAttempt \notin Attempt
  /\ Filed \subseteq Ticket
  /\ HoldLimit \in Nat

VARIABLES
  status,       \* approval_requests.status
  fulfillment,  \* approval_requests.metadata.fulfillment
  held,         \* approval_requests.metadata.heldByHoldId / holdOutcome
  filing,       \* createApproval has inserted the row and not yet updated it
  claimState,   \* approval_execution_claims.state ("none": no row)
  claimId,      \* approval_execution_claims.claim_id
  onHold,       \* employees.hold_state is set
  holdCount,    \* stops so far
  pc,           \* where each call stands
  ticket,       \* the ticket it was called for
  copy,         \* its copy of the row
  result,       \* what execute() is about to return
  note,         \* the copy a notifier will write back
  delivered,    \* messages the provider accepted
  everHeld,     \* history: tickets a stop has tagged
  claimedHeld,  \* history: calls that took their claim after that
  inFlight      \* history: calls past the pre-send check when the stop began

rowVars == <<status, fulfillment, held, filing>>
claimVars == <<claimState, claimId>>
holdVars == <<onHold, holdCount>>
callVars == <<pc, ticket, copy, result>>
historyVars == <<everHeld, claimedHeld, inFlight>>
vars == <<rowVars, claimVars, holdVars, callVars, note, delivered, historyVars>>

(***************************************************************************)
(* Values                                                                  *)
(***************************************************************************)
Decision == {"approved", "rejected", "revision_requested"}
Closed == {"superseded", "expired"}
Status == {"absent", "pending"} \cup Decision \cup Closed

\* "failed" stands for every { ok: false } but POST_OUTCOME_UNKNOWN, which
\* fulfillApprovedInvoke tells apart ("unknown").
Fulfillment == {"none", "ok", "failed", "unknown"}

\* heldTicketMarker: heldByHoldId is set, and after a release holdOutcome too.
Marker == {"none", "held", "closed"}

ClaimState == {"none", "running", "succeeded", "failed", "uncertain"}

\* What executeApproval gets back: ok, a refusal known to precede the provider
\* call, or anything else (an unlisted error code, a throw).
Result == {"ok", "refused", "unknown"}

Copy == [status : Status, fulfillment : Fulfillment, held : Marker]
NoCopy == [status |-> "absent", fulfillment |-> "none", held |-> "none"]

PreClaim == {"idle", "loaded", "blocking", "checked", "authorized"}
UnderClaim == {"claimed", "executing", "sending", "persisting", "finishing"}
Ended == {"done", "crashed", "lost"}
Pc == PreClaim \cup UnderClaim \cup Ended

Row(t) == [status |-> status[t], fulfillment |-> fulfillment[t], held |-> held[t]]

\* Seeded faults: a state the table's check constraint refuses; an unknown outcome
\* reported as a failure; an unknown outcome reported as a success.
VerdictUnlisted(r) ==
  CASE r = "ok" -> "succeeded" [] r = "refused" -> "retryable" [] r = "unknown" -> "uncertain"
VerdictUnknownFails(r) == IF r = "ok" THEN "succeeded" ELSE "failed"
VerdictUnknownSucceeds(r) == IF r = "refused" THEN "failed" ELSE "succeeded"

\* finish_approval_execution's p_state for a result.
Verdict(r) ==
  CASE r = "ok" -> "succeeded"
    [] r = "refused" -> "failed"
    [] r = "unknown" -> "uncertain"

Init ==
  /\ status = [t \in Ticket |-> IF t \in Filed THEN "pending" ELSE "absent"]
  /\ fulfillment = [t \in Ticket |-> "none"]
  /\ held = [t \in Ticket |-> "none"]
  /\ filing = [t \in Ticket |-> FALSE]
  /\ claimState = [t \in Ticket |-> "none"]
  /\ claimId = [t \in Ticket |-> NoAttempt]
  /\ onHold = FALSE
  /\ holdCount = 0
  /\ pc = [a \in Attempt |-> "idle"]
  /\ ticket = [a \in Attempt |-> NoTicket]
  /\ copy = [a \in Attempt |-> NoCopy]
  /\ result = [a \in Attempt |-> "unknown"]
  /\ note = [n \in Notifier |-> [ticket |-> NoTicket, row |-> NoCopy]]
  /\ delivered = [t \in Ticket |-> 0]
  /\ everHeld = {}
  /\ claimedHeld = {}
  /\ inFlight = {}

(***************************************************************************)
(* The ticket: filing, decision, closing                                   *)
(***************************************************************************)
\* createApproval: the insert.
InsertApproval(t) ==
  /\ status[t] = "absent"
  /\ status' = [status EXCEPT ![t] = "pending"]
  /\ filing' = [filing EXCEPT ![t] = TRUE]
  /\ UNCHANGED <<fulfillment, held, claimVars, holdVars, callVars, note, delivered, historyVars>>

\* createApproval: the second statement writes back the metadata the insert
\* returned, whatever the row holds by now.
WritePollPath(t) ==
  /\ filing[t]
  /\ filing' = [filing EXCEPT ![t] = FALSE]
  /\ fulfillment' = [fulfillment EXCEPT ![t] = "none"]
  /\ held' = [held EXCEPT ![t] = "none"]
  /\ UNCHANGED <<status, claimVars, holdVars, callVars, note, delivered, historyVars>>

\* resolve_approval_w1_checked: a pending ticket is decided once.
ResolveApproval(t, decision) ==
  /\ status[t] = "pending"
  /\ status' = [status EXCEPT ![t] = decision]
  /\ UNCHANGED <<fulfillment, held, filing, claimVars, holdVars, callVars, note, delivered, historyVars>>

\* closeApprovalWithoutSend, called for a ticket of another conversation post.
CloseWithoutSend(t, to) ==
  /\ status[t] \in {"pending", "approved"}
  /\ status' = [status EXCEPT ![t] = to]
  /\ UNCHANGED <<fulfillment, held, filing, claimVars, holdVars, callVars, note, delivered, historyVars>>

(***************************************************************************)
(* Channel notifiers: read the pending ticket, talk to the channel, then   *)
(* updateApprovalTelegramState writes the whole metadata of the copy back. *)
(***************************************************************************)
NotifierRead(n, t) ==
  /\ note[n].ticket = NoTicket
  /\ status[t] = "pending"
  /\ note' = [note EXCEPT ![n] = [ticket |-> t, row |-> Row(t)]]
  /\ UNCHANGED <<rowVars, claimVars, holdVars, callVars, delivered, historyVars>>

UpdateTelegramState(n) ==
  LET t == note[n].ticket IN
  /\ t # NoTicket
  /\ fulfillment' = [fulfillment EXCEPT ![t] = note[n].row.fulfillment]
  /\ held' = [held EXCEPT ![t] = note[n].row.held]
  /\ note' = [note EXCEPT ![n] = [ticket |-> NoTicket, row |-> NoCopy]]
  /\ UNCHANGED <<status, filing, claimVars, holdVars, callVars, delivered, historyVars>>

(***************************************************************************)
(* The emergency stop of the employee                                      *)
(***************************************************************************)
\* The tickets start_employee_hold tags: open, or approved and not fulfilled.
Taggable ==
  {t \in Ticket : /\ status[t] \in {"pending", "revision_requested", "approved"}
                  /\ fulfillment[t] # "ok"}

\* start_employee_hold, first stop or upgrade to a stronger one.
StartHold ==
  /\ holdCount < HoldLimit
  /\ holdCount' = holdCount + 1
  /\ onHold' = TRUE
  /\ held' = [t \in Ticket |-> IF t \in Taggable THEN "held" ELSE held[t]]
  /\ everHeld' = everHeld \cup Taggable
  /\ inFlight' = IF onHold THEN inFlight ELSE {a \in Attempt : pc[a] = "sending"}
  /\ UNCHANGED <<status, fulfillment, filing, claimVars, callVars, note, delivered, claimedHeld>>

\* release_employee_hold.
ReleaseHold ==
  /\ onHold
  /\ onHold' = FALSE
  /\ held' = [t \in Ticket |-> IF held[t] = "held" THEN "closed" ELSE held[t]]
  /\ UNCHANGED <<status, fulfillment, filing, claimVars, holdCount, callVars, note, delivered, historyVars>>

(***************************************************************************)
(* A call of fulfillApprovedInvoke, up to the claim                        *)
(***************************************************************************)
\* The caller reads the row.
LoadApproval(a, t) ==
  /\ pc[a] = "idle"
  /\ status[t] # "absent"
  /\ pc' = [pc EXCEPT ![a] = "loaded"]
  /\ ticket' = [ticket EXCEPT ![a] = t]
  /\ copy' = [copy EXCEPT ![a] = Row(t)]
  /\ UNCHANGED <<rowVars, claimVars, holdVars, result, note, delivered, historyVars>>

\* What fulfillApprovedInvoke answers from the copy alone.
NothingToRun(c) == c.status # "approved" \/ c.fulfillment \in {"ok", "unknown"}

ReturnWithoutClaim(a) ==
  /\ pc[a] = "loaded"
  /\ NothingToRun(copy[a])
  /\ pc' = [pc EXCEPT ![a] = "done"]
  /\ UNCHANGED <<rowVars, claimVars, holdVars, ticket, copy, result, note, delivered, historyVars>>

\* recheckPolicyAtFulfill before the claim: the settings still allow the tool ...
PolicyAllows(a) ==
  /\ pc[a] = "loaded"
  /\ ~NothingToRun(copy[a])
  /\ pc' = [pc EXCEPT ![a] = "checked"]
  /\ UNCHANGED <<rowVars, claimVars, holdVars, ticket, copy, result, note, delivered, historyVars>>

\* ... or no longer do: a fresh row that shows success is returned, otherwise the
\* stop will be recorded.
PolicyBlocks(a) ==
  /\ pc[a] = "loaded"
  /\ ~NothingToRun(copy[a])
  /\ pc' = [pc EXCEPT ![a] = IF fulfillment[ticket[a]] = "ok" THEN "done" ELSE "blocking"]
  /\ UNCHANGED <<rowVars, claimVars, holdVars, ticket, copy, result, note, delivered, historyVars>>

\* blockFulfillment: merge { ok: false } into the row (a failure to save is swallowed).
BlockFulfillment(a) ==
  /\ pc[a] = "blocking"
  /\ pc' = [pc EXCEPT ![a] = "done"]
  /\ fulfillment' \in {fulfillment, [fulfillment EXCEPT ![ticket[a]] = "failed"]}
  /\ UNCHANGED <<status, held, filing, claimVars, holdVars, ticket, copy, result, note, delivered, historyVars>>

\* Seeded fault: the marker of the copy is not looked at.
MayExecuteMarked(a) == copy[a].status = "approved" /\ ~onHold

\* assertApprovalExecutionAuthority as far as this model goes: the copy is approved
\* and carries no marker, and the hold columns, read now, are clear.
MayExecute(a) ==
  /\ copy[a].status = "approved"
  /\ copy[a].held = "none"
  /\ ~onHold

AuthorityAllows(a) ==
  /\ pc[a] = "checked"
  /\ MayExecute(a)
  /\ pc' = [pc EXCEPT ![a] = "authorized"]
  /\ UNCHANGED <<rowVars, claimVars, holdVars, ticket, copy, result, note, delivered, historyVars>>

\* A refusal before the claim throws; a revoked authority, an unfinished workflow
\* or an unavailable read refuse too.
AuthorityRefuses(a) ==
  /\ pc[a] = "checked"
  /\ pc' = [pc EXCEPT ![a] = "done"]
  /\ UNCHANGED <<rowVars, claimVars, holdVars, ticket, copy, result, note, delivered, historyVars>>

(***************************************************************************)
(* claim_approval_execution                                                *)
(***************************************************************************)
\* Seeded faults: a running claim is taken over; an uncertain one is run again; the status,
\* read before, is not looked at again under the lock.
ClaimableRunning(t) ==
  status[t] = "approved" /\ claimState[t] \in {"none", "failed", "running"} /\ fulfillment[t] # "ok"
ClaimableUncertain(t) ==
  status[t] = "approved" /\ claimState[t] \in {"none", "failed", "uncertain"} /\ fulfillment[t] # "ok"
ClaimableClosed(t) == claimState[t] \in {"none", "failed"} /\ fulfillment[t] # "ok"

\* A row the function may hand out: approved, never run or ended "failed", and
\* not shown as fulfilled.
Claimable(t) ==
  /\ status[t] = "approved"
  /\ claimState[t] \in {"none", "failed"}
  /\ fulfillment[t] # "ok"

\* The claim row is upserted and the caller's copy replaced by the locked row.
ClaimExecution(a) ==
  LET t == ticket[a] IN
  /\ pc[a] = "authorized"
  /\ Claimable(t)
  /\ claimState' = [claimState EXCEPT ![t] = "running"]
  /\ claimId' = [claimId EXCEPT ![t] = a]
  /\ copy' = [copy EXCEPT ![a] = Row(t)]
  /\ pc' = [pc EXCEPT ![a] = "claimed"]
  /\ claimedHeld' = IF t \in everHeld THEN claimedHeld \cup {a} ELSE claimedHeld
  /\ UNCHANGED <<rowVars, holdVars, ticket, result, note, delivered, everHeld, inFlight>>

\* denied, running, uncertain, the stored result of a success, or a failed RPC (the
\* trigger of the voting workflow raises there).
ClaimRefused(a) ==
  /\ pc[a] = "authorized"
  /\ pc' = [pc EXCEPT ![a] = "done"]
  /\ UNCHANGED <<rowVars, claimVars, holdVars, ticket, copy, result, note, delivered, historyVars>>

(***************************************************************************)
(* Under the claim                                                         *)
(***************************************************************************)
\* The authority is asserted again, on the copy the claim returned.
RecheckAllows(a) ==
  /\ pc[a] = "claimed"
  /\ MayExecute(a)
  /\ pc' = [pc EXCEPT ![a] = "executing"]
  /\ UNCHANGED <<rowVars, claimVars, holdVars, ticket, copy, result, note, delivered, historyVars>>

\* Seeded fault: the second refusal throws without finishing the claim.
RecheckThrows(a) ==
  /\ pc[a] = "claimed"
  /\ pc' = [pc EXCEPT ![a] = "done"]
  /\ UNCHANGED <<rowVars, claimVars, holdVars, ticket, copy, result, note, delivered, historyVars>>

RecheckRefuses(a) ==
  /\ pc[a] = "claimed"
  /\ pc' = [pc EXCEPT ![a] = "finishing"]
  /\ result' = [result EXCEPT ![a] = "refused"]
  /\ UNCHANGED <<rowVars, claimVars, holdVars, ticket, copy, note, delivered, historyVars>>

\* fulfillApprovedInvokeCore stops before any provider call: policy, destination,
\* rate-limit wait, busy thread, ledger down, an employee on hold at the pre-send
\* check.  The code decides whether it is one of the retryable ones.
StopBeforeSend(a) ==
  /\ pc[a] = "executing"
  /\ pc' = [pc EXCEPT ![a] = "persisting"]
  /\ result' \in {[result EXCEPT ![a] = "refused"], [result EXCEPT ![a] = "unknown"]}
  /\ UNCHANGED <<rowVars, claimVars, holdVars, ticket, copy, note, delivered, historyVars>>

\* The thread guard or the duplicate guard finds the ticket stale: it is closed
\* with nothing sent and nothing recorded but the close.
CloseAtFulfill(a, to) ==
  /\ pc[a] = "executing"
  /\ status[ticket[a]] = "approved"
  /\ status' = [status EXCEPT ![ticket[a]] = to]
  /\ pc' = [pc EXCEPT ![a] = "finishing"]
  /\ result' = [result EXCEPT ![a] = "refused"]
  /\ UNCHANGED <<fulfillment, held, filing, claimVars, holdVars, ticket, copy, note, delivered, historyVars>>

\* Seeded fault: no hold check before the provider call.
PreSendUnchecked(a) ==
  /\ pc[a] = "executing"
  /\ pc' = [pc EXCEPT ![a] = "sending"]
  /\ UNCHANGED <<rowVars, claimVars, holdVars, ticket, copy, result, note, delivered, historyVars>>

\* postConversationMessage: the last hold check, right before the provider call.
PreSendCheck(a) ==
  /\ pc[a] = "executing"
  /\ ~onHold
  /\ pc' = [pc EXCEPT ![a] = "sending"]
  /\ UNCHANGED <<rowVars, claimVars, holdVars, ticket, copy, result, note, delivered, historyVars>>

\* The provider call.  It is accepted and we learn so, refused for a reason known
\* to precede any effect, or answered in a way (timeout, 5xx, unlisted code, throw)
\* that leaves open whether the message went out.
Answer(a, r, n) ==
  /\ pc[a] = "sending"
  /\ pc' = [pc EXCEPT ![a] = "persisting"]
  /\ result' = [result EXCEPT ![a] = r]
  /\ delivered' = [delivered EXCEPT ![ticket[a]] = @ + n]
  /\ UNCHANGED <<rowVars, claimVars, holdVars, ticket, copy, note, historyVars>>

ProviderAccepts(a) == Answer(a, "ok", 1)
ProviderRefuses(a) == Answer(a, "refused", 0)
ProviderUnclear(a) == \E n \in {0, 1} : Answer(a, "unknown", n)

\* metadata.fulfillment for a result.
Recorded(r) ==
  CASE r = "ok" -> {"ok"}
    [] r = "refused" -> {"failed"}
    [] r = "unknown" -> {"failed", "unknown"}

\* persistFulfillment: the result is merged into the row.
PersistFulfillment(a) ==
  /\ pc[a] = "persisting"
  /\ pc' = [pc EXCEPT ![a] = "finishing"]
  /\ \E f \in Recorded(result[a]) : fulfillment' = [fulfillment EXCEPT ![ticket[a]] = f]
  /\ UNCHANGED <<status, held, filing, claimVars, holdVars, ticket, copy, result, note, delivered, historyVars>>

\* The merge fails.  blockFulfillment keeps its refusal; everywhere else the catch
\* block tries to record approval_metadata_save_failed and returns that code, which
\* is not a retryable one.  (A stop that records nothing at all ends here too.)
PersistFails(a) ==
  /\ pc[a] = "persisting"
  /\ pc' = [pc EXCEPT ![a] = "finishing"]
  /\ fulfillment' \in {fulfillment, [fulfillment EXCEPT ![ticket[a]] = "failed"]}
  /\ \/ result[a] = "refused" /\ UNCHANGED result
     \/ result' = [result EXCEPT ![a] = "unknown"]
  /\ UNCHANGED <<status, held, filing, claimVars, holdVars, ticket, copy, note, delivered, historyVars>>

\* finish_approval_execution: only the running claim with this claim id.
FinishExecution(a) ==
  LET t == ticket[a] IN
  /\ pc[a] = "finishing"
  /\ claimState[t] = "running"
  /\ claimId[t] = a
  /\ claimState' = [claimState EXCEPT ![t] = Verdict(result[a])]
  /\ pc' = [pc EXCEPT ![a] = "done"]
  /\ UNCHANGED <<rowVars, claimId, holdVars, ticket, copy, result, note, delivered, historyVars>>

\* The RPC fails or finds no such row: approval_execution_outcome_unknown is thrown
\* and the row stays as it is; nothing in the code expires a running claim.
FinishUnavailable(a) ==
  /\ pc[a] = "finishing"
  /\ pc' = [pc EXCEPT ![a] = "lost"]
  /\ UNCHANGED <<rowVars, claimVars, holdVars, ticket, copy, result, note, delivered, historyVars>>

\* The serverless function is killed between two awaits, or the answer of an RPC
\* that did commit is lost.
Crash(a) ==
  /\ pc[a] \in (PreClaim \cup UnderClaim) \ {"idle"}
  /\ pc' = [pc EXCEPT ![a] = "crashed"]
  /\ UNCHANGED <<rowVars, claimVars, holdVars, ticket, copy, result, note, delivered, historyVars>>

(***************************************************************************)
(* Specification                                                           *)
(***************************************************************************)
TicketStep(t) ==
  \/ InsertApproval(t)
  \/ WritePollPath(t)
  \/ \E d \in Decision : ResolveApproval(t, d)
  \/ \E to \in Closed : CloseWithoutSend(t, to)

NotifierStep(n) == (\E t \in Ticket : NotifierRead(n, t)) \/ UpdateTelegramState(n)

HoldStep == StartHold \/ ReleaseHold

\* The steps a call takes by itself, once started.
CallStep(a) ==
  \/ ReturnWithoutClaim(a) \/ PolicyAllows(a) \/ PolicyBlocks(a) \/ BlockFulfillment(a)
  \/ AuthorityAllows(a) \/ AuthorityRefuses(a) \/ ClaimExecution(a) \/ ClaimRefused(a)
  \/ RecheckAllows(a) \/ RecheckRefuses(a)
  \/ StopBeforeSend(a) \/ (\E to \in Closed : CloseAtFulfill(a, to)) \/ PreSendCheck(a)
  \/ ProviderAccepts(a) \/ ProviderRefuses(a) \/ ProviderUnclear(a)
  \/ PersistFulfillment(a) \/ PersistFails(a) \/ FinishExecution(a) \/ FinishUnavailable(a)

Next ==
  \/ \E t \in Ticket : TicketStep(t)
  \/ \E n \in Notifier : NotifierStep(n)
  \/ HoldStep
  \/ \E a \in Attempt : (\E t \in Ticket : LoadApproval(a, t)) \/ CallStep(a) \/ Crash(a)

Spec == Init /\ [][Next]_vars

\* Node runs the continuation of every await that settles, and every await of a call
\* does (database and provider calls time out): a call that is not killed goes on.
\* People, the environment and crashes owe nothing.
Fairness == \A a \in Attempt : WF_vars(CallStep(a))

FairSpec == Spec /\ Fairness

(***************************************************************************)
(* Properties                                                              *)
(***************************************************************************)
\* Every variable keeps to the values the schema and the code give it.
TypeOK ==
  /\ status \in [Ticket -> Status]
  /\ fulfillment \in [Ticket -> Fulfillment]
  /\ held \in [Ticket -> Marker]
  /\ filing \in [Ticket -> BOOLEAN]
  /\ claimState \in [Ticket -> ClaimState]
  /\ claimId \in [Ticket -> Attempt \cup {NoAttempt}]
  /\ onHold \in BOOLEAN
  /\ holdCount \in 0..HoldLimit
  /\ pc \in [Attempt -> Pc]
  /\ ticket \in [Attempt -> Ticket \cup {NoTicket}]
  /\ copy \in [Attempt -> Copy]
  /\ result \in [Attempt -> Result]
  /\ note \in [Notifier -> [ticket : Ticket \cup {NoTicket}, row : Copy]]
  /\ delivered \in [Ticket -> Nat]
  /\ everHeld \subseteq Ticket
  /\ claimedHeld \subseteq Attempt
  /\ inFlight \subseteq Attempt

\* A call is about a ticket from the moment it has loaded one, and only the copy of a
\* ticket shows a success.
CallHasTicket ==
  /\ \A a \in Attempt :
       pc[a] # "idle" \/ copy[a].fulfillment = "ok" => ticket[a] \in Ticket
  /\ \A n \in Notifier : note[n].row.fulfillment = "ok" => note[n].ticket \in Ticket

\* A call that has taken the claim and not handed it back still holds it: no other
\* call, no crash and no metadata write takes it away.
ClaimIsHeld ==
  \A a \in Attempt : pc[a] \in UnderClaim =>
    claimState[ticket[a]] = "running" /\ claimId[ticket[a]] = a

\* A running claim is the claim of one call for this ticket, which is at work under it, was
\* killed, or could not report: no early return, refusal or late metadata write leaves the
\* row running without a call that answers for it.
RunningClaimHasItsCall ==
  \A t \in Ticket : claimState[t] = "running" =>
    \E a \in Attempt : /\ claimId[t] = a /\ ticket[a] = t
                       /\ pc[a] \in UnderClaim \cup {"crashed", "lost"}

\* The claim rows and the calls agree at every moment, in both directions.
ClaimsAndCallsAgree == ClaimIsHeld /\ RunningClaimHasItsCall

\* What the provider has accepted by the time a call reaches each point.
CallKnowsItsSend ==
  \A a \in Attempt :
    /\ pc[a] \in {"claimed", "executing", "sending"} => delivered[ticket[a]] = 0
    /\ pc[a] \in {"persisting", "finishing"} /\ result[a] = "ok" => delivered[ticket[a]] = 1
    /\ pc[a] \in {"persisting", "finishing"} /\ result[a] = "refused" => delivered[ticket[a]] = 0

\* Whatever the interleaving of calls, crashes, lost answers, metadata overwrites and
\* stops, the provider accepts the message of a ticket at most once
\* (executeApproval and claim_approval_execution; "never auto-retried").
AtMostOnce == \A t \in Ticket : delivered[t] <= 1

\* A ticket that claim_approval_execution would hand out again has sent nothing: a
\* "failed" claim really stands for a failure before the provider.
SafeToRunAgain ==
  \A t \in Ticket : claimState[t] \in {"none", "failed"} => delivered[t] = 0

\* A success on record is a message the provider accepted: on the claim, in the row's
\* metadata and in every stale copy that may be written back or returned.
SuccessIsReal ==
  /\ \A t \in Ticket : claimState[t] = "succeeded" \/ fulfillment[t] = "ok" => delivered[t] = 1
  /\ \A a \in Attempt : copy[a].fulfillment = "ok" => delivered[ticket[a]] = 1
  /\ \A n \in Notifier : note[n].row.fulfillment = "ok" => delivered[note[n].ticket] = 1

\* The inductive invariant the proofs use.
ExecutionInvariant ==
  TypeOK /\ CallHasTicket /\ ClaimIsHeld /\ CallKnowsItsSend /\ AtMostOnce
         /\ SafeToRunAgain /\ SuccessIsReal

\* Two calls never work on one ticket under the claim at the same time.
ExclusiveRun ==
  \A a, b \in Attempt :
    /\ pc[a] \in UnderClaim
    /\ pc[b] \in UnderClaim
    /\ ticket[a] = ticket[b]
    => a = b

\* An outcome is final: succeeded and uncertain never change, and a running claim is
\* ended only by the call whose claim id it carries, when that call has a result.
OutcomeIsFinal ==
  [][\A t \in Ticket :
       /\ claimState[t] \in {"succeeded", "uncertain"} => claimState'[t] = claimState[t]
       /\ claimState[t] = "running" /\ claimState'[t] # "running" => pc[claimId[t]] = "finishing"
       /\ claimState[t] = "running" => claimId'[t] = claimId[t]]_vars

\* During a stop the only messages that can still go out are those whose call had
\* passed the pre-send check when the stop began.
StopReachesTheSend == onHold => {a \in Attempt : pc[a] = "sending"} \subseteq inFlight

\* lib/safety/hold.ts: a ticket tagged by a hold "is never executed - not during the
\* hold, not after release": a call that takes its claim after a stop tagged the
\* ticket never gets to execute().
HeldTicketNeverExecuted ==
  \A a \in claimedHeld : pc[a] \notin {"executing", "sending", "persisting"}

\* lib/approvals/fulfill.ts, fulfillApprovedInvoke: "never overwrite a fulfillment that
\* already succeeded elsewhere".
SuccessNeverOverwritten ==
  [][\A t \in Ticket : fulfillment[t] = "ok" => fulfillment'[t] = "ok"]_vars

\* A claim does not stay "running" unless its call was killed or could not report.
ClaimSettles ==
  \A t \in Ticket :
    claimState[t] = "running" ~>
      \/ claimState[t] # "running"
      \/ \E a \in Attempt : ticket[a] = t /\ pc[a] \in {"crashed", "lost"}

(***************************************************************************)
(* Refinement                                                              *)
(***************************************************************************)
\* What the claim row says of the message, in the terms of AtMostOnceSend.
SendStateOf(t) ==
  CASE claimState[t] \in {"none", "failed"} -> "idle"
    [] claimState[t] = "running" -> "busy"
    [] claimState[t] = "succeeded" -> "done"
    [] claimState[t] = "uncertain" -> "unknown"

AbstractState == [t \in Ticket |-> SendStateOf(t)]

Send == INSTANCE AtMostOnceSend WITH state <- AbstractState, delivered <- delivered

\* Execution as coded implements the at-most-once promise.
ImplementsAtMostOnceSend == Send!Spec

\* The rows of one ticket in the terms of TicketLife.
LifeStatus(t) ==
  IF status[t] \in {"rejected", "revision_requested"} THEN "refused"
  ELSE IF status[t] \in Closed THEN "closed" ELSE status[t]
LifeClaim(t) == IF claimState[t] \in {"succeeded", "uncertain"} THEN "over" ELSE claimState[t]

Life(t) == INSTANCE TicketLife WITH status <- LifeStatus(t), claim <- LifeClaim(t)

\* Whatever the calls, notifiers and stops do to it, every ticket is decided once and run
\* only while approved, by one call at a time and never after an outcome that may have sent.
ImplementsTicketLife ==
  /\ \A t \in Ticket : Life(t)!Init
  /\ [][\A t \in Ticket : [Life(t)!Next]_(Life(t)!vars)]_vars
=============================================================================
