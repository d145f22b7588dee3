# Formal models of the Grok Bot control plane

The control plane lets AI employees act through a gateway, holds risky actions back as
approval tickets, and sends an approved action to a provider (Slack, LINE, mail, SNS). What
can go wrong is what two serverless calls, a dashboard click, a cron job and a killed
function do to the same rows between their awaits. These modules model that: TLC checks them
on small instances, TLAPS proves the main properties for every value of the constants.

Paths below are relative to `src/`; migrations are in `supabase/migrations/`.

## The system

Next.js handlers (TypeScript) over one Postgres database. A handler is a sequence of awaits:
one statement, one RPC, one provider call. The SQL functions are transactions and take row
locks, so each is one step; everything a handler remembers across an await may be stale.
Handlers interact only through rows.

| Component | State it keeps | Operations | Interacts with | What makes it correct |
|---|---|---|---|---|
| Approval tickets (`lib/data/approvals.ts`) | `approval_requests`: status, metadata (invoke snapshot, fulfillment, marks) | file, decide, close without send, write metadata (merge or whole object) | every other component marks its tickets | decided once; nobody's mark is lost |
| Execution (`lib/approvals/execution.ts`, `fulfill.ts`, 20260916000000) | `approval_execution_claims`: state, claim id | claim, re-check, execute, finish | tickets, holds, workflow, guards, providers | a message leaves at most once; an unknown outcome is never retried; a claim is settled |
| Emergency stop (`lib/safety/hold*.ts`, 20261012500000, 20261016300000) | `employee_holds`, `hold_id` of employees and orgs, marks on tickets | stop, upgrade, ask for release, approve, release | execution (four checks), tickets, members, renewals (trigger) | pointers and history agree; two people release; tagged tickets never run |
| Members (`lib/team`, `lib/data/members.ts`) | roles, capabilities, designation | change, invite, deactivate | approver authority, release flow | one owner remains |
| Approval workflow (20260916120000, `lib/approval-workflow`) | instance, snapshot, ballots | initialise, vote, recover | tickets (status trigger), execution (claim trigger) | no execution without every stage's quorum and the final go |
| Approver authority (`lib/approver-authority`) | endorsement in metadata | check, record, compare-and-set of policies | tickets, execution | the approver is one at execution too |
| Duplicate post guard (`lib/comm-reply-dedup`) | `comm_reply_send_fingerprints` | claim, finish, release uncertain, close approvals | fulfilment, direct sends, pending approvals | no second copy of a reply; nothing is closed for a send that failed |
| Thread single flight (`lib/thread-guard`) | leases, own last post per thread | acquire, take over, release, record | fulfilment, direct sends, the guard above | a reply to an older state of the thread is not sent |
| Attachment upload (`lib/approvals/attachment-*.ts`) | `metadata.attachmentUpload` | claim, finish, reconcile, stop, cap | tickets, Slack files | one file per ticket; a definite answer is not overwritten |
| Auth link (`lib/approvals/auth-link-send-claim.ts`) | `metadata.authLinkFulfillment` | claim, release, consume, uncertain | tickets | a link is used once |
| Credential renewal (`lib/data/credential-renewals.ts`) | `credential_renewals`, `credentials` | claim, issue, complete, abort, expire | holds, tickets, badge check of every MCP call, dashboard rotation | the employee keeps a usable badge; a retired one stays out; a stop closes what waits |
| MCP events (`lib/mcp-events`) | subscriptions, delivery outbox | subscribe, emit, claim, deliver, defer, drop | tickets, credentials | bounded attempts, each delivery ends |
| AI peer wake guard (`lib/data/ai-peer-wake.ts`) | counter per thread | claim, stop, resume | Slack ingress | the cap holds |
| MCP OAuth, config change, decision workflow, stuck watch, billing, operator notices, channel adapters, gateway policy, landing page and console | see `PROJECT.json` | | | not modelled |

Hard behaviours: concurrent calls for one ticket (immediate fulfilment, MCP re-invoke, proxy,
the W2 cron); stale copies of a row; metadata written as a whole object; a provider answer
that does not say whether the message left; a function killed between two awaits; an RPC that
commits and whose answer is lost; stops, upgrades and releases in any order against work
already in flight; roles that change between a request and its approval. `PROJECT.json` lists
each as a hazard at its line.

## Modules

| Module | Models | Uses |
|---|---|---|
| `AtMostOnceSend` | the abstract promise: a ticket's message is delivered at most once; "idle" sent nothing, "done" sent one, "unknown" is final | |
| `TicketLife` | the abstract life of a ticket and its claim: decided once, a refused or closed one never approved again, a claim taken only of an approved ticket that is not running or over | |
| `TwoPersonStop` | the abstract stop: replaced by stronger ones only, asked for by one, released by an approver who signs, and by the asker only when alone and not against a detector | |
| `ApprovalExecution` | tickets, claims, stop, notifiers and calls of `fulfillApprovedInvoke` | `AtMostOnceSend` and `TicketLife` by refinement |
| `ApprovalExecutionProofs` | its theorems | TLAPS |
| `EmployeeHold` | holds of employee and organisation, tags, release flow, team | `TwoPersonStop` by refinement |
| `EmployeeHoldProofs` | its theorems | TLAPS, `FiniteSetTheorems` |
| `ApprovalWorkflow` | the voting that decides one ticket: policy, instance, ballots, calls, triggers, the claim | `TicketLife` by refinement |
| `ApprovalWorkflowProofs` | its theorems | TLAPS, `FiniteSetTheorems` |
| `MCApprovalExecution`, `MCEmployeeHold` | symmetry for TLC | |
| `MCApprovalWorkflow` | the policies TLC tries | |
| `ReplyPath` | thread lease, moved-on check, duplicate ledger, post and record, filing and closing of approvals: the way of a reply to one conversation | |
| `ReplyPathProofs` | its theorems | TLAPS |
| `McpEventDelivery` | subscriptions of one badge and the deliveries of its events | |
| `McpEventDeliveryProofs` | its theorems | TLAPS |
| `CredentialRenewal` | the badges of one employee: renewal, overlap, rotation, stop | |
| `CredentialRenewalProofs` | its theorems | TLAPS |
| `MCOutbound` | `ReplyPath` and `McpEventDelivery` in one run: they share no table, so one of them moves while the other stays where it began; no state has both under way | both |
| `MCOutboundProofs` | theorems about the composition | the proofs of both |
| `MCCredentialRenewal` | a common bound for TLC | |

### ApprovalExecution

The variables `status`, `fulfillment` and `held` are the three parts of an `approval_requests`
row that decide whether it runs; `claimState` and `claimId` are the claim row; `onHold` is
`employees.hold_state`. Each call has its `pc`, its own `copy` of the row and the `result` of
`execute()`. `delivered` counts what the provider accepted: the truth no table holds.
`everHeld`, `claimedHeld` and `inFlight` are history.

A call walks through the steps of the code: `LoadApproval` (the caller's read),
`ReturnWithoutClaim` / `PolicyAllows` / `PolicyBlocks` + `BlockFulfillment`
(`fulfillApprovedInvoke`), `AuthorityAllows` / `AuthorityRefuses` (the check on the copy, with
the hold columns read now), `ClaimExecution` / `ClaimRefused` (`claim_approval_execution`, and
`Object.assign` of the locked row over the copy), `RecheckAllows` / `RecheckRefuses`, then
either a stop (`StopBeforeSend`, `CloseAtFulfill`) or `PreSendCheck` and one of
`ProviderAccepts`, `ProviderRefuses`, `ProviderUnclear`; `PersistFulfillment` /
`PersistFails`; `FinishExecution` / `FinishUnavailable`. `Crash` can happen between any two.
A lost RPC answer after a commit is a `Crash` just after the step: the call has no further
effect in either case, as `finish` then throws `approval_execution_outcome_unknown`.

The environment: `InsertApproval` and `WritePollPath` (the two statements of
`createApproval`), `ResolveApproval`, `CloseWithoutSend`, `NotifierRead` +
`UpdateTelegramState` (read, talk to the channel, write the whole metadata back), `StartHold`,
`ReleaseHold`.

Abstracted: error codes are three classes (`Result`); an error code is "refused" exactly when
`isRetryableApprovalFailure` lists it, and `ProviderRefuses` assumes what that list says of
the provider, that a listed refusal precedes any effect. The delivery branches (Slack, LINE,
mail, SNS) share one shape. A revoked authority and an unfinished voting workflow are
nondeterministic refusals. Demo mode is left out.

`ApprovalExecution` and `ApprovalWorkflow` model the two halves of one ticket, who decides it
and who runs it, and share its status and its claim. Both implement `TicketLife`: `LifeStatus`
and `LifeClaim` map their rows to it, so each half may rely on what the other keeps.
`CloseWithoutSend` and `CloseAtFulfill` map to `Close`, every other step of a call to a step of
the claim or to a stutter.

### EmployeeHold

`hold` is the table `employee_holds` in the order of its rows, `current` the `hold_id`
pointers. `Class` joins `kind` and `started_via` as far as rules look at them. Three SQL
functions are `StartHold` (with `Outranks`, `HistoryAfterStart`, `Tagged`), `RequestRelease`
(`MayRequest`) and `ReleaseHold` (`MayRelease`). `requestHoldRelease` is `ReadHold`,
`FileTicket`, `RequestRelease` or `RequestFails`, `ExpireTicket`; `approveHoldRelease` is
`ReadHoldToRelease`, `ReadTicket`, `CheckApprover`, `DecideTicket` or `DecideFails`,
`ReleaseHold` or `ReleaseFails`, `RereadHold`, `RevertTicket` or `RevertFails`. A released
row's `releasedBy` and every lost answer are explicit. `ChangeRole` and `Deactivate` change the
team between any two steps, under the last-owner trigger.

Abstracted: the surface of a click (a click from another surface than the one that approved is
not resumed; it then changes nothing and is a click that does not start), re-authentication,
reasons, audit rows (their failure is a rolled-back release) and notifications. The approvers
are read and the ticket filed in one step: between the two nobody else knows of the ticket.

Without rows, tickets and calls this is `TwoPersonStop`: a scope's pointer and the row it names
map to the strength of the stop in force and to who asked, the team to its members and its
approvers, and the rows' `releasedBy` to a record that each release signs. Only `StartHold`,
`RequestRelease`, `ReleaseHold` and the changes of the team are steps of it. Everything
`requestHoldRelease` and `approveHoldRelease` read, remember and re-read on the way is a stutter.

### ApprovalWorkflow

`wf` is the row of `approval_workflow_instances`, `ballot` and `usedBy` the columns `vote` and
`decision_id` of its ballots, one slot per stage and voter and one for the final go; `ticket`
is the status of the approval request and `claim` the state of its execution claim. `policy`
is the snapshot, with two facts of the ticket: whether the insert trigger or kind-route calls
make its instance, and whether it is of the admin class in an organisation that enforces its
approvers. `current` is the set of voters `workflow_voter_is_current` holds for.

A call of `resolveWorkflow` starts by reading the ticket, the instance and the stage open then
(`Start`: `Deliver` for a chat click, as often as the provider likes, `WebVote` for a web
request), makes the instance and its ballots if a kind route asks for it (`InsertInstance`,
`InsertBallots`: two statements of two awaits), and casts its vote in one transaction:
`CountVote` (with `NewBallots`, `NewInstance` and `Resolved` in the order of the RPC),
`Recover`, or `VoteRefused`, which covers every returned reason and every exception. An
exception undoes the ballot too: `Commits` is what the transaction must pass at its end.
`Crash` can come between any two statements; a lost answer of the RPC is a `Crash` after it.
`ChangeAuthority`, `DirectResolve` (a writer stopped or let through by the triggers), `Close`,
`ClaimExecution` (the claim under its trigger) and `FinishExecution` are the environment.

`InitGap` starts with the rows the old implementation could leave, a decided instance under a
pending ticket, for which the RPC has its recovery branch.

Abstracted: `current` joins membership, capability, suspension, ban and chat binding; a voter
named by nobody has no ballot and their calls are left out, as is the check of self-approval,
which does not change between two steps. Tickets of approver authority (`authorityStop` before
the vote), requests for revision and demo mode are left out, and so are tickets that never get
an instance: `resolve_approval_w1_checked` is one statement, in `ApprovalExecution` as
`ResolveApproval`. Hold-release tickets are decided in `EmployeeHold`.

### ReplyPath

Composes two components that the code calls one after the other, the thread guard and the
duplicate guard, over the three tables they keep: `lease` is the row of `thread_send_leases`,
`selfPost` the latest recorded post of each employee, `ledger` the state of each call's row in
`comm_reply_send_fingerprints`. `req` is what a call is about and, for an approval, its status;
`run` is where the call stands. `clock` and `posted` are what the provider really took.

A call is a direct send (`invoke.ts`) or the fulfilment of an approval (`fulfill.ts`), which
does the same in the same order: `Acquire` (with the re-entry of its own job) or `TurnedAway`;
`FindMovedOn`, `FindCurrent` or `Unavailable` (the check against what it read); `ClaimSend`,
`FindDuplicate` or `FindExpired` (`claim_outbound_send_v2` under its advisory lock); `Post`;
`Settle` (`finish_comm_reply_send`); `ListAfterSend`; `Record`; `Finish`. A stop before the send
ends a direct call and leaves an approval to be run again (`Stopped`, `Ended`). Around them are
`Receive`, `QueueApproval`, `Approve`, `Expire` and `ConfirmAbsent` (an AI declares an uncertain
post absent).

Closing the pending approvals of one body is cut at its awaits. `QueueApproval` is the insert of
the ticket alone: from then on anybody may decide it. `ListOnFiling` is the list that the call
that filed it makes next, `ListAfterSend` the one after a post; `toClose` is what a call has
listed and not yet gone through, and `CloseListed` closes one of them, newest first, if it is
still pending (`close_approval_without_send`), or passes it over. The list knows employee, body
and "pending"; a filer leaves out its own ticket and nobody compares ages (`OtherPending`). A
list that fails closes nothing, and a filer that is killed is one that makes no further step.
After a post the closings come before the post is recorded (`Swept`). `before` and `crossed`
are the order of the filings, and which of them had yet to list at the next one. Faults: `Die`, `LapseLease`,
`StoreFails`; each marks its call `doubtful`.

Abstracted: a body stands for all texts that compare as the same or similar; `outside` records
which rows have left the window a call is judged by, and `AgeOut` assumes that no call runs for
as long as a window. Whether a job's first post is at most ten minutes old is left open. An
approval's window reaches back from its creation, so its own row is always inside.

What reading the code for it showed, beside the properties:
- A row left `reserved` by a killed call blocks the same body for the window, and an approval
  that meets it is closed as superseded although perhaps nothing was sent
  (`lib/comm-reply-dedup/guard.ts:785`); its own row of an earlier run counts too.
- Two approvals of one body whose filings overlap list one another, and each filer closes the
  other's: both end superseded with no message sent. Or one filer is slower and the older
  approval closes the newer. `lib/comm-reply-dedup/approvals.ts:4` speaks of "a newer approval"
  only. `SupersededForAReason` allows an older one exactly when it had yet to list the pending
  ones as the newer was filed (`Replaced`). A list or a close that fails leaves both pending.
- The list after a post comes after the post: it also closes an approval that was filed since.
- An `uncertain` post closes pending approvals, where the comment at
  `lib/comm-reply-dedup/guard.ts:636` speaks of sent ones. `SupersededForAReason` allows it.
- A call of the same job takes over the lease of one that is still running, which is not told.
- `thread_self_posts` keeps one row per employee: a later post of one's own job, which the check
  excuses while it is recent, hides an earlier one of another job of the same employee. Posts of
  other employees are not hidden, and `NoStaleReply` is about those.

### McpEventDelivery

`sub` is the status of each row of `mcp_event_subscriptions` ("stale": active but past
`refreshBefore`), `delivery` the outbox row of each subscription and event, `account` what
`checkSubscriptionPrincipal` finds. `attemptDelivery` is cut at its awaits: `Claim`
(`claimDelivery`, which counts the attempt and takes a lease by comparing what it read),
`GiveUpUnsent`, `ReadSubscription`, `ExpireSubscription`, `CheckPrincipal`,
`RevokeSubscriptions` and `DropRevoked`, `CheckFails` and then `GiveUpDeferring` or `Defer`,
`PostWebhook`, and `Write` (`updateDelivery`, by id alone). Subscribing is `Subscribe` and, an
HTTP challenge later, `UpsertSubscription` or `SubscribeFails`; leaving is `Unsubscribe`,
`EndSubscription` and `DropUnsubscribed`. `WorkerDies`, `LeaseLapses` and `WindowCloses` come at
any time. `posts` and `outlived` are history: what reached the receiver, and which deliveries
had an attempt that ran longer than its lease.

Left out: back-off times (a pending row may be tried at any time), pruning, attribution of a
reaction to an event, the verification budget, signing.

Seen while modelling, outside the properties: the upsert after the challenge, `unsubscribe` and
the expiry write the status without comparing it, so a revocation written in between is lost
(`lib/mcp-events/service.ts:201`; every delivery asks for the principal again, so nothing leaves
for a badge that is gone); a late `Write` can put a finished delivery back to pending, which
costs further attempts, within the retry window.

### CredentialRenewal

Badges are numbered as they are minted. `bound` is the fingerprint in the employee's binding,
`cred` the `credentials` rows, `renewal` the `credential_renewals` row of each old badge with
its claim token, window and overlap; `ticket` is each proposal's approval ticket. `handed` is
who really has a secret and `stopped` which tickets a stop caught: history.

`Propose`, `InsertRenewal` / `ReuseRenewal` (a read and an update by id), `Decide`,
`StartFulfilment`, `OpenWindow` or `FulfilmentFails`, `CloseStale`; the claim route is
`ReadToClaim`, `ClaimRenewal`, `IssueBadge` or `IssueFails` with `ReleaseClaim`, `HandOver` or
`AbortMinted`, and `ClaimerDies`; a claim or an issue whose answer is lost is a case of its
action. `Authenticate` is any accepted badge in use; the first use of a new one starts a
switchover. The switchover and the cron's revocation are split in two, the checks and the
writes, since the SQL functions do not lock what they check (`switching`, `retiring`).
`RotateBinding`, `InsertRotated`, `FinishRotation` and `RotationDies` are the dashboard's
`rotateCredential`. `StopEmployee` is the stop with its trigger.

Left out: the seven-day threshold (a renewal may be proposed at any time, one row per badge),
modes, audit rows, two rotations at once, and the metadata writers that lose the tag of a stop;
those are `held_tag_overwritten`.

What the properties except, and what the code does there:
- `StopClosesTheWindow` speaks of the ticket a claim has read. A claim paused between its read
  and its update, across a stop, a release and a new approval, claims the row for the new ticket.
- `BindingNamesAHandedBadge` and `OverlapEnds` except a rotation that died after moving the
  fingerprint and before inserting the credential (`lib/data/bindings.ts:200`): the employee is
  locked out until the next rotation.
- `insertOrReuseCredentialRenewal` may overwrite a row that became live after its read; a badge
  issued under it is then nobody's renewal any more.
- A lost `last_used_at` together with a failed switchover lets the cron revoke a badge in use; a
  cron that found a badge unused may revoke it while its first use switches over to it, and the
  binding then names a revoked credential.
- A claim whose answer is lost keeps the row until it expires after a day.

## Runs

| Run | Question | Instance | Result |
|---|---|---|---|
| `approval_execution` | can a message leave twice, a claim be stolen or be left running by nobody, a refused ticket run, a claim hang? | 1 ticket from filing, 2 calls, 1 notifier, 1 stop; with fairness | 541,867 states, all properties hold |
| `approval_hold` | does a stop reach what is approved, claimed or in flight? | 1 filed ticket, 3 calls, 2 stops, no notifier | 994,919 states, hold |
| `held_tag_overwritten` | the same with one handler that writes metadata back | 1 ticket, 1 call, 1 notifier, 1 stop | violated (finding) |
| `success_overwritten` | is a recorded success kept? | 1 ticket, 2 calls | violated (finding) |
| `hold_history` | do history, pointers and tags agree? | employee and organisation, 1 member, 2 requests, 1 click, 1 work ticket, 3 holds | 1,923,144 states, hold |
| `hold_release` | is the two-person rule kept, whatever the rows and calls do; is a refusal final, an approved release always some call's, and not stranded? | employee, 2 members, 1 request, 2 clicks, 2 holds, 1 team change; with fairness | 800,556 states, hold |
| `hold_release_reopened` | does the ticket of a finished release stay? | employee, 2 members, 1 request, 2 clicks | violated (finding) |
| `approval_workflow` | do votes count once, in order and with authority, does the ticket follow and keep its life; can voting come to a dead end, and does it decide? | 4 policies of 2 voters, 1 click, 2 calls; with fairness | 195,572 states, all properties hold |
| `credential_renewal` | can a renewal lock the employee out, bring a retired badge back, get past a stop, leave two badges valid, or leave an overlap that nothing can end? | 2 proposals, 2 claims, 3 badges, 1 stop, rotation and cron, at most 5 of badges, proposals and claims together; with fairness | 496,908 states, all properties hold |
| `outbound` | can a reply be repeated or stale, an approval close for itself, for nothing or for a send that failed; is an event posted too often, again after it ended, or retried for ever? | replies: 2 direct sends and 1 approval of 2 employees, 2 of them one job, or 2 approvals of one employee and body, 2 posts, 1 fault, long or short bodies; events: 1 subscription, 1 event, 2 workers, 1 subscriber's call, 2 attempts, 2 faults; with fairness | 811,185 states, all properties hold |
| `admin_never_approved` | can an enforced admin ticket with a workflow be approved? | 1 stage, 2 voters, 2 calls; with fairness | violated (finding) |
| `kind_final_go` | has the final go of a kind route a ballot? | 1 stage, 2 voters and the final go | violated (finding) |

Why the bounds are enough. Tickets do not interact in `ApprovalExecution` (a claim, a copy and
a result concern one ticket), so one ticket suffices; two calls give every race for the
claim, and a call that ended "failed" lets the second one run again; three calls with two stops add
a call before, during and after a stop. In `EmployeeHold` three holds are an employee's stop,
its upgrade and the organisation's stop, the shortest history in which tags are taken over
twice; two members are the requester and the other approver, and one change makes either of
them lose or gain authority. `HoldLimit` and `TeamLimit` bound only counters, and the proofs
hold for every value of them.

In `ApprovalWorkflow` two voters give a stage that needs one, both, or tolerates a rejection,
two stages give a later one with the same voters, and the final go falls to one of them; one
click delivered twice, into two calls and two stages, is the whole of a retry. Calls are
reused after they end, so nothing bounds their number, and authority comes and goes without
bound.

In `CredentialRenewal` a badge names its renewal and only the newest badge may be renewed, so
three badges are a renewal and what comes after it (a rotation, or the next renewal); two
proposals reuse one row and two claims race for it. `RenewalLimit` (5, of badges minted,
proposals and claims begun) cuts what has everything at once: with the first badge it leaves
three badges with a proposal and a claim, two badges with a second proposal or a second claim,
and both of each before any badge is issued. `StopLimit` and `BadgeLimit` bound counters.

In `ReplyPath` duplicates and staleness are about two calls; the third makes an approval that is
run again meet both of the others. All three texts are one body, the case in which the ledger
matters, and long in one half of the initial states, short in the other, where only one's own
posts and job count. The other scenario of the run has two approvals and no other call: their filings, lists and
closings interleave with each other and with the fulfilment of either, so that both are closed,
the older closes the newer, one is decided between list and close, or both stay (each of these
states is reached). It has one body and no read point for the second, since a message of
somebody else is what the first scenario is about; in that one a filing, which finds nothing to
list, is not kept waiting. `ReplyLimit` (3 of calls received, faults and confirmations) trades
the third call for a fault or a confirmation; `PostLimit` and `LossLimit` bound counters. In `McpEventDelivery` deliveries share nothing
but their subscription's status and the badge, so one delivery suffices; two workers are the
emit's own and the cron's. `MaxAttempts` is 2, so that a count one off, a retry and a last
attempt all occur; `AccountLimit`, `DeathLimit` and `FaultLimit` bound the turns of the badge and
the deaths, with one of each or fewer. The theorems hold for every value of all of these.

Both runs bound a sum by a conjunct beside the next-state relation. TLC's coverage of them shows
every action of `CredentialRenewal`, `ReplyPath` and `McpEventDelivery` taken, with every
alternative inside it.

`CHECK_DEADLOCK FALSE`: calls, stops and team changes are finite, so the modelled system ends;
a decided ticket leaves nothing to do.

The five violation runs show where the code does less than its comments say; each is recorded
under "findings" with the quoted line. None of them sends a message twice: `AtMostOnce` is
checked and proved with notifiers, two-statement filing and blocked calls all included.

## Fairness

`FairSpec` gives weak fairness to the steps of a started call (`CallStep(a)`, `ClickStep(c)`)
and to nothing else. Node continues a handler when its await settles, and every await does
settle (database and provider calls have time-outs). A call is one sequential process, so some
step of it stays enabled until it ends. People, notifiers, stops and crashes owe nothing.
`ClaimSettles` and `ReleaseSettles` name their exceptions: a killed call, a failed report, a
failed revert. The code has no sweeper that ends a running claim, and the model has none.

In `ApprovalWorkflow` calls end too (`Cast(h) \/ Crash(h)`). `ClassVotesDecide` further
assumes that each voter goes on voting from the web and that not every one of their calls
dies. Another call may fill their handler or decide the stage first, again and again, so this
is strong fairness. It is an assumption about people, stated in the property's comment: nobody
is assumed to vote yes, to click in chat or to keep their authority, and a ticket may be closed
at any time. The property claims nothing while authority is missing or so many have rejected
that the quorum is out of reach, and nothing for kind routes, whose instance may be left
without ballots by a crash.

`DeliveriesEnd` and `OverlapEnds` rest on time and cron. A started attempt goes on to its end
or dies (`WorkerStep`, weak); leases and the retry window pass (weak); the cron, which runs
every minute, comes back to a pending row that other workers may hold in between (`Claim`,
strong). The overlap of two badges passes, a rotation ends or dies (weak); the digest cron,
twice a day, comes back to an overdue row, and its calls do not fail for ever (strong, since a
failed call is tried at the next one). Nothing else moves by fairness: no receiver answers, no
principal check succeeds, no badge is used, no claim is finished, no stop is released.

Four of these properties have a safety half that needs no fairness and is proved: the state from
which they promise progress is one that somebody can still leave. `ClaimsAndCallsAgree` for
`ClaimSettles`, `ReleaseHasItsCall` for `ReleaseSettles`, `NeverStuck` for `ClassVotesDecide`,
`OverlapCanEnd` for `OverlapEnds`. What is left to fairness is that the somebody goes on.

## Proofs

One module per component: `ApprovalExecutionProofs` (901 obligations), `EmployeeHoldProofs`
(1948), `ApprovalWorkflowProofs` (1199), `ReplyPathProofs` (1558), `McpEventDeliveryProofs` (704),
`CredentialRenewalProofs` (1610), and `MCOutboundProofs` (29) for the composition, each
checked by `tlapm`. They assume only the named assumptions on the constants (`ConstantsAssumption`, `HoldConstants`, `WorkflowConstants`,
`ReplyConstants`, `EventConstants`, `RenewalConstants`: the null values are outside their sets,
the bounds are natural numbers, the team and the voters are finite, every policy is one
`validate_workflow_snapshot` accepts, direct sends are not approvals, there is an attempt and a
badge).

`ExecutionInvariant` is inductive. `AtMostOnce` alone is not: to bound `delivered` by one,
the step `Answer` needs that nothing was sent before (`CallKnowsItsSend`), which holds because
the claim came from "none" or "failed" and those have sent nothing (`SafeToRunAgain`), and
because no other call can have sent since (`ClaimIsHeld`). `SafeToRunAgain` in turn needs
`CallKnowsItsSend` at `FinishExecution`, where "refused" becomes "failed". `SuccessIsReal`
must cover stale copies too, since the channel handlers write them back. `CallHasTicket` keeps
"the ticket of this call" meaningful. From the invariant follow `ExclusiveRun`,
`OutcomeIsFinal` and the refinement: each step maps to a step of `AtMostOnceSend` or to a
stutter under `SendStateOf`. `StopReachesTheSend` has an invariant of its own, and
`HeldTicketNeverExecuted` is proved under the assumptions that no handler writes a whole
metadata object (`Notifier = {}`) and filing is over (`Filed = Ticket`), which is exactly what
`held_tag_overwritten` shows to be necessary.

`ClaimsAndCallsAgree` ties claim rows and calls both ways. One way, `ClaimIsHeld`, is part of
`ExecutionInvariant`; the other, no claim runs without a call that answers for it, needs that a
call under its claim never changes its ticket and leaves its places only by dying, by a report
that failed, or by finishing the row itself. `ExecutionKeepsTicketLife` maps every step to one
of `TicketLife`: `ClaimExecution` is a `Begin` since it reads the status under the lock,
`CloseAtFulfill` a `Close` since it compares it, and `FinishExecution` an `End` since
`ClaimIsHeld` says that the row it finishes is running. `CallKnowsItsSend`, `SafeToRunAgain`,
`ExclusiveRun` and `OutcomeIsFinal` are proved and no longer in a run: the two refinements a run
checks rest on them.

`HoldInvariant` is `TypeOK`, `Shape`, `PointerIsOpenHold` and `OpenTagNamesOpenHold`. `Shape`
says what a table of rows gives for free and a function does not: rows are used in order,
unused ones name no ticket, a pointer names a row of its own scope, a row's ticket was filed by
a call that has got that far and by the member the row names, and a click knows its hold, ticket
and member. With it, `PointerIsOpenHold` survives an upgrade (the only row closed is the one
the pointer named) and a release (only the pointer's own row is open), and
`OpenTagNamesOpenHold` survives both because the tags of a closed row are moved or closed in
the same transaction. `TwoPeopleRelease`, `StopNeverWeakens`, `RequestNotReplaced` and
`RefusalStands` are action properties that follow from the invariant action by action;
`TwoPeopleRelease` also needs that a set of cardinality one that contains the approver is
its singleton. `StopNeverWeakens` is no longer in a run, since `ImplementsTwoPersonStop` implies it.

`StopTakesTwoPeople`, the refinement of `TwoPersonStop`, says the same of a stop as a whole:
`StopInvariant` adds `Unsigned` (nobody has signed for a row that is not released, so that a
release writes a fresh line of the record) and `OwnerStays` (the last-owner trigger leaves an
approver whatever the other rows of the team do). A start is a `Stop` because an upgrade outranks
the row the pointer names; a release is a `Release` because `MayRelease` looks at the ticket, the
requester's membership and the approver again, in the transaction that closes the row; and the pointer being an open row
keeps the other scope's strength as it was.

`ReleasesHaveTheirCalls` needs `TicketsKnowHolds`: click, ticket and row agree on which hold they
are about, and a request is about a row that has been made. Then a ticket that becomes approved
has the click that approved it, and a click ends only when the row of its ticket is no longer
open, or its ticket pending again.

`WorkflowInvariant` is the type invariant, the state properties and three more. `StagesDone`
says that every stage before the open one has its approvals and no veto, and that nobody has
voted beyond the open one; a counted vote keeps it since it fills a slot of the open stage
only, and a stage is left exactly when the count that includes this vote reaches the quorum
(fewer approvals of current members than of all, `HavingFacts`). `RowsMadeOnce` says that one
call at most is making the ballots and that nobody has voted until it has, so that
`InsertBallots` overwrites no vote. `CallsCarryClicks` ties a call to the click it delivers.
`ExecutionHasConsent` follows since an approved ticket with an instance has an approved one
(`TicketFollowsInstance`) and the claim trigger then asks `Satisfied` of the ballots with the
members of that moment.

`FinalGoCanVote` is proved for policies whose kind routes ask for no final go (`NoKindFinalGo`),
which is what `kind_final_go` shows to be necessary. `FinalBallotMade` carries it: who is named
for the final go has a ballot, and an instance waits for a final go only if somebody is named.

`VotingNeverStuck` is about a stretch of time, so its invariant `Votable` holds under the premise
of `NeverStuck` only: every ballot is made, the open stage is neither met nor vetoed, since the
vote that met it moved the instance, and a decision the ticket has not followed has a voter who
can finish it (`Recover`). The premise is needed. A voter who loses authority and regains it can
leave a quorum that is met and was never counted, with nobody left to vote. From `Votable` follows
a voter: the quorum is not met and can be reached, so somebody of the stage has not voted, and
`VoteCommits` shows that their vote is accepted and that nothing rolls it back. `WorkflowKeepsTicketLife` has
`TicketLife` from the status trigger and the claim trigger. `DecidedTogether` is proved and no
longer in a run, being part of the invariant that the others rest on.

`ReplyInvariant` has a part per question. `CallInvariant` says of each call what its place in
the code implies: its status (`Stands`), its row of the ledger (`Row`), the outcome of a post
under way (`UnderWay`), what its window covers (`Windows`), that it holds the lease unless it is
doubtful (`Holds`), and that its post is recorded once it is past that step (`Recorded`).
`Apart` says that no two calls about to post are alike and `Fresh` that a call about to post
repeats no post that it is judged by: the claim looks at every row under the lock, a row under
way leaves no window, and a row goes only when its post is known to have failed or was
declared absent. `NoDuplicateReply` is `Fresh` at `Post`. `Current` says that a call about to
post with the live lease has read what the others posted; it needs `Holds` and `Recorded`, that
a post is recorded before the lease is given back, and that a call that lost its lease is
doubtful. `NoStaleReply` is `Current` at `Post`. `SupersededForAReason` is not inductive, because an approval
closes long after it was listed: `ListedForAReason` says that the reason is there from the list
on, and reasons stay (`ReasonKept`: messages are not taken back, bodies do not change, the
histories grow). At a list after a post the reason is the post (`UnderWay`). At a list on filing
it is the filing: of two filed approvals one came first, and a filer that came first and has yet
to list was still to do so when the other came (`Filings`).

`DeliveryInvariant` adds `Carries` (what a worker holds) and `Alone`: an attempt that has not
outlived its lease is the only one of its delivery, the row's count is this attempt's, and what
was posted is counted before it and in what it is about to write. `PostsAreCounted` alone is not
inductive: a deferral hands a count back, and only a worker that has not posted may do so.
`EndedDeliveriesStay` needs `StillOpen`, that an attempt within its lease is made of a delivery
nobody has ended. It is preserved because only a worker ends a delivery and then lets go of it
(`StatusChanges`), an attempt begins from a pending row (`AttemptsBegin`), and `Alone` excludes a
second one beside it. Dropped rows are excepted, since the attempt under way may write them back.

In `MCOutboundProofs` the composition implements either component, since a step of it is a step
of the one or leaves its tables alone (the run lets one move while the other stays where it
began, which the proof does not need). `TypesOK` and what is proved of the
components then hold of the two together (`OutboundPromises`). The bounds of the run's module play no part.

`BadgeInvariant` is the type invariant and `BadgesInOrder`: no badge in use is newer than the
last one minted, a renewal's new badge is newer than its old one, and a switchover under way leads
to a newer badge that somebody was given. With it the switchover's comparison of the fingerprint
makes `RetiredBadgeStaysOut` an argument action by action, and `BindingNamesAHandedBadge`
follows since only a badge that was used takes over.

`StopInvariant` is what `StopClosesTheWindow` rests on: a row belongs to the proposal that wrote
it last (`RowsFiled`, `TicketsFiled`), does not wait once its ticket is fulfilled or a claim has
read it (`WaitIsOver`), and the row of a stopped ticket is open only under the stop's tag and
unread (`Closed`).

`OverlapInvariant` makes `OverlapCanEnd` inductive: a row that waits has no new badge
(`EarlyRows`), nobody proposes to renew the new badge of a renewal that is not over
(`NotProposed`), and what a claim is about was minted and is the bound badge while it is valid
(`Claims`). The proof follows each thing by what a step may do to it: `RowFate`, `ProposalFate`,
`ClaimFate`, `BadgeFate`. The last step of a rotation is the delicate one: it must revoke a new badge that nobody
has used yet (`Replaced`), or the binding would name neither of the two valid ones.

Only model-checked: `ClaimSettles`, `ReleaseSettles`, `ClassVotesDecide`, `DeliveriesEnd` and
`OverlapEnds` (liveness under fairness is outside TLAPS' reach here; for four of them the safety
half is proved, see Fairness), and the five violations. Every other property of a run is a theorem.

## Plan

Done, in the order of the first plan: `ApprovalExecution` with its refinement, `EmployeeHold`,
`ApprovalWorkflow`, the two reply guards (as one module, `ReplyPath`, because their order and
the gaps between them are what matters), `McpEventDelivery`, `CredentialRenewal`. To come; the
runs are kept to a number that is still checked in one go, so a new property takes the place of
a weaker one.

1. `AttachmentUpload`, with the auth-link claim: a claim in a ticket's metadata settled by
   compare-and-set, the reconciler, the cap, the time-out to "uncertain". The refinement of
   `AtMostOnceSend` can be reused for both.
2. `ReplyPath` inside `ApprovalExecution`: today the latter has a stop and a close by the guards
   as choices, and the former an approval that may be run again at any time after a stop.
3. `CredentialRenewal` with `McpEventDelivery`: a badge that is issued raises the generation
   while the binding's fingerprint stays, so subscriptions of the old badge are revoked during
   the overlap; today the turn of the account is an action of its own.
4. MCP OAuth's token rotation, the decision workflow's expiry, the webhook ledger.

## Not modelled, and why

`PROJECT.json` gives the reason per component. In short: what is one statement under a lock,
what is reading and rendering, and what decides a request from its own data (gateway policy,
audience rules, plan gates) gains little from interleavings and is covered by the repository's
unit tests; provider behaviour appears only as the set of its possible answers.

The wake counter, the reissue claims, the notices and the publications are one statement under
a lock or a unique key each: nothing falls between two of their steps. The attachment and
auth-link claims, MCP OAuth, the decision workflow and the webhook ledger could be modelled and
are not yet. Within the modelled components the sections above name what is left out.
