-------------------------- MODULE McpEventDelivery --------------------------
(***************************************************************************)
(* MCP event subscriptions of one AI employee and the delivery of its      *)
(* events: events/subscribe and events/unsubscribe, the enqueueing of one  *)
(* delivery per subscription and event, and attemptDelivery, run by the    *)
(* background work of the emit and by the cron at once.                    *)
(*                                                                         *)
(* The subscriptions are those of one badge: when it is rotated, revoked   *)
(* or its employee suspended, its principal is gone for all of them. Each  *)
(* statement on a table is one step; between two of them a call knows what *)
(* it read.                                                                *)
(***************************************************************************)
EXTENDS Naturals, FiniteSets

CONSTANTS
  Subscription,     \* receiver and event name: the id of a subscription
  Event,            \* events of the employee's approvals
  Worker,           \* concurrent calls of attemptDelivery
  Caller,           \* concurrent calls of subscribe and unsubscribe
  MaxAttempts,      \* MCP_EVENTS_LIMITS.maxAttempts
  AccountLimit,     \* bound: holds, revocations and their ends
  DeathLimit        \* bound: workers killed, or stopped by a failing store

ASSUME EventConstants ==
  /\ MaxAttempts \in Nat \ {0}
  /\ AccountLimit \in Nat
  /\ DeathLimit \in Nat

VARIABLES
  account,     \* the badge's principal: fine, on hold, or gone (positively revoked)
  turns,       \* changes of it so far
  sub,         \* mcp_event_subscriptions
  delivery,    \* mcp_event_deliveries, by subscription and event
  worker,      \* where each worker stands and what it knows
  caller,      \* where each subscribe or unsubscribe call stands
  deaths,      \* workers lost so far
  posts,       \* POSTs made of each delivery, until it is outlived
  outlived     \* deliveries with an attempt that ran longer than its lease

accountVars == <<account, turns>>
ghostVars == <<posts, outlived>>
eventVars == <<accountVars, sub, delivery, worker, caller, deaths, ghostVars>>

(***************************************************************************)
(* Values                                                                  *)
(***************************************************************************)
Delivery == Subscription \X Event
NoDelivery == <<"none", "none">>

Account == {"fine", "held", "gone"}
\* "stale": active, its refreshBefore past.
SubStatus == {"none", "active", "stale", "unsubscribed", "revoked", "expired"}

Finished == {"delivered", "abandoned", "dropped"}
DeliveryStatus == {"absent", "pending"} \cup Finished
\* "old": the next attempt would fall outside the retry window.
DeliveryRow == [status : DeliveryStatus, attempts : Nat, lease : {"none", "held", "lapsed"},
                old : BOOLEAN]

\* "checked" has read the subscription, "cleared" may send, "revoking" and "dropping" stop
\* the employee's subscriptions, "writing" holds the update it is about to make.
WorkerPc == {"idle", "claimed", "expiring", "checked", "revoking", "dropping", "cleared",
             "deferring", "writing"}
WorkerRow == [pc : WorkerPc, d : Delivery \cup {NoDelivery}, attempt : Nat, old : BOOLEAN,
              revoked : SUBSET Subscription,
              result : DeliveryStatus, count : Nat]
IdleWorker == [pc |-> "idle", d |-> NoDelivery, attempt |-> 0, old |-> FALSE,
               revoked |-> {}, result |-> "absent", count |-> 0]

NoSubscription == "none"
CallerRow == [pc : {"idle", "verifying", "leaving", "dropping"},
              sub : Subscription \cup {NoSubscription}]
IdleCaller == [pc |-> "idle", sub |-> NoSubscription]

EventInit ==
  /\ account = "fine"
  /\ turns = 0
  /\ sub = [s \in Subscription |-> "none"]
  /\ delivery = [d \in Delivery |->
                   [status |-> "absent", attempts |-> 0, lease |-> "none", old |-> FALSE]]
  /\ worker = [w \in Worker |-> IdleWorker]
  /\ caller = [c \in Caller |-> IdleCaller]
  /\ deaths = 0
  /\ posts = [d \in Delivery |-> 0]
  /\ outlived = {}

(***************************************************************************)
(* The badge                                                               *)
(***************************************************************************)
\* A hold starts or ends; the badge is revoked or rotated, or an employee suspended and
\* taken back.
TurnAccount(a) ==
  /\ turns < AccountLimit
  /\ account # a
  /\ account' = a
  /\ turns' = turns + 1
  /\ UNCHANGED <<sub, delivery, worker, caller, deaths, ghostVars>>

(***************************************************************************)
(* events/subscribe and events/unsubscribe                                 *)
(***************************************************************************)
\* The principal is checked and the row read; a revoked one is refused.
Subscribe(c, s) ==
  /\ caller[c].pc = "idle"
  /\ account = "fine"
  /\ sub[s] # "revoked"
  /\ caller' = [caller EXCEPT ![c] = [pc |-> "verifying", sub |-> s]]
  /\ UNCHANGED <<accountVars, sub, delivery, worker, deaths, ghostVars>>

\* The receiver answers the challenge and the row is upserted, whatever it is by now.
UpsertSubscription(c) ==
  /\ caller[c].pc = "verifying"
  /\ sub' = [sub EXCEPT ![caller[c].sub] = "active"]
  /\ caller' = [caller EXCEPT ![c] = IdleCaller]
  /\ UNCHANGED <<accountVars, delivery, worker, deaths, ghostVars>>

\* The challenge fails, or the call dies.
SubscribeFails(c) ==
  /\ caller[c].pc # "idle"
  /\ caller' = [caller EXCEPT ![c] = IdleCaller]
  /\ UNCHANGED <<accountVars, sub, delivery, worker, deaths, ghostVars>>

Unsubscribe(c, s) ==
  /\ caller[c].pc = "idle"
  /\ account = "fine"
  /\ sub[s] \in {"active", "stale"}
  /\ caller' = [caller EXCEPT ![c] = [pc |-> "leaving", sub |-> s]]
  /\ UNCHANGED <<accountVars, sub, delivery, worker, deaths, ghostVars>>

\* updateEventSubscription compares nothing.
EndSubscription(c) ==
  /\ caller[c].pc = "leaving"
  /\ sub' = [sub EXCEPT ![caller[c].sub] = "unsubscribed"]
  /\ caller' = [caller EXCEPT ![c].pc = "dropping"]
  /\ UNCHANGED <<accountVars, delivery, worker, deaths, ghostVars>>

\* dropPendingDeliveries: the pending rows of these subscriptions, leased or not.
DropPending(subs) ==
  [d \in Delivery |->
     IF d[1] \in subs /\ delivery[d].status = "pending"
     THEN [delivery[d] EXCEPT !.status = "dropped", !.lease = "none"]
     ELSE delivery[d]]

DropUnsubscribed(c) ==
  /\ caller[c].pc = "dropping"
  /\ delivery' = DropPending({caller[c].sub})
  /\ caller' = [caller EXCEPT ![c] = IdleCaller]
  /\ UNCHANGED <<accountVars, sub, worker, deaths, ghostVars>>

\* refreshBefore passes.
LapseSubscription(s) ==
  /\ sub[s] = "active"
  /\ sub' = [sub EXCEPT ![s] = "stale"]
  /\ UNCHANGED <<accountVars, delivery, worker, caller, deaths, ghostVars>>

(***************************************************************************)
(* emitApprovalEvent, enqueueDelivery                                      *)
(***************************************************************************)
\* One row per subscription and event, a second one is ignored. The subscription was
\* active when the emit listed it; by now it may be anything.
Enqueue(s, e) ==
  /\ sub[s] # "none"
  /\ delivery[<<s, e>>].status = "absent"
  /\ delivery' = [delivery EXCEPT ![<<s, e>>].status = "pending"]
  /\ UNCHANGED <<accountVars, sub, worker, caller, deaths, ghostVars>>

(***************************************************************************)
(* attemptDelivery                                                         *)
(***************************************************************************)
\* Seeded fault: the claim does not count the attempt.
CountedLate(n) == n

\* The attempts of a row that is claimed.
Counted(n) == n + 1

\* Seeded fault: a lease that runs keeps nobody out.
PendingRow(row) == row.status = "pending"

\* What claimDelivery asks of the row: pending, and no lease or one that is over.
Due(row) == row.status = "pending" /\ row.lease # "held"

\* claimDelivery: the update compares what was read. The clock is read here, for the whole
\* attempt.
Claim(w, d) ==
  LET row == delivery[d] IN
  /\ worker[w].pc = "idle"
  /\ Due(row)
  /\ delivery' = [delivery EXCEPT ![d].attempts = Counted(@), ![d].lease = "held"]
  /\ worker' = [worker EXCEPT ![w] = [IdleWorker EXCEPT !.pc = "claimed", !.d = d,
                                       !.attempt = row.attempts + 1, !.old = row.old]]
  /\ UNCHANGED <<accountVars, sub, caller, deaths, ghostVars>>

\* The worker goes on to the update that ends its attempt.
Ending(w, r, n) ==
  [worker EXCEPT ![w] = [IdleWorker EXCEPT !.pc = "writing", !.d = worker[w].d, !.result = r,
                                           !.count = n]]

\* Seeded fault: the attempt is handed back twice.
DroppingTwice(w) == Ending(w, "dropped", worker[w].attempt - 2)

\* An attempt that sends nothing is handed back.
Dropping(w) == Ending(w, "dropped", worker[w].attempt - 1)

\* Attempts that died used their count up: past the limit nothing is sent.
GiveUpUnsent(w) ==
  /\ worker[w].pc = "claimed"
  /\ worker[w].attempt > MaxAttempts
  /\ worker' = Ending(w, "abandoned", worker[w].attempt - 1)
  /\ UNCHANGED <<accountVars, sub, delivery, caller, deaths, ghostVars>>

\* The subscription is read; a lapse since the claim goes unseen.
ReadSubscription(w) ==
  LET status == sub[worker[w].d[1]] IN
  /\ worker[w].pc = "claimed"
  /\ worker[w].attempt <= MaxAttempts
  /\ \/ status \notin {"active", "stale"} /\ worker' = Dropping(w)
     \/ status = "stale" /\ worker' = [worker EXCEPT ![w].pc = "expiring"]
     \/ status \in {"active", "stale"} /\ worker' = [worker EXCEPT ![w].pc = "checked"]
  /\ UNCHANGED <<accountVars, sub, delivery, caller, deaths, ghostVars>>

ExpireSubscription(w) ==
  /\ worker[w].pc = "expiring"
  /\ sub' = [sub EXCEPT ![worker[w].d[1]] = "expired"]
  /\ worker' = Dropping(w)
  /\ UNCHANGED <<accountVars, delivery, caller, deaths, ghostVars>>

\* checkSubscriptionPrincipal, on every attempt; a signing key may be missing too.
CheckPrincipal(w) ==
  /\ worker[w].pc = "checked"
  /\ \/ account = "gone" /\ worker' = [worker EXCEPT ![w].pc = "revoking"]
     \/ account = "fine" /\ worker' = [worker EXCEPT ![w].pc = "cleared"]
     \/ account # "gone" /\ worker' = Dropping(w)
  /\ UNCHANGED <<accountVars, sub, delivery, caller, deaths, ghostVars>>

\* markRevokedForEmployee: every active subscription.
RevokeSubscriptions(w) ==
  LET active == {s \in Subscription : sub[s] \in {"active", "stale"}} IN
  /\ worker[w].pc = "revoking"
  /\ sub' = [s \in Subscription |-> IF s \in active THEN "revoked" ELSE sub[s]]
  /\ worker' = [worker EXCEPT ![w].pc = "dropping", ![w].revoked = active]
  /\ UNCHANGED <<accountVars, delivery, caller, deaths, ghostVars>>

DropRevoked(w) ==
  /\ worker[w].pc = "dropping"
  /\ delivery' = DropPending(worker[w].revoked)
  /\ worker' = Dropping(w)
  /\ UNCHANGED <<accountVars, sub, caller, deaths, ghostVars>>

\* A read or an update before the send fails: the attempt will be handed back.
CheckFails(w) ==
  /\ \/ worker[w].pc = "claimed" /\ worker[w].attempt <= MaxAttempts
     \/ worker[w].pc \in {"expiring", "checked", "revoking", "dropping"}
  /\ worker' = [worker EXCEPT ![w].pc = "deferring", ![w].revoked = {}]
  /\ UNCHANGED <<accountVars, sub, delivery, caller, deaths, ghostVars>>

\* Seeded fault: deferrals are not bounded by the retry window.
WindowIgnored(w) == FALSE

\* defer: past the retry window the delivery is given up.
WindowOver(w) == worker[w].old

GiveUpDeferring(w) ==
  /\ worker[w].pc = "deferring"
  /\ WindowOver(w)
  /\ worker' = Ending(w, "abandoned", worker[w].attempt - 1)
  /\ UNCHANGED <<accountVars, sub, delivery, caller, deaths, ghostVars>>

\* releaseDeferredDelivery's condition.
StillClaimed(w) ==
  LET row == delivery[worker[w].d] IN
  row.status = "pending" /\ row.attempts = worker[w].attempt

Defer(w) ==
  LET d == worker[w].d IN
  /\ worker[w].pc = "deferring"
  /\ ~WindowOver(w)
  /\ delivery' = IF StillClaimed(w)
                 THEN [delivery EXCEPT ![d].attempts = @ - 1, ![d].lease = "none"]
                 ELSE delivery
  /\ worker' = [worker EXCEPT ![w] = IdleWorker]
  /\ UNCHANGED <<accountVars, sub, caller, deaths, ghostVars>>

\* postWebhook: accepted; refused for good, or for the last time; or to be retried.
PostWebhook(w) ==
  LET n == worker[w].attempt IN
  /\ worker[w].pc = "cleared"
  /\ posts' = IF worker[w].d \in outlived THEN posts ELSE [posts EXCEPT ![worker[w].d] = @ + 1]
  /\ \/ worker' = Ending(w, "delivered", n)
     \/ worker' = Ending(w, "abandoned", n)
     \/ n < MaxAttempts /\ ~worker[w].old /\ worker' = Ending(w, "pending", n)
  /\ UNCHANGED <<accountVars, sub, delivery, caller, deaths, outlived>>

\* updateDelivery, by id alone: whatever the row is by now.
Write(w) ==
  LET d == worker[w].d IN
  /\ worker[w].pc = "writing"
  /\ delivery' = [delivery EXCEPT ![d].status = worker[w].result, ![d].attempts = worker[w].count,
                                  ![d].lease = "none"]
  /\ worker' = [worker EXCEPT ![w] = IdleWorker]
  /\ UNCHANGED <<accountVars, sub, caller, deaths, ghostVars>>

\* The function is killed, or the store fails where nothing catches it.
WorkerDies(w) ==
  /\ worker[w].pc # "idle"
  /\ deaths < DeathLimit
  /\ deaths' = deaths + 1
  /\ worker' = [worker EXCEPT ![w] = IdleWorker]
  /\ UNCHANGED <<accountVars, sub, delivery, caller, ghostVars>>

(***************************************************************************)
(* Time                                                                    *)
(***************************************************************************)
LeaseLapses(d) ==
  /\ delivery[d].lease = "held"
  /\ delivery' = [delivery EXCEPT ![d].lease = "lapsed"]
  /\ outlived' = IF \E w \in Worker : worker[w].d = d THEN outlived \cup {d} ELSE outlived
  /\ UNCHANGED <<accountVars, sub, worker, caller, deaths, posts>>

WindowCloses(d) ==
  /\ delivery[d].status = "pending"
  /\ ~delivery[d].old
  /\ delivery' = [delivery EXCEPT ![d].old = TRUE]
  /\ UNCHANGED <<accountVars, sub, worker, caller, deaths, ghostVars>>

(***************************************************************************)
(* Specification                                                           *)
(***************************************************************************)
CallerStep(c) ==
  \/ \E s \in Subscription : Subscribe(c, s) \/ Unsubscribe(c, s)
  \/ UpsertSubscription(c) \/ SubscribeFails(c) \/ EndSubscription(c) \/ DropUnsubscribed(c)
WorkerStep(w) ==
  \/ GiveUpUnsent(w) \/ ReadSubscription(w) \/ ExpireSubscription(w) \/ CheckPrincipal(w)
  \/ RevokeSubscriptions(w) \/ DropRevoked(w) \/ CheckFails(w) \/ GiveUpDeferring(w)
  \/ Defer(w) \/ PostWebhook(w) \/ Write(w)

EventNext ==
  \/ \E a \in Account : TurnAccount(a)
  \/ \E c \in Caller : CallerStep(c)
  \/ \E s \in Subscription : LapseSubscription(s) \/ \E e \in Event : Enqueue(s, e)
  \/ \E w \in Worker : (\E d \in Delivery : Claim(w, d)) \/ WorkerStep(w) \/ WorkerDies(w)
  \/ \E d \in Delivery : LeaseLapses(d) \/ WindowCloses(d)

\* The cron runs every minute and tries each delivery that is due; an attempt that is not
\* killed goes on to its end; leases and the retry window are matters of time.
EventFairness ==
  /\ \A w \in Worker : WF_eventVars(WorkerStep(w))
  /\ \A d \in Delivery :
       /\ SF_eventVars(\E w \in Worker : Claim(w, d))
       /\ WF_eventVars(LeaseLapses(d))
       /\ WF_eventVars(WindowCloses(d))

EventSpec == EventInit /\ [][EventNext]_eventVars
FairEventSpec == EventSpec /\ EventFairness

(***************************************************************************)
(* Properties                                                              *)
(***************************************************************************)
\* Every variable keeps to the values the schema and the code give it.
EventTypeOK ==
  /\ account \in Account /\ turns \in 0..AccountLimit
  /\ sub \in [Subscription -> SubStatus]
  /\ delivery \in [Delivery -> DeliveryRow]
  /\ worker \in [Worker -> WorkerRow]
  /\ caller \in [Caller -> CallerRow]
  /\ deaths \in 0..DeathLimit
  /\ posts \in [Delivery -> Nat]
  /\ outlived \subseteq Delivery

\* "Bounded retries (4 attempts)": whatever dies, is deferred, dropped, or tried by cron
\* and background at once, every POST of a delivery is in its count and the receiver gets
\* it at most MaxAttempts times, unless an attempt outlived its lease.
PostsAreCounted ==
  \A d \in Delivery \ outlived :
    posts[d] <= delivery[d].attempts /\ posts[d] <= MaxAttempts

\* An event the receiver accepted, or one that was given up, stays so and is not posted again:
\* by no other worker of emit and cron, no deferral, no late write and no dropping of
\* subscriptions, unless an attempt outlived its lease. (A dropped row may come back: an
\* unsubscribe does not stop the attempt under way, whose write is by id alone.)
EndedDeliveriesStay ==
  [][\A d \in Delivery \ outlived :
       delivery[d].status \in {"delivered", "abandoned"} =>
         delivery'[d].status = delivery[d].status /\ posts'[d] = posts[d]]_eventVars

\* No delivery is retried forever: one that is pending is finished, be the checks
\* unavailable for good.
DeliveriesEnd ==
  \A d \in Delivery : delivery[d].status = "pending" ~> delivery[d].status \in Finished
=============================================================================
