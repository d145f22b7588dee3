----------------------- MODULE McpEventDeliveryProofs -----------------------
(***************************************************************************)
(* Proofs about McpEventDelivery, for any number of subscriptions, events, *)
(* workers, callers, attempts and faults.                                  *)
(***************************************************************************)
EXTENDS McpEventDelivery, TLAPS

\* What a worker carries: a delivery, and an attempt within the limit once that is checked.
Carries ==
  \A w \in Worker :
    /\ worker[w].pc # "idle" => worker[w].d \in Delivery
    /\ worker[w].pc \notin {"idle", "writing"} => worker[w].attempt >= 1
    /\ worker[w].pc \notin {"idle", "writing", "claimed"} => worker[w].attempt <= MaxAttempts

\* Worker w makes an attempt of d that has not outlived its lease.
Attempts(w, d) == worker[w].pc # "idle" /\ worker[w].d = d /\ d \notin outlived

\* Such an attempt is the only one, its row is leased while it is pending, the row's count
\* is the attempt's, and what was posted is counted before it and in what it will write.
Alone ==
  \A d \in Delivery, w \in Worker :
    Attempts(w, d) =>
      /\ \A v \in Worker : Attempts(v, d) => v = w
      /\ delivery[d].status # "absent"
      /\ delivery[d].status = "pending" => delivery[d].lease = "held"
      /\ worker[w].pc # "writing" =>
           delivery[d].attempts = worker[w].attempt /\ posts[d] <= worker[w].attempt - 1
      /\ worker[w].pc = "writing" => posts[d] <= worker[w].count

DeliveryInvariant == EventTypeOK /\ Carries /\ Alone /\ PostsAreCounted

LEMMA InitDelivery == EventInit => DeliveryInvariant
<1> SUFFICES ASSUME EventInit PROVE DeliveryInvariant
  OBVIOUS
<1> USE EventConstants DEF EventConstants, EventInit
<1>1. EventTypeOK
  BY DEF EventTypeOK, Account, SubStatus, DeliveryRow, DeliveryStatus, Finished, WorkerRow, WorkerPc,
         IdleWorker, CallerRow, IdleCaller
<1>2. Carries /\ Alone
  BY DEF Carries, Alone, Attempts, IdleWorker
<1>3. PostsAreCounted
  BY DEF PostsAreCounted
<1> QED BY <1>1, <1>2, <1>3 DEF DeliveryInvariant

\* Steps that touch no delivery, no worker and no count.
LEMMA AsideStep ==
  ASSUME DeliveryInvariant, EventTypeOK', UNCHANGED <<delivery, worker, ghostVars>>
  PROVE  DeliveryInvariant'
BY DEF DeliveryInvariant, Carries, Alone, Attempts, PostsAreCounted, ghostVars

LEMMA AccountStep ==
  ASSUME DeliveryInvariant, NEW a \in Account, TurnAccount(a)
  PROVE  DeliveryInvariant'
<1> USE EventConstants DEF EventConstants
<1>1. EventTypeOK'
  BY DEF DeliveryInvariant, TurnAccount, EventTypeOK, ghostVars
<1> QED BY <1>1, AsideStep DEF TurnAccount

LEMMA LapseSubscriptionStep ==
  ASSUME DeliveryInvariant, NEW s \in Subscription, LapseSubscription(s)
  PROVE  DeliveryInvariant'
<1>1. EventTypeOK'
  BY DEF DeliveryInvariant, LapseSubscription, EventTypeOK, SubStatus, ghostVars, accountVars
<1> QED BY <1>1, AsideStep DEF LapseSubscription

\* Steps that rewrite rows of deliveries, keeping their attempts, and neither make one
\* pending nor, if it stays pending, take its lease.
LEMMA RewriteStep ==
  ASSUME DeliveryInvariant, EventTypeOK', UNCHANGED <<worker, ghostVars>>,
         \A d \in Delivery :
           /\ delivery'[d].attempts = delivery[d].attempts
           /\ delivery[d].status # "absent" => delivery'[d].status # "absent"
           /\ delivery'[d].status = "pending" /\ delivery[d].status # "absent"
                => delivery[d].status = "pending" /\ delivery'[d].lease = delivery[d].lease
  PROVE  DeliveryInvariant'
<1>1. Carries' /\ Alone'
  BY DEF DeliveryInvariant, Carries, Alone, Attempts, ghostVars
<1>2. PostsAreCounted'
  BY DEF DeliveryInvariant, PostsAreCounted, ghostVars
<1> QED BY <1>1, <1>2 DEF DeliveryInvariant

LEMMA DropPendingRows ==
  ASSUME EventTypeOK, NEW subs
  PROVE  /\ DropPending(subs) \in [Delivery -> DeliveryRow]
         /\ \A d \in Delivery :
              /\ DropPending(subs)[d].attempts = delivery[d].attempts
              /\ delivery[d].status # "absent" => DropPending(subs)[d].status # "absent"
              /\ DropPending(subs)[d].status = "pending"
                   => DropPending(subs)[d] = delivery[d]
<1> SUFFICES ASSUME NEW d \in Delivery
             PROVE  /\ DropPending(subs)[d] \in DeliveryRow
                    /\ DropPending(subs)[d].attempts = delivery[d].attempts
                    /\ delivery[d].status # "absent" => DropPending(subs)[d].status # "absent"
                    /\ DropPending(subs)[d].status = "pending"
                         => DropPending(subs)[d] = delivery[d]
  BY DEF DropPending
<1>1. delivery[d] \in DeliveryRow
  BY DEF EventTypeOK
<1> QED BY <1>1 DEF DropPending, DeliveryRow, DeliveryStatus, Finished

LEMMA CallerStepKeeps ==
  ASSUME DeliveryInvariant, NEW c \in Caller, CallerStep(c)
  PROVE  DeliveryInvariant'
<1> USE DEF accountVars, ghostVars
<1>0. EventTypeOK /\ caller[c] \in CallerRow
  BY DEF DeliveryInvariant, EventTypeOK
<1>1. ASSUME NEW s \in Subscription, Subscribe(c, s) \/ Unsubscribe(c, s) PROVE DeliveryInvariant'
  <2>1. EventTypeOK'
    BY <1>0, <1>1 DEF Subscribe, Unsubscribe, EventTypeOK, CallerRow
  <2> QED BY <1>1, <2>1, AsideStep DEF Subscribe, Unsubscribe
<1>2. CASE UpsertSubscription(c) \/ SubscribeFails(c) \/ EndSubscription(c)
  <2>1. EventTypeOK'
    BY <1>0, <1>2 DEF UpsertSubscription, SubscribeFails, EndSubscription, EventTypeOK, CallerRow,
                      IdleCaller, SubStatus
  <2> QED BY <1>2, <2>1, AsideStep DEF UpsertSubscription, SubscribeFails, EndSubscription
<1>3. CASE DropUnsubscribed(c)
  <2>1. EventTypeOK'
    BY <1>0, <1>3, DropPendingRows DEF DropUnsubscribed, EventTypeOK, CallerRow, IdleCaller
  <2>2. \A d \in Delivery :
           /\ delivery'[d].attempts = delivery[d].attempts
           /\ delivery[d].status # "absent" => delivery'[d].status # "absent"
           /\ delivery'[d].status = "pending" => delivery'[d] = delivery[d]
    BY <1>0, <1>3, DropPendingRows DEF DropUnsubscribed
  <2> QED BY <1>3, <2>1, <2>2, RewriteStep DEF DropUnsubscribed
<1> QED BY <1>1, <1>2, <1>3 DEF CallerStep

LEMMA EnqueueStep ==
  ASSUME DeliveryInvariant, NEW s \in Subscription, NEW e \in Event, Enqueue(s, e)
  PROVE  DeliveryInvariant'
<1> USE DEF accountVars, ghostVars
<1>0. EventTypeOK /\ <<s, e>> \in Delivery
  BY DEF DeliveryInvariant, Delivery
<1>1. EventTypeOK'
  BY <1>0 DEF Enqueue, EventTypeOK, DeliveryRow, DeliveryStatus, Finished
<1>2. \A d \in Delivery :
        /\ delivery'[d].attempts = delivery[d].attempts
        /\ delivery[d].status # "absent" => delivery'[d] = delivery[d]
  BY <1>0 DEF Enqueue, EventTypeOK, DeliveryRow
<1> QED BY <1>1, <1>2, RewriteStep DEF Enqueue

LEMMA WindowStep ==
  ASSUME DeliveryInvariant, NEW d \in Delivery, WindowCloses(d)
  PROVE  DeliveryInvariant'
<1> USE DEF accountVars, ghostVars
<1>0. EventTypeOK
  BY DEF DeliveryInvariant
<1>1. EventTypeOK'
  BY <1>0 DEF WindowCloses, EventTypeOK, DeliveryRow
<1>2. \A x \in Delivery : /\ delivery'[x].attempts = delivery[x].attempts
                          /\ delivery'[x].status = delivery[x].status
                          /\ delivery'[x].lease = delivery[x].lease
  BY <1>0 DEF WindowCloses, EventTypeOK, DeliveryRow
<1> QED BY <1>1, <1>2, RewriteStep DEF WindowCloses

LEMMA LeaseStep ==
  ASSUME DeliveryInvariant, NEW d \in Delivery, LeaseLapses(d)
  PROVE  DeliveryInvariant'
<1> USE DEF accountVars
<1>0. EventTypeOK /\ Carries /\ Alone /\ PostsAreCounted
  BY DEF DeliveryInvariant
<1>1. EventTypeOK'
  BY <1>0 DEF LeaseLapses, EventTypeOK, DeliveryRow
<1>2. \A x \in Delivery : /\ delivery'[x].attempts = delivery[x].attempts
                          /\ delivery'[x].status = delivery[x].status
                          /\ x # d => delivery'[x].lease = delivery[x].lease
  BY <1>0 DEF LeaseLapses, EventTypeOK, DeliveryRow
<1>3. outlived \subseteq outlived' /\ \A w \in Worker : ~Attempts(w, d)'
  BY DEF LeaseLapses, Attempts
<1>4. Carries' /\ PostsAreCounted'
  BY <1>0, <1>2, <1>3 DEF LeaseLapses, Carries, PostsAreCounted
<1>5. Alone'
  <2> SUFFICES ASSUME NEW x \in Delivery, NEW w \in Worker, Attempts(w, x)'
               PROVE  /\ \A v \in Worker : Attempts(v, x)' => v = w
                      /\ delivery'[x].status # "absent"
                      /\ delivery'[x].status = "pending" => delivery'[x].lease = "held"
                      /\ worker'[w].pc # "writing" =>
                           delivery'[x].attempts = worker'[w].attempt /\ posts'[x] <= worker'[w].attempt - 1
                      /\ worker'[w].pc = "writing" => posts'[x] <= worker'[w].count
    BY DEF Alone
  <2>1. x # d /\ Attempts(w, x) /\ \A v \in Worker : Attempts(v, x)' => Attempts(v, x)
    BY <1>3 DEF Attempts, LeaseLapses
  <2> QED BY <1>0, <1>2, <2>1 DEF Alone, LeaseLapses
<1> QED BY <1>1, <1>4, <1>5 DEF DeliveryInvariant

\* What Ending writes, and how a delivery is read by the worker that holds it.
LEMMA EndingRow ==
  ASSUME EventTypeOK, NEW w \in Worker, NEW r \in DeliveryStatus, NEW n \in Nat,
         worker[w].d \in Delivery
  PROVE  /\ Ending(w, r, n) \in [Worker -> WorkerRow]
         /\ Ending(w, r, n)[w].pc = "writing" /\ Ending(w, r, n)[w].d = worker[w].d
         /\ Ending(w, r, n)[w].result = r /\ Ending(w, r, n)[w].count = n
         /\ \A v \in Worker \ {w} : Ending(w, r, n)[v] = worker[v]
BY DEF Ending, EventTypeOK, WorkerRow, WorkerPc, IdleWorker, DeliveryStatus, Finished

\* A worker goes on, or stops, and posts nothing: it keeps its delivery and attempt, and
\* what it will write counts at least the attempts before it.
LEMMA WorkerMoves ==
  ASSUME DeliveryInvariant, EventTypeOK', NEW w \in Worker, UNCHANGED ghostVars,
         worker[w].pc # "idle",
         \A v \in Worker \ {w} : worker'[v] = worker[v],
         \/ worker'[w].pc = "idle"
         \/ /\ worker'[w].pc = "writing"
            /\ worker[w].pc # "writing"
            /\ worker'[w].d = worker[w].d
            /\ worker'[w].count >= worker[w].attempt - 1
         \/ /\ worker'[w].pc \notin {"idle", "writing", "claimed"}
            /\ worker[w].pc # "writing"
            /\ worker'[w].d = worker[w].d
            /\ worker'[w].attempt = worker[w].attempt
            /\ worker'[w].attempt <= MaxAttempts,
         \A d \in Delivery :
           /\ delivery'[d].attempts = delivery[d].attempts
           /\ delivery[d].status # "absent" => delivery'[d].status # "absent"
           /\ delivery'[d].status = "pending" => delivery'[d] = delivery[d]
  PROVE  DeliveryInvariant'
<1> USE EventConstants DEF EventConstants, ghostVars
<1>0. EventTypeOK /\ Carries /\ Alone /\ PostsAreCounted
  BY DEF DeliveryInvariant
<1>1. Carries'
  BY <1>0 DEF Carries
<1>2. PostsAreCounted'
  BY <1>0 DEF PostsAreCounted
<1>3. \A d \in Delivery, v \in Worker : Attempts(v, d)' => Attempts(v, d)
  BY DEF Attempts
<1>4. Alone'
  <2> SUFFICES ASSUME NEW d \in Delivery, NEW v \in Worker, Attempts(v, d)'
               PROVE  /\ \A u \in Worker : Attempts(u, d)' => u = v
                      /\ delivery'[d].status # "absent"
                      /\ delivery'[d].status = "pending" => delivery'[d].lease = "held"
                      /\ worker'[v].pc # "writing" =>
                           delivery'[d].attempts = worker'[v].attempt /\ posts'[d] <= worker'[v].attempt - 1
                      /\ worker'[v].pc = "writing" => posts'[d] <= worker'[v].count
    BY DEF Alone
  <2>1. Attempts(v, d) /\ \A u \in Worker : Attempts(u, d)' => u = v
    BY <1>0, <1>3 DEF Alone
  <2>2. /\ delivery'[d].status # "absent"
        /\ delivery'[d].status = "pending" => delivery'[d].lease = "held"
    BY <1>0, <2>1 DEF Alone
  <2>3. posts[d] \in Nat /\ worker[v] \in WorkerRow /\ worker'[v] \in WorkerRow
    BY <1>0 DEF EventTypeOK
  <2>4. /\ worker'[v].pc # "writing" =>
             delivery'[d].attempts = worker'[v].attempt /\ posts'[d] <= worker'[v].attempt - 1
        /\ worker'[v].pc = "writing" => posts'[d] <= worker'[v].count
    <3>1. CASE v # w
      BY <1>0, <2>1, <3>1 DEF Alone
    <3>2. CASE v = w
      BY <1>0, <2>1, <2>3, <3>2 DEF Alone, Attempts, WorkerRow
    <3> QED BY <3>1, <3>2
  <2> QED BY <2>1, <2>2, <2>4
<1> QED BY <1>1, <1>2, <1>4 DEF DeliveryInvariant

LEMMA ClaimStep ==
  ASSUME DeliveryInvariant, NEW w \in Worker, NEW d \in Delivery, Claim(w, d)
  PROVE  DeliveryInvariant'
<1> USE EventConstants DEF EventConstants, accountVars, ghostVars
<1>0. EventTypeOK /\ Carries /\ Alone /\ PostsAreCounted
  BY DEF DeliveryInvariant
<1>1. delivery[d] \in DeliveryRow /\ worker[w] \in WorkerRow
  BY <1>0 DEF EventTypeOK
<1>2. /\ delivery' \in [Delivery -> DeliveryRow]
      /\ delivery'[d].attempts = delivery[d].attempts + 1
      /\ delivery'[d].status = "pending" /\ delivery'[d].lease = "held"
      /\ \A x \in Delivery \ {d} : delivery'[x] = delivery[x]
  BY <1>0, <1>1 DEF Claim, Due, Counted, EventTypeOK, DeliveryRow
<1>3. /\ worker' \in [Worker -> WorkerRow]
      /\ worker'[w].pc = "claimed" /\ worker'[w].d = d
      /\ worker'[w].attempt = delivery[d].attempts + 1
      /\ \A v \in Worker \ {w} : worker'[v] = worker[v]
  <2>1. worker' = [worker EXCEPT ![w] = [IdleWorker EXCEPT !.pc = "claimed", !.d = d,
                                         !.attempt = delivery[d].attempts + 1,
                                         !.old = delivery[d].old]]
    BY DEF Claim
  <2>2. [IdleWorker EXCEPT !.pc = "claimed", !.d = d, !.attempt = delivery[d].attempts + 1,
                           !.old = delivery[d].old] \in WorkerRow
    <3>1. delivery[d].attempts + 1 \in Nat /\ delivery[d].old \in BOOLEAN
      BY <1>1 DEF DeliveryRow
    <3> QED BY <3>1 DEF WorkerRow, WorkerPc, IdleWorker, DeliveryStatus
  <2> QED BY <1>0, <2>1, <2>2 DEF EventTypeOK, IdleWorker
<1>4. EventTypeOK'
  BY <1>0, <1>2, <1>3 DEF Claim, EventTypeOK
<1>5. Carries'
  BY <1>0, <1>1, <1>3 DEF Carries, DeliveryRow
<1>6. PostsAreCounted'
  <2> SUFFICES ASSUME NEW x \in Delivery \ outlived
               PROVE  posts[x] <= delivery'[x].attempts /\ posts[x] <= MaxAttempts
    BY DEF PostsAreCounted, Claim
  <2>1. posts[x] \in Nat /\ posts[x] <= delivery[x].attempts /\ posts[x] <= MaxAttempts
    BY <1>0 DEF EventTypeOK, PostsAreCounted
  <2> QED BY <1>1, <1>2, <2>1 DEF DeliveryRow
<1>7. Alone'
  <2> SUFFICES ASSUME NEW x \in Delivery, NEW v \in Worker, Attempts(v, x)'
               PROVE  /\ \A u \in Worker : Attempts(u, x)' => u = v
                      /\ delivery'[x].status # "absent"
                      /\ delivery'[x].status = "pending" => delivery'[x].lease = "held"
                      /\ worker'[v].pc # "writing" =>
                           delivery'[x].attempts = worker'[v].attempt /\ posts'[x] <= worker'[v].attempt - 1
                      /\ worker'[v].pc = "writing" => posts'[x] <= worker'[v].count
    BY DEF Alone
  <2>1. \A u \in Worker, y \in Delivery : u # w => (Attempts(u, y)' <=> Attempts(u, y))
    BY <1>3 DEF Attempts, Claim
  <2>2. \A u \in Worker : ~Attempts(u, d)
    BY <1>0, <1>1 DEF Alone, Claim, Due
  <2>3. CASE x = d
    <3>1. v = w /\ \A u \in Worker : Attempts(u, d)' => u = w
      BY <2>1, <2>2, <2>3
    <3>2. d \notin outlived /\ posts'[d] = posts[d]
      BY <2>3 DEF Attempts, Claim
    <3>3. posts[d] \in Nat /\ posts[d] <= delivery[d].attempts
      BY <1>0, <3>2 DEF EventTypeOK, PostsAreCounted
    <3> QED BY <1>1, <1>2, <1>3, <2>3, <3>1, <3>2, <3>3 DEF DeliveryRow
  <2>4. CASE x # d
    <3>1. v # w /\ Attempts(v, x) /\ \A u \in Worker : Attempts(u, x)' => Attempts(u, x)
      BY <1>3, <2>1, <2>4 DEF Attempts
    <3> QED BY <1>0, <1>2, <1>3, <2>4, <3>1 DEF Alone, Claim
  <2> QED BY <2>3, <2>4
<1> QED BY <1>4, <1>5, <1>6, <1>7 DEF DeliveryInvariant

\* The steps that give the attempt back, unsent.
LEMMA HandBackStep ==
  ASSUME DeliveryInvariant, NEW w \in Worker,
         \/ GiveUpUnsent(w) \/ GiveUpDeferring(w) \/ ExpireSubscription(w) \/ DropRevoked(w)
         \/ ReadSubscription(w) /\ worker' = Dropping(w)
         \/ CheckPrincipal(w) /\ worker' = Dropping(w)
  PROVE  DeliveryInvariant'
<1> USE EventConstants DEF EventConstants, accountVars, ghostVars
<1> DEFINE n == worker[w].attempt - 1
<1>0. EventTypeOK /\ Carries
  BY DEF DeliveryInvariant
<1>1. worker[w].pc \notin {"idle", "writing"}
  BY DEF GiveUpUnsent, GiveUpDeferring, ExpireSubscription, DropRevoked, ReadSubscription,
         CheckPrincipal
<1>2. worker[w].d \in Delivery /\ n \in Nat /\ worker[w] \in WorkerRow
  BY <1>0, <1>1 DEF Carries, EventTypeOK, WorkerRow
<1>3. worker' = Ending(w, "dropped", n) \/ worker' = Ending(w, "abandoned", n)
  BY DEF GiveUpUnsent, GiveUpDeferring, ExpireSubscription, DropRevoked, Dropping
<1>4. /\ worker' \in [Worker -> WorkerRow]
      /\ worker'[w].pc = "writing" /\ worker'[w].d = worker[w].d /\ worker'[w].count = n
      /\ \A v \in Worker \ {w} : worker'[v] = worker[v]
  <2>1. "dropped" \in DeliveryStatus /\ "abandoned" \in DeliveryStatus
    BY DEF DeliveryStatus, Finished
  <2> HIDE DEF n
  <2> QED BY <1>0, <1>2, <1>3, <2>1, EndingRow
<1>5. /\ delivery' \in [Delivery -> DeliveryRow]
      /\ \A d \in Delivery :
           /\ delivery'[d].attempts = delivery[d].attempts
           /\ delivery[d].status # "absent" => delivery'[d].status # "absent"
           /\ delivery'[d].status = "pending" => delivery'[d] = delivery[d]
  <2>1. CASE DropRevoked(w)
    BY <1>0, <2>1, DropPendingRows DEF DropRevoked
  <2>2. CASE ~DropRevoked(w)
    <3>1. delivery' = delivery
      BY <2>2 DEF GiveUpUnsent, GiveUpDeferring, ExpireSubscription, ReadSubscription, CheckPrincipal
    <3> QED BY <1>0, <3>1 DEF EventTypeOK
  <2> QED BY <2>1, <2>2
<1>6. sub' \in [Subscription -> SubStatus]
  BY <1>0 DEF EventTypeOK, SubStatus, GiveUpUnsent, GiveUpDeferring, ExpireSubscription, DropRevoked,
              ReadSubscription, CheckPrincipal
<1>7. UNCHANGED <<account, turns, caller, deaths, posts, outlived>>
  BY DEF GiveUpUnsent, GiveUpDeferring, ExpireSubscription, DropRevoked, ReadSubscription,
         CheckPrincipal
<1>8. EventTypeOK'
  BY <1>0, <1>4, <1>5, <1>6, <1>7 DEF EventTypeOK
<1>9. worker'[w].count >= worker[w].attempt - 1
  BY <1>2, <1>4 DEF WorkerRow
<1> QED BY <1>1, <1>4, <1>5, <1>7, <1>8, <1>9, WorkerMoves

\* The steps that only move a worker on.
LEMMA GoOnStep ==
  ASSUME DeliveryInvariant, NEW w \in Worker,
         \/ ReadSubscription(w) /\ worker' # Dropping(w)
         \/ CheckPrincipal(w) /\ worker' # Dropping(w)
         \/ RevokeSubscriptions(w) \/ CheckFails(w) \/ WorkerDies(w)
  PROVE  DeliveryInvariant'
<1> USE EventConstants DEF EventConstants, accountVars, ghostVars
<1>0. EventTypeOK /\ Carries
  BY DEF DeliveryInvariant
<1>1. worker[w] \in WorkerRow /\ worker \in [Worker -> WorkerRow]
  BY <1>0 DEF EventTypeOK
<1>2. worker[w].pc # "idle" /\ UNCHANGED <<account, turns, delivery, caller, posts, outlived>>
  BY DEF ReadSubscription, CheckPrincipal, RevokeSubscriptions, CheckFails, WorkerDies
<1>3. sub' \in [Subscription -> SubStatus] /\ deaths' \in 0..DeathLimit
  BY <1>0 DEF EventTypeOK, SubStatus, ReadSubscription, CheckPrincipal, RevokeSubscriptions,
              CheckFails, WorkerDies
<1>4. /\ worker' \in [Worker -> WorkerRow]
      /\ \A v \in Worker \ {w} : worker'[v] = worker[v]
  <2>1. CASE WorkerDies(w)
    BY <1>1, <2>1 DEF WorkerDies, WorkerRow, WorkerPc, IdleWorker, DeliveryStatus
  <2>2. CASE ReadSubscription(w) /\ worker' # Dropping(w)
    BY <1>1, <2>2 DEF ReadSubscription, WorkerRow, WorkerPc
  <2>3. CASE CheckPrincipal(w) /\ worker' # Dropping(w)
    BY <1>1, <2>3 DEF CheckPrincipal, WorkerRow, WorkerPc
  <2>4. CASE RevokeSubscriptions(w)
    BY <1>1, <2>4 DEF RevokeSubscriptions, WorkerRow, WorkerPc
  <2>5. CASE CheckFails(w)
    BY <1>1, <2>5 DEF CheckFails, WorkerRow, WorkerPc
  <2> QED BY <2>1, <2>2, <2>3, <2>4, <2>5
<1>5. \/ worker'[w].pc = "idle"
      \/ /\ worker'[w].pc \notin {"idle", "writing", "claimed"}
         /\ worker[w].pc # "writing"
         /\ worker'[w].d = worker[w].d
         /\ worker'[w].attempt = worker[w].attempt
         /\ worker'[w].attempt <= MaxAttempts
  <2>1. CASE WorkerDies(w)
    BY <1>1, <2>1 DEF WorkerDies, IdleWorker
  <2>2. CASE ReadSubscription(w) /\ worker' # Dropping(w)
    BY <1>1, <2>2 DEF ReadSubscription, WorkerRow
  <2>3. CASE \/ CheckPrincipal(w) /\ worker' # Dropping(w)
             \/ RevokeSubscriptions(w)
             \/ CheckFails(w) /\ worker[w].pc # "claimed"
    <3>1. worker[w].pc \notin {"idle", "writing", "claimed"}
      BY <2>3 DEF CheckPrincipal, RevokeSubscriptions, CheckFails
    <3>2. worker[w].attempt <= MaxAttempts
      BY <1>0, <3>1 DEF Carries
    <3> QED BY <1>1, <2>3, <3>1, <3>2 DEF CheckPrincipal, RevokeSubscriptions, CheckFails, WorkerRow
  <2>4. CASE CheckFails(w) /\ worker[w].pc = "claimed"
    BY <1>1, <2>4 DEF CheckFails, WorkerRow
  <2> QED BY <2>1, <2>2, <2>3, <2>4
<1>6. EventTypeOK'
  BY <1>0, <1>2, <1>3, <1>4 DEF EventTypeOK
<1> QED BY <1>2, <1>4, <1>5, <1>6, WorkerMoves

LEMMA PostStep ==
  ASSUME DeliveryInvariant, NEW w \in Worker, PostWebhook(w)
  PROVE  DeliveryInvariant'
<1> USE EventConstants DEF EventConstants, accountVars, ghostVars
<1> DEFINE n == worker[w].attempt
           d == worker[w].d
<1>0. EventTypeOK /\ Carries /\ Alone /\ PostsAreCounted
  BY DEF DeliveryInvariant
<1>1. worker[w].pc = "cleared" /\ worker[w] \in WorkerRow /\ d \in Delivery /\ n \in Nat
      /\ n <= MaxAttempts
  BY <1>0 DEF PostWebhook, Carries, EventTypeOK, WorkerRow
<1>2. /\ worker' \in [Worker -> WorkerRow]
      /\ worker'[w].pc = "writing" /\ worker'[w].d = d /\ worker'[w].count = n
      /\ \A v \in Worker \ {w} : worker'[v] = worker[v]
  <2>1. {"delivered", "abandoned", "pending"} \subseteq DeliveryStatus
    BY DEF DeliveryStatus, Finished
  <2>2. \E r \in DeliveryStatus : worker' = Ending(w, r, n)
    BY <2>1 DEF PostWebhook
  <2> HIDE DEF n
  <2> QED BY <1>0, <1>1, <2>2, EndingRow
<1>3. /\ posts' \in [Delivery -> Nat]
      /\ d \in outlived => posts' = posts
      /\ d \notin outlived => posts'[d] = posts[d] + 1
      /\ \A x \in Delivery \ {d} : posts'[x] = posts[x]
      /\ posts[d] \in Nat
  BY <1>0, <1>1 DEF PostWebhook, EventTypeOK
<1>4. d \notin outlived => posts'[d] <= n /\ delivery[d].attempts = n
  <2> SUFFICES ASSUME d \notin outlived PROVE posts'[d] <= n /\ delivery[d].attempts = n
    OBVIOUS
  <2>1. delivery[d].attempts = n /\ posts[d] <= n - 1
    BY <1>0, <1>1 DEF Alone, Attempts
  <2> QED BY <1>1, <1>3, <2>1
<1>5. EventTypeOK'
  BY <1>0, <1>2, <1>3 DEF PostWebhook, EventTypeOK
<1>6. Carries'
  BY <1>0, <1>1, <1>2 DEF Carries
<1>7. PostsAreCounted'
  BY <1>0, <1>1, <1>3, <1>4 DEF PostWebhook, PostsAreCounted
<1>8. Alone'
  <2> SUFFICES ASSUME NEW x \in Delivery, NEW v \in Worker, Attempts(v, x)'
               PROVE  /\ \A u \in Worker : Attempts(u, x)' => u = v
                      /\ delivery'[x].status # "absent"
                      /\ delivery'[x].status = "pending" => delivery'[x].lease = "held"
                      /\ worker'[v].pc # "writing" =>
                           delivery'[x].attempts = worker'[v].attempt /\ posts'[x] <= worker'[v].attempt - 1
                      /\ worker'[v].pc = "writing" => posts'[x] <= worker'[v].count
    BY DEF Alone
  <2>1. Attempts(v, x) /\ \A u \in Worker : Attempts(u, x)' => Attempts(u, x)
    BY <1>1, <1>2 DEF Attempts, PostWebhook
  <2>2. CASE v = w
    BY <1>0, <1>1, <1>2, <1>4, <2>1, <2>2 DEF Alone, Attempts, PostWebhook
  <2>3. CASE v # w
    <3>1. x # d
      BY <1>0, <1>1, <2>1, <2>3 DEF Alone, Attempts
    <3> QED BY <1>0, <1>2, <1>3, <2>1, <2>3, <3>1 DEF Alone, PostWebhook
  <2> QED BY <2>2, <2>3
<1> QED BY <1>5, <1>6, <1>7, <1>8 DEF DeliveryInvariant

\* A worker is done with its delivery, whose row keeps a count its posts are in.
LEMMA LetGoStep ==
  ASSUME DeliveryInvariant, EventTypeOK', NEW w \in Worker, UNCHANGED ghostVars,
         worker[w].pc # "idle",
         worker' = [worker EXCEPT ![w] = IdleWorker],
         \A d \in Delivery \ {worker[w].d} : delivery'[d] = delivery[d],
         \/ delivery' = delivery
         \/ worker[w].d \notin outlived => posts[worker[w].d] <= delivery'[worker[w].d].attempts
  PROVE  DeliveryInvariant'
<1> USE EventConstants DEF EventConstants, ghostVars
<1>0. EventTypeOK /\ Carries /\ Alone /\ PostsAreCounted
  BY DEF DeliveryInvariant
<1>1. worker'[w].pc = "idle" /\ \A v \in Worker \ {w} : worker'[v] = worker[v]
  BY <1>0 DEF EventTypeOK, IdleWorker
<1>2. Carries'
  BY <1>0, <1>1 DEF Carries
<1>3. PostsAreCounted'
  BY <1>0 DEF PostsAreCounted
<1>4. \A d \in Delivery, v \in Worker : Attempts(v, d)' => Attempts(v, d) /\ v # w
  BY <1>1 DEF Attempts
<1>5. \A d \in Delivery, v \in Worker : Attempts(v, d)' => d # worker[w].d
  BY <1>0, <1>4 DEF Alone, Attempts
<1>6. Alone'
  BY <1>0, <1>1, <1>4, <1>5 DEF Alone
<1> QED BY <1>2, <1>3, <1>6 DEF DeliveryInvariant

LEMMA DeferStep ==
  ASSUME DeliveryInvariant, NEW w \in Worker, Defer(w)
  PROVE  DeliveryInvariant'
<1> USE DEF accountVars, ghostVars
<1> DEFINE d == worker[w].d
<1>0. EventTypeOK /\ Carries /\ Alone
  BY DEF DeliveryInvariant
<1>1. /\ worker[w].pc = "deferring" /\ worker[w] \in WorkerRow /\ d \in Delivery
      /\ worker[w].attempt \in Nat /\ worker[w].attempt >= 1 /\ delivery[d] \in DeliveryRow
  BY <1>0 DEF Defer, Carries, EventTypeOK, WorkerRow
<1>2. worker' = [worker EXCEPT ![w] = IdleWorker] /\ worker' \in [Worker -> WorkerRow]
  BY <1>0 DEF Defer, EventTypeOK, WorkerRow, WorkerPc, IdleWorker, DeliveryStatus
<1>3. CASE StillClaimed(w)
  <2>1. /\ delivery' \in [Delivery -> DeliveryRow]
        /\ delivery'[d].attempts = worker[w].attempt - 1
        /\ \A x \in Delivery \ {d} : delivery'[x] = delivery[x]
    <3>1. delivery' = [delivery EXCEPT ![d].attempts = @ - 1, ![d].lease = "none"]
      BY <1>3 DEF Defer
    <3>2. delivery[d].attempts = worker[w].attempt
      BY <1>3 DEF StillClaimed
    <3>3. delivery \in [Delivery -> DeliveryRow]
      BY <1>0 DEF EventTypeOK
    <3>4. worker[w].attempt - 1 \in Nat
      BY <1>1
    <3> HIDE DEF d
    <3> QED BY <1>1, <3>1, <3>2, <3>3, <3>4 DEF DeliveryRow
  <2>2. d \notin outlived => posts[d] <= worker[w].attempt - 1
    BY <1>0, <1>1 DEF Alone, Attempts
  <2>3. EventTypeOK'
    BY <1>0, <1>2, <2>1 DEF Defer, EventTypeOK
  <2> QED BY <1>1, <1>2, <2>1, <2>2, <2>3, LetGoStep DEF Defer
<1>4. CASE ~StillClaimed(w)
  <2>1. delivery' = delivery
    BY <1>4 DEF Defer
  <2>2. EventTypeOK'
    BY <1>0, <1>2, <2>1 DEF Defer, EventTypeOK
  <2> QED BY <1>1, <1>2, <2>1, <2>2, LetGoStep DEF Defer
<1> QED BY <1>3, <1>4

LEMMA WriteStep ==
  ASSUME DeliveryInvariant, NEW w \in Worker, Write(w)
  PROVE  DeliveryInvariant'
<1> USE DEF accountVars, ghostVars
<1> DEFINE d == worker[w].d
<1>0. EventTypeOK /\ Carries /\ Alone
  BY DEF DeliveryInvariant
<1>1. /\ worker[w].pc = "writing" /\ worker[w] \in WorkerRow /\ d \in Delivery
      /\ worker[w].result \in DeliveryStatus /\ worker[w].count \in Nat /\ delivery[d] \in DeliveryRow
  BY <1>0 DEF Write, Carries, EventTypeOK, WorkerRow
<1>2. worker' = [worker EXCEPT ![w] = IdleWorker] /\ worker' \in [Worker -> WorkerRow]
  BY <1>0 DEF Write, EventTypeOK, WorkerRow, WorkerPc, IdleWorker, DeliveryStatus
<1>3. /\ delivery' \in [Delivery -> DeliveryRow]
      /\ delivery'[d].attempts = worker[w].count
      /\ \A x \in Delivery \ {d} : delivery'[x] = delivery[x]
  BY <1>0, <1>1 DEF Write, EventTypeOK, DeliveryRow
<1>4. d \notin outlived => posts[d] <= worker[w].count
  BY <1>0, <1>1 DEF Alone, Attempts
<1>5. EventTypeOK'
  BY <1>0, <1>2, <1>3 DEF Write, EventTypeOK
<1> QED BY <1>1, <1>2, <1>3, <1>4, <1>5, LetGoStep DEF Write

LEMMA WorkerStepKeeps ==
  ASSUME DeliveryInvariant, NEW w \in Worker, WorkerStep(w) \/ WorkerDies(w)
  PROVE  DeliveryInvariant'
BY HandBackStep, GoOnStep, PostStep, DeferStep, WriteStep DEF WorkerStep

LEMMA DeliveryStep == DeliveryInvariant /\ [EventNext]_eventVars => DeliveryInvariant'
<1> SUFFICES ASSUME DeliveryInvariant, [EventNext]_eventVars PROVE DeliveryInvariant'
  OBVIOUS
<1>1. ASSUME NEW a \in Account, TurnAccount(a) PROVE DeliveryInvariant'
  BY <1>1, AccountStep
<1>2. ASSUME NEW c \in Caller, CallerStep(c) PROVE DeliveryInvariant'
  BY <1>2, CallerStepKeeps
<1>3. ASSUME NEW s \in Subscription, LapseSubscription(s) \/ \E e \in Event : Enqueue(s, e)
      PROVE  DeliveryInvariant'
  BY <1>3, LapseSubscriptionStep, EnqueueStep
<1>4. ASSUME NEW w \in Worker,
             (\E d \in Delivery : Claim(w, d)) \/ WorkerStep(w) \/ WorkerDies(w)
      PROVE  DeliveryInvariant'
  BY <1>4, ClaimStep, WorkerStepKeeps
<1>5. ASSUME NEW d \in Delivery, LeaseLapses(d) \/ WindowCloses(d) PROVE DeliveryInvariant'
  BY <1>5, LeaseStep, WindowStep
<1>6. CASE UNCHANGED eventVars
  BY <1>6 DEF DeliveryInvariant, EventTypeOK, Carries, Alone, Attempts, PostsAreCounted, eventVars,
              accountVars, ghostVars
<1> QED BY <1>1, <1>2, <1>3, <1>4, <1>5, <1>6 DEF EventNext

THEOREM DeliveryInvariantHolds == EventSpec => []DeliveryInvariant
BY InitDelivery, DeliveryStep, PTL DEF EventSpec

\* The schema's values and the bounds of the counters, for every number of subscriptions,
\* events, workers and callers.
THEOREM EventTypesHold == EventSpec => []EventTypeOK
<1>1. DeliveryInvariant => EventTypeOK
  BY DEF DeliveryInvariant
<1> QED BY <1>1, DeliveryInvariantHolds, PTL

\* Every POST of a delivery is in its count, and there are at most MaxAttempts of them,
\* however many workers try it, unless an attempt outlived its lease.
THEOREM PostsCounted == EventSpec => []PostsAreCounted
<1>1. DeliveryInvariant => PostsAreCounted
  BY DEF DeliveryInvariant
<1> QED BY <1>1, DeliveryInvariantHolds, PTL

\* An attempt that has not outlived its lease is made of a delivery nobody has ended: it is
\* pending, or was dropped beside it.
StillOpen ==
  \A d \in Delivery, w \in Worker : Attempts(w, d) => delivery[d].status \in {"pending", "dropped"}

\* How the status of a delivery changes: it is filed, dropped, or written by a worker that
\* then lets go of it.
LEMMA StatusChanges ==
  ASSUME EventTypeOK, Carries, EventNext, NEW d \in Delivery
  PROVE  \/ delivery'[d].status = delivery[d].status
         \/ delivery[d].status = "absent" /\ delivery'[d].status = "pending"
         \/ delivery[d].status = "pending" /\ delivery'[d].status = "dropped"
         \/ \E w \in Worker : worker[w].pc = "writing" /\ worker[w].d = d /\ worker'[w].pc = "idle"
<1> DEFINE Kept == delivery'[d].status = delivery[d].status
           Filed == delivery[d].status = "absent" /\ delivery'[d].status = "pending"
           Dropped == delivery[d].status = "pending" /\ delivery'[d].status = "dropped"
           Written(w) == worker[w].pc = "writing" /\ worker[w].d = d /\ worker'[w].pc = "idle"
<1>0. delivery \in [Delivery -> DeliveryRow] /\ delivery[d] \in DeliveryRow
  BY DEF EventTypeOK
<1>1. ASSUME NEW subs, delivery' = DropPending(subs) PROVE Kept \/ Dropped
  BY <1>0, <1>1 DEF DropPending, DeliveryRow
<1>2. ASSUME NEW s \in Subscription, NEW e \in Event, Enqueue(s, e)
      PROVE  Kept \/ Filed
  BY <1>0, <1>2 DEF Enqueue, DeliveryRow, Delivery
<1>3. ASSUME NEW w \in Worker, NEW x \in Delivery, Claim(w, x) PROVE Kept
  BY <1>0, <1>3 DEF Claim, DeliveryRow
<1>4. ASSUME NEW w \in Worker, Defer(w) PROVE Kept
  BY <1>0, <1>4 DEF Defer, DeliveryRow
<1>5. ASSUME NEW w \in Worker, Write(w)
      PROVE  Kept \/ Written(w)
  <2>1. worker[w].pc = "writing" /\ worker'[w].pc = "idle"
    BY <1>5 DEF Write, EventTypeOK, IdleWorker
  <2>2. worker[w].d # d => delivery'[d] = delivery[d]
    BY <1>0, <1>5 DEF Write
  <2> QED BY <2>1, <2>2
<1>6. ASSUME NEW x \in Delivery, LeaseLapses(x) \/ WindowCloses(x) PROVE Kept
  BY <1>0, <1>6 DEF LeaseLapses, WindowCloses, DeliveryRow
<1>7. ASSUME NEW c \in Caller, CallerStep(c) PROVE Kept \/ Dropped
  <2>1. delivery' = delivery \/ \E subs : delivery' = DropPending(subs)
    BY <1>7 DEF CallerStep, Subscribe, Unsubscribe, UpsertSubscription, SubscribeFails,
                EndSubscription, DropUnsubscribed
  <2> QED BY <1>1, <2>1
<1>8. ASSUME NEW w \in Worker, WorkerStep(w) \/ WorkerDies(w), ~Defer(w), ~Write(w)
      PROVE  Kept \/ Dropped
  <2>1. delivery' = delivery \/ \E subs : delivery' = DropPending(subs)
    BY <1>8 DEF WorkerStep, WorkerDies, GiveUpUnsent, ReadSubscription, ExpireSubscription,
                CheckPrincipal, RevokeSubscriptions, DropRevoked, CheckFails, GiveUpDeferring,
                PostWebhook
  <2> QED BY <1>1, <2>1
<1>9. ASSUME NEW a \in Account, TurnAccount(a) PROVE Kept
  BY <1>9 DEF TurnAccount
<1>10. ASSUME NEW s \in Subscription, LapseSubscription(s) PROVE Kept
  BY <1>10 DEF LapseSubscription
<1> HIDE DEF Kept, Filed, Dropped, Written
<1>11. Kept \/ Filed \/ Dropped \/ \E w \in Worker : Written(w)
  BY <1>2, <1>3, <1>4, <1>5, <1>6, <1>7, <1>8, <1>9, <1>10 DEF EventNext
<1> QED BY <1>11 DEF Kept, Filed, Dropped, Written

\* An attempt goes on, or was just begun by the claim of a pending row.
LEMMA AttemptsBegin ==
  ASSUME EventTypeOK, EventNext, NEW w \in Worker, NEW d \in Delivery, Attempts(w, d)'
  PROVE  Attempts(w, d) \/ delivery'[d].status = "pending"
<1>1. outlived \subseteq outlived'
  BY DEF EventNext, TurnAccount, CallerStep, Subscribe, Unsubscribe, UpsertSubscription,
         SubscribeFails, EndSubscription, DropUnsubscribed, LapseSubscription, Enqueue, Claim,
         WorkerStep, GiveUpUnsent, ReadSubscription, ExpireSubscription, CheckPrincipal,
         RevokeSubscriptions, DropRevoked, CheckFails, GiveUpDeferring, Defer, PostWebhook, Write,
         WorkerDies, LeaseLapses, WindowCloses, ghostVars
<1>2. ASSUME worker'[w] = worker[w] PROVE Attempts(w, d)
  BY <1>1, <1>2 DEF Attempts
<1>3. ASSUME NEW v \in Worker, NEW x \in Delivery, Claim(v, x)
      PROVE  Attempts(w, d) \/ delivery'[d].status = "pending"
  <2>1. CASE v # w
    BY <1>2, <1>3, <2>1 DEF Claim, EventTypeOK
  <2>2. CASE v = w
    <3>1. d = x
      BY <1>3, <2>2 DEF Claim, EventTypeOK, IdleWorker, Attempts
    <3> QED BY <1>3, <3>1 DEF Claim, Due, EventTypeOK, DeliveryRow
  <2> QED BY <2>1, <2>2
<1>4. ASSUME NEW v \in Worker, WorkerStep(v) \/ WorkerDies(v) PROVE Attempts(w, d)
  <2>1. \A u \in Worker \ {v} : worker'[u] = worker[u]
    BY <1>4 DEF EventTypeOK, WorkerStep, GiveUpUnsent, ReadSubscription, ExpireSubscription,
                CheckPrincipal, RevokeSubscriptions, DropRevoked, CheckFails, GiveUpDeferring,
                Defer, PostWebhook, Write, WorkerDies, Dropping, Ending
  <2>2. worker[v].pc # "idle"
    BY <1>4 DEF WorkerStep, GiveUpUnsent, ReadSubscription, ExpireSubscription, CheckPrincipal,
                RevokeSubscriptions, DropRevoked, CheckFails, GiveUpDeferring, Defer, PostWebhook,
                Write, WorkerDies
  <2>3. worker'[v].pc = "idle" \/ worker'[v].d = worker[v].d
    <3>1. worker[v] \in WorkerRow /\ worker \in [Worker -> WorkerRow]
      BY DEF EventTypeOK
    <3>2. CASE WorkerDies(v) \/ Defer(v) \/ Write(v)
      BY <3>1, <3>2 DEF WorkerDies, Defer, Write, IdleWorker
    <3>3. CASE GiveUpUnsent(v) \/ ExpireSubscription(v) \/ DropRevoked(v) \/ GiveUpDeferring(v)
               \/ PostWebhook(v)
      BY <3>1, <3>3 DEF GiveUpUnsent, ExpireSubscription, DropRevoked, GiveUpDeferring,
                        PostWebhook, Dropping, Ending, IdleWorker
    <3>4. CASE ReadSubscription(v) \/ CheckPrincipal(v)
      BY <3>1, <3>4 DEF ReadSubscription, CheckPrincipal, Dropping, Ending, IdleWorker, WorkerRow
    <3>5. CASE RevokeSubscriptions(v) \/ CheckFails(v)
      BY <3>1, <3>5 DEF RevokeSubscriptions, CheckFails, WorkerRow
    <3> QED BY <1>4, <3>2, <3>3, <3>4, <3>5 DEF WorkerStep
  <2> QED BY <1>1, <2>1, <2>2, <2>3 DEF Attempts
<1>5. CASE worker' = worker
  BY <1>2, <1>5
<1>6. CASE \E c \in Caller : CallerStep(c)
  BY <1>5, <1>6 DEF CallerStep, Subscribe, Unsubscribe, UpsertSubscription, SubscribeFails,
                    EndSubscription, DropUnsubscribed
<1> QED BY <1>3, <1>4, <1>5, <1>6 DEF EventNext, TurnAccount, LapseSubscription, Enqueue,
                                      LeaseLapses, WindowCloses

EndedInvariant == DeliveryInvariant /\ StillOpen

LEMMA OpenStep == EndedInvariant /\ [EventNext]_eventVars => EndedInvariant'
<1> SUFFICES ASSUME EndedInvariant, [EventNext]_eventVars PROVE EndedInvariant'
  OBVIOUS
<1>0. DeliveryInvariant /\ EventTypeOK /\ Carries /\ Alone /\ StillOpen
  BY DEF EndedInvariant, DeliveryInvariant
<1>1. DeliveryInvariant'
  BY <1>0, DeliveryStep
<1>2. StillOpen'
  <2>1. CASE EventNext
    <3> SUFFICES ASSUME NEW x \in Delivery, NEW v \in Worker, Attempts(v, x)'
                 PROVE  delivery'[x].status \in {"pending", "dropped"}
      BY DEF StillOpen
    <3>1. CASE Attempts(v, x)
      <4>1. delivery[x].status \in {"pending", "dropped"} /\ x \notin outlived
        BY <1>0, <3>1 DEF StillOpen, Attempts
      <4>2. ASSUME NEW w \in Worker, worker[w].pc = "writing", worker[w].d = x,
                   worker'[w].pc = "idle"
            PROVE  FALSE
        <5>1. v = w
          BY <1>0, <3>1, <4>1, <4>2 DEF Alone, Attempts
        <5> QED BY <4>2, <5>1 DEF Attempts
      <4> QED BY <1>0, <2>1, <4>1, <4>2, StatusChanges
    <3>2. CASE ~Attempts(v, x)
      BY <1>0, <2>1, <3>2, AttemptsBegin
    <3> QED BY <3>1, <3>2
  <2>2. CASE UNCHANGED eventVars
    BY <1>0, <2>2 DEF StillOpen, Attempts, eventVars, ghostVars
  <2> QED BY <2>1, <2>2
<1> QED BY <1>1, <1>2 DEF EndedInvariant

LEMMA InitOpen == EventInit => EndedInvariant
<1>1. EventInit => StillOpen
  BY DEF EventInit, StillOpen, Attempts, IdleWorker
<1> QED BY <1>1, InitDelivery DEF EndedInvariant

\* Who posts a delivery makes an attempt of it.
LEMMA PostsChange ==
  ASSUME EventTypeOK, EventNext, NEW d \in Delivery \ outlived, posts'[d] # posts[d]
  PROVE  \E w \in Worker : Attempts(w, d)
<1>1. PICK w \in Worker : PostWebhook(w)
  BY DEF EventNext, TurnAccount, CallerStep, Subscribe, Unsubscribe, UpsertSubscription,
         SubscribeFails, EndSubscription, DropUnsubscribed, LapseSubscription, Enqueue, Claim,
         WorkerStep, GiveUpUnsent, ReadSubscription, ExpireSubscription, CheckPrincipal,
         RevokeSubscriptions, DropRevoked, CheckFails, GiveUpDeferring, Defer, Write, WorkerDies,
         LeaseLapses, WindowCloses, ghostVars
<1>2. worker[w].d = d /\ worker[w].pc = "cleared"
  BY <1>1 DEF PostWebhook, EventTypeOK
<1> QED BY <1>2 DEF Attempts

\* What the receiver accepted, or what was given up, stays so and is never posted again, for
\* any number of workers, deaths and attempts, unless an attempt outlived its lease.
THEOREM EndedDeliveriesStayHolds == EventSpec => EndedDeliveriesStay
<1>1. ASSUME EndedInvariant, [EventNext]_eventVars
      PROVE  [\A d \in Delivery \ outlived :
                delivery[d].status \in {"delivered", "abandoned"} =>
                  delivery'[d].status = delivery[d].status /\ posts'[d] = posts[d]]_eventVars
  <2>0. EventTypeOK /\ Carries /\ StillOpen
    BY <1>1 DEF EndedInvariant, DeliveryInvariant
  <2> SUFFICES ASSUME EventNext, NEW d \in Delivery \ outlived,
                      delivery[d].status \in {"delivered", "abandoned"}
               PROVE  delivery'[d].status = delivery[d].status /\ posts'[d] = posts[d]
    BY <1>1
  <2>1. \A w \in Worker : ~Attempts(w, d)
    BY <2>0 DEF StillOpen
  <2>2. delivery'[d].status = delivery[d].status
    <3>1. \A w \in Worker : ~(worker[w].pc = "writing" /\ worker[w].d = d)
      BY <2>1 DEF Attempts
    <3> QED BY <2>0, <3>1, StatusChanges
  <2>3. posts'[d] = posts[d]
    BY <2>0, <2>1, PostsChange
  <2> QED BY <2>2, <2>3
<1> QED BY <1>1, InitOpen, OpenStep, PTL DEF EventSpec, EndedDeliveriesStay
=============================================================================
