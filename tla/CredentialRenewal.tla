------------------------- MODULE CredentialRenewal --------------------------
(***************************************************************************)
(* Automatic renewal of one AI employee's badge (社員証): a proposal files *)
(* a ticket and a renewal row, the approval opens a claim window, the      *)
(* holder of the old badge claims the new one, both are valid for a while, *)
(* and the first use of the new one, or the cron, retires one of them. The *)
(* dashboard's rotation and the emergency stop run beside it.              *)
(*                                                                         *)
(* Badges are numbered in the order they are minted; there is one renewal  *)
(* row per old badge. An SQL function is a step, two where it reads what   *)
(* it does not lock; a TypeScript call sees what it read at its last await.*)
(***************************************************************************)
EXTENDS Naturals, FiniteSets

CONSTANTS
  Proposal,    \* calls that propose a renewal; each files its own ticket
  Claimer,     \* calls of the claim route
  BadgeLimit,  \* bound: badges ever minted
  StopLimit    \* bound: emergency stops

ASSUME RenewalConstants ==
  /\ BadgeLimit \in Nat \ {0}
  /\ StopLimit \in Nat

VARIABLES
  bound,      \* the badge the binding's fingerprint names
  minted,     \* badges minted so far
  cred,       \* credentials, by badge
  handed,     \* badges whose secret somebody was given
  used,       \* badges with a last_used_at
  renewal,    \* credential_renewals, by old badge
  ticket,     \* the approval ticket of each proposal
  held,       \* the employee or the organisation is on hold
  stops,      \* stops so far
  proposal,   \* where each proposal stands, and the old badge it is about
  claimer,    \* where each claim stands and what it has read
  switching,  \* rows with a switchover under way that passed its checks
  retiring,   \* rows with a cron call under way that found the new badge unused
  rotation,   \* where the dashboard's rotation stands
  stopped     \* tickets whose renewal was waiting or claimable when a stop began

badgeVars == <<bound, minted, cred, handed, used>>
stopVars == <<held, stops, stopped>>
retireVars == <<switching, retiring>>
renewalVars == <<badgeVars, renewal, ticket, stopVars, proposal, claimer, retireVars, rotation>>

(***************************************************************************)
(* Values                                                                  *)
(***************************************************************************)
Badge == 1..BadgeLimit
NoBadge == 0
NoProposal == "none"
NoClaimer == "nobody"

OpenStates == {"pending_approval", "claimable", "claimed"}
ReusableStates == {"rejected", "expired", "held_blocked"}
RenewalState == {"absent", "old_revoked"} \cup OpenStates \cup ReusableStates

\* "token" is the claim that holds the row, "window" says that claimable_until is ahead,
\* "overlap" that overlap_until is.
RenewalRow == [state : RenewalState, ticket : Proposal \cup {NoProposal}, new : 0..BadgeLimit,
               token : Claimer \cup {NoClaimer}, window : BOOLEAN, overlap : BOOLEAN]
NoRenewal == [state |-> "absent", ticket |-> NoProposal, new |-> NoBadge, token |-> NoClaimer,
              window |-> FALSE, overlap |-> FALSE]

\* "fulfilling" has passed the gate of its execution, "fulfilled" has saved its success.
TicketRow == [status : {"absent", "pending", "approved", "rejected"}, tagged : BOOLEAN,
              fulfilment : {"none", "fulfilling", "fulfilled"}]
ProposalRow == [pc : {"idle", "filed", "reusing", "done"}, old : 0..BadgeLimit]
ClaimerRow == [pc : {"idle", "read", "claimed", "issued", "releasing", "done"},
               old : 0..BadgeLimit, ticket : Proposal \cup {NoProposal}, new : 0..BadgeLimit]

RenewalInit ==
  /\ bound = 1
  /\ minted = 1
  /\ cred = [b \in Badge |-> IF b = 1 THEN "live" ELSE "none"]
  /\ handed = {1}
  /\ used = {1}
  /\ renewal = [b \in Badge |-> NoRenewal]
  /\ ticket = [p \in Proposal |-> [status |-> "absent", tagged |-> FALSE, fulfilment |-> "none"]]
  /\ held = FALSE
  /\ stops = 0
  /\ proposal = [p \in Proposal |-> [pc |-> "idle", old |-> NoBadge]]
  /\ claimer = [c \in Claimer |-> [pc |-> "idle", old |-> NoBadge, ticket |-> NoProposal,
                                   new |-> NoBadge]]
  /\ switching = {}
  /\ retiring = {}
  /\ rotation = "idle"
  /\ stopped = {}

\* employees.credentialId: the newest badge that is not revoked.
IsNewest(b) == cred[b] = "live" /\ \A x \in Badge : x > b => cred[x] # "live"

\* lookupProdByHash with overlapNewCredentialAllowed: the badge the binding names, or the
\* new badge of a claimed renewal of that one, while their overlap lasts.
Accepted(b) ==
  \/ b = bound
  \/ /\ cred[b] = "live"
     /\ renewal[bound].state = "claimed"
     /\ renewal[bound].new = b
     /\ renewal[bound].overlap

(***************************************************************************)
(* The emergency stop                                                      *)
(***************************************************************************)
Waiting(p) == \E b \in Badge : renewal[b].ticket = p
                                 /\ renewal[b].state \in {"pending_approval", "claimable"}

\* Seeded fault: no trigger closes the claim windows.
KeepClaimable == renewal

\* Seeded fault: the trigger writes a state that the table's check does not list.
BlockUnlisted ==
  [b \in Badge |-> IF renewal[b].state = "claimable"
                   THEN [renewal[b] EXCEPT !.state = "blocked"] ELSE renewal[b]]

\* block_claimable_credential_renewals_on_hold.
BlockClaimable ==
  [b \in Badge |-> IF renewal[b].state = "claimable"
                   THEN [renewal[b] EXCEPT !.state = "held_blocked"] ELSE renewal[b]]

\* start_employee_hold: the hold, the tags of the tickets that are not done, the trigger.
StopEmployee ==
  /\ ~held
  /\ stops < StopLimit
  /\ held' = TRUE
  /\ stops' = stops + 1
  /\ renewal' = BlockClaimable
  /\ ticket' = [p \in Proposal |->
       IF ticket[p].status \in {"pending", "approved"} /\ ticket[p].fulfilment # "fulfilled"
       THEN [ticket[p] EXCEPT !.tagged = TRUE] ELSE ticket[p]]
  /\ stopped' = stopped \cup {p \in Proposal : Waiting(p)}
  /\ UNCHANGED <<badgeVars, proposal, claimer, retireVars, rotation>>

ReleaseEmployee ==
  /\ held
  /\ held' = FALSE
  /\ UNCHANGED <<badgeVars, renewal, ticket, stops, stopped, proposal, claimer, retireVars, rotation>>

(***************************************************************************)
(* Proposal and approval                                                   *)
(***************************************************************************)
\* The gate, no open renewal, and the ticket (which a stop since the gate does not stop).
Propose(p, b) ==
  /\ proposal[p].pc = "idle"
  /\ ~held
  /\ IsNewest(b)
  /\ \A x \in Badge : renewal[x].state \notin OpenStates
  /\ ticket' = [ticket EXCEPT ![p].status = "pending"]
  /\ proposal' = [proposal EXCEPT ![p] = [pc |-> "filed", old |-> b]]
  /\ UNCHANGED <<badgeVars, renewal, stopVars, claimer, retireVars, rotation>>

\* insertOrReuseCredentialRenewal: the row of this badge is inserted, found in the way, or
\* found reusable.
InsertRenewal(p) ==
  LET b == proposal[p].old IN
  /\ proposal[p].pc = "filed"
  /\ IF renewal[b].state = "absent"
     THEN renewal' = [renewal EXCEPT ![b] = [NoRenewal EXCEPT !.state = "pending_approval",
                                                              !.ticket = p]]
     ELSE UNCHANGED renewal
  /\ proposal' = [proposal EXCEPT ![p].pc =
                    IF renewal[b].state \in ReusableStates THEN "reusing" ELSE "done"]
  /\ UNCHANGED <<badgeVars, ticket, stopVars, claimer, retireVars, rotation>>

\* The update of a reusable row, by its id alone: whatever it is by now.
ReuseRenewal(p) ==
  /\ proposal[p].pc = "reusing"
  /\ renewal' = [renewal EXCEPT ![proposal[p].old] =
                   [NoRenewal EXCEPT !.state = "pending_approval", !.ticket = p]]
  /\ proposal' = [proposal EXCEPT ![p].pc = "done"]
  /\ UNCHANGED <<badgeVars, ticket, stopVars, claimer, retireVars, rotation>>

Decide(p, s) ==
  /\ ticket[p].status = "pending"
  /\ ticket' = [ticket EXCEPT ![p].status = s]
  /\ UNCHANGED <<badgeVars, renewal, stopVars, proposal, claimer, retireVars, rotation>>

\* The execution of the approved ticket: not tagged, and the gate.
StartFulfilment(p) ==
  /\ ticket[p].status = "approved"
  /\ ticket[p].fulfilment = "none"
  /\ ~ticket[p].tagged
  /\ ~held
  /\ ticket' = [ticket EXCEPT ![p].fulfilment = "fulfilling"]
  /\ UNCHANGED <<badgeVars, renewal, stopVars, proposal, claimer, retireVars, rotation>>

\* markCredentialRenewalClaimable: the waiting row of this ticket.
OpenWindow(p) ==
  /\ ticket[p].fulfilment = "fulfilling"
  /\ \E b \in Badge :
       /\ renewal[b].ticket = p
       /\ renewal[b].state = "pending_approval"
       /\ renewal' = [renewal EXCEPT ![b].state = "claimable", ![b].window = TRUE]
  /\ ticket' = [ticket EXCEPT ![p].fulfilment = "fulfilled"]
  /\ UNCHANGED <<badgeVars, stopVars, proposal, claimer, retireVars, rotation>>

\* It moves no row or fails; the execution may be run again.
FulfilmentFails(p) ==
  /\ ticket[p].fulfilment = "fulfilling"
  /\ ticket' = [ticket EXCEPT ![p].fulfilment = "none"]
  /\ UNCHANGED <<badgeVars, renewal, stopVars, proposal, claimer, retireVars, rotation>>

\* expire_stale_credential_renewals, markCredentialRenewalClosed.
CloseStale(b) ==
  LET row == renewal[b] IN
  /\ \/ row.state = "claimable" /\ ~row.window
     \/ row.state = "claimed" /\ row.new = NoBadge
     \/ row.state = "pending_approval" /\ ticket[row.ticket].status = "rejected"
  /\ renewal' = [renewal EXCEPT ![b].state =
                   IF row.state = "pending_approval" THEN "rejected" ELSE "expired"]
  /\ UNCHANGED <<badgeVars, ticket, stopVars, proposal, claimer, retireVars, rotation>>

(***************************************************************************)
(* The claim                                                               *)
(***************************************************************************)
\* heldTicketMarker
Untagged(p) == ~ticket[p].tagged

\* The route has accepted the old badge; the gate, the row and its ticket are read.
ReadToClaim(c, b) ==
  LET row == renewal[b] IN
  /\ claimer[c].pc = "idle"
  /\ b \in handed /\ Accepted(b) /\ IsNewest(b)
  /\ ~held
  /\ row.state = "claimable" /\ row.window
  /\ ticket[row.ticket].status = "approved" /\ Untagged(row.ticket)
  /\ claimer' = [claimer EXCEPT ![c] = [pc |-> "read", old |-> b, ticket |-> row.ticket,
                                        new |-> NoBadge]]
  /\ UNCHANGED <<badgeVars, renewal, ticket, stopVars, proposal, retireVars, rotation>>

\* credential_renewal_operable
Operable(b) == ~held /\ ticket[renewal[b].ticket].status = "approved"

\* claim_credential_renewal(_gen1_http) locks the row and looks again; its answer may be lost.
ClaimRenewal(c) ==
  LET b == claimer[c].old IN
  /\ claimer[c].pc = "read"
  /\ renewal[b].state = "claimable" /\ renewal[b].window
  /\ Operable(b) /\ cred[b] = "live"
  /\ renewal' = [renewal EXCEPT ![b].state = "claimed", ![b].token = c]
  /\ \E pc \in {"claimed", "done"} : claimer' = [claimer EXCEPT ![c].pc = pc]
  /\ UNCHANGED <<badgeVars, ticket, stopVars, proposal, retireVars, rotation>>

\* issue_overlapped_new_credential, one transaction; its answer may be lost.
IssueBadge(c) ==
  LET b == claimer[c].old
      new == minted + 1
  IN
  /\ claimer[c].pc = "claimed"
  /\ minted < BadgeLimit
  /\ Operable(b) /\ cred[b] = "live"
  /\ renewal[b].state = "claimed" /\ renewal[b].token = c /\ renewal[b].new = NoBadge
  /\ minted' = new
  /\ cred' = [cred EXCEPT ![new] = "live"]
  /\ renewal' = [renewal EXCEPT ![b].new = new, ![b].overlap = TRUE]
  /\ \E pc \in {"issued", "releasing"} :
       claimer' = [claimer EXCEPT ![c].pc = pc, ![c].new = IF pc = "issued" THEN new ELSE NoBadge]
  /\ UNCHANGED <<bound, handed, used, ticket, stopVars, proposal, retireVars, rotation>>

IssueFails(c) ==
  /\ claimer[c].pc = "claimed"
  /\ claimer' = [claimer EXCEPT ![c].pc = "releasing"]
  /\ UNCHANGED <<badgeVars, renewal, ticket, stopVars, proposal, retireVars, rotation>>

\* The row a claim hands back: claimable again, unless a stop is in force.
HandedBack(row) ==
  [row EXCEPT !.state = IF held THEN "held_blocked" ELSE "claimable", !.token = NoClaimer,
              !.new = NoBadge, !.overlap = FALSE]

\* release_credential_renewal: its own claim, and no badge issued under it.
ReleaseClaim(c) ==
  LET b == claimer[c].old IN
  /\ claimer[c].pc = "releasing"
  /\ claimer' = [claimer EXCEPT ![c].pc = "done"]
  /\ IF renewal[b].state = "claimed" /\ renewal[b].token = c /\ renewal[b].new = NoBadge
     THEN renewal' = [renewal EXCEPT ![b] = HandedBack(@)]
     ELSE UNCHANGED renewal
  /\ UNCHANGED <<badgeVars, ticket, stopVars, proposal, retireVars, rotation>>

\* The answer of the route reaches the launcher.
HandOver(c) ==
  /\ claimer[c].pc = "issued"
  /\ handed' = handed \cup {claimer[c].new}
  /\ claimer' = [claimer EXCEPT ![c].pc = "done"]
  /\ UNCHANGED <<bound, minted, cred, used, renewal, ticket, stopVars, proposal, retireVars, rotation>>

\* The route fails after the issue: abort_minted_credential_renewal.
AbortMinted(c) ==
  LET b == claimer[c].old IN
  /\ claimer[c].pc = "issued"
  /\ claimer' = [claimer EXCEPT ![c].pc = "done"]
  /\ IF renewal[b].state = "claimed" /\ renewal[b].token = c /\ renewal[b].new = claimer[c].new
     THEN /\ cred' = [cred EXCEPT ![claimer[c].new] = "revoked"]
          /\ renewal' = [renewal EXCEPT ![b] = HandedBack(@)]
     ELSE UNCHANGED <<cred, renewal>>
  /\ UNCHANGED <<bound, minted, handed, used, ticket, stopVars, proposal, retireVars, rotation>>

\* The function is killed, or the answer of the route is lost.
ClaimerDies(c) ==
  /\ claimer[c].pc \in {"read", "claimed", "issued", "releasing"}
  /\ claimer' = [claimer EXCEPT ![c].pc = "done"]
  /\ UNCHANGED <<badgeVars, renewal, ticket, stopVars, proposal, retireVars, rotation>>

(***************************************************************************)
(* The first use of the new badge, the cron, the rotation                  *)
(***************************************************************************)
\* resolveEmployeeCredential: last_used_at is touched (or the touch is lost), and when this
\* is the new badge of a claimed renewal its switchover is called.
Authenticate(b) ==
  /\ b \in handed /\ Accepted(b)
  /\ ~held
  /\ used' \in {used, used \cup {b}}
  /\ \/ UNCHANGED switching
     \/ \E o \in Badge : /\ renewal[o].state = "claimed" /\ renewal[o].new = b
                         /\ Operable(o) /\ cred[b] = "live"
                         /\ switching' = switching \cup {<<o, b>>}
  /\ UNCHANGED <<bound, minted, cred, handed, renewal, ticket, stopVars, proposal, claimer,
                 retiring, rotation>>

\* Seeded fault: the fingerprint is moved whatever it is.
MovesAnyway(o, n) == TRUE

\* "and credential_fingerprint = old_hash", or it has moved already.
MovesFrom(o, n) == bound \in {o, n}

\* complete_overlapped_credential_switchover past its checks: old badge, row and
\* fingerprint in one transaction, or nothing.
CompleteSwitchover(o, n) ==
  /\ <<o, n>> \in switching
  /\ switching' = switching \ {<<o, n>>}
  /\ IF renewal[o].new = n /\ MovesFrom(o, n)
     THEN /\ cred' = [cred EXCEPT ![o] = "revoked"]
          /\ renewal' = [renewal EXCEPT ![o].state = "old_revoked"]
          /\ bound' = n
     ELSE UNCHANGED <<cred, renewal, bound>>
  /\ UNCHANGED <<minted, handed, used, ticket, stopVars, proposal, claimer, retiring, rotation>>

\* The call dies or its transaction fails.
RetireFails(o, n) ==
  /\ <<o, n>> \in switching \cup retiring
  /\ switching' = switching \ {<<o, n>>}
  /\ retiring' = retiring \ {<<o, n>>}
  /\ UNCHANGED <<badgeVars, renewal, ticket, stopVars, proposal, claimer, rotation>>

\* listExpiredOverlapRenewals
Overdue(o) == renewal[o].state = "claimed" /\ renewal[o].new # NoBadge /\ ~renewal[o].overlap

\* Seeded fault: the cron asks whether the employee may operate.
CronWhenOperable(o) == Operable(o)

\* revoke_expired_overlapped_old_credential runs during a stop too.
CronMay(o) == TRUE

\* The new badge is revoked already: the row expires.
CronFindsRevoked(o) ==
  /\ Overdue(o) /\ CronMay(o)
  /\ cred[renewal[o].new] = "revoked"
  /\ renewal' = [renewal EXCEPT ![o].state = "expired"]
  /\ UNCHANGED <<badgeVars, ticket, stopVars, proposal, claimer, retireVars, rotation>>

\* Seeded fault: an unused new badge takes over as a used one does.
SeenInUse(n) == TRUE

\* last_used_at is set.
InUse(n) == n \in used

\* The new badge was never used, as far as last_used_at tells: it is to go.
CronFindsUnused(o) ==
  LET n == renewal[o].new IN
  /\ Overdue(o) /\ CronMay(o)
  /\ cred[n] = "live" /\ ~InUse(n)
  /\ retiring' = retiring \cup {<<o, n>>}
  /\ UNCHANGED <<badgeVars, renewal, ticket, stopVars, proposal, claimer, switching, rotation>>

RetireUnused(o, n) ==
  /\ <<o, n>> \in retiring
  /\ retiring' = retiring \ {<<o, n>>}
  /\ cred' = [cred EXCEPT ![n] = "revoked"]
  /\ renewal' = IF renewal[o].state = "claimed" /\ renewal[o].new = n
                THEN [renewal EXCEPT ![o].state = "expired"] ELSE renewal
  /\ UNCHANGED <<bound, minted, handed, used, ticket, stopVars, proposal, claimer, switching, rotation>>

\* It was used: the switchover, without asking whether the employee may operate.
CronFindsUsed(o) ==
  LET n == renewal[o].new IN
  /\ Overdue(o) /\ CronMay(o)
  /\ cred[n] = "live" /\ InUse(n)
  /\ switching' = switching \cup {<<o, n>>}
  /\ UNCHANGED <<badgeVars, renewal, ticket, stopVars, proposal, claimer, retiring, rotation>>

\* rotateCredential moves the binding first,
RotateBinding ==
  /\ rotation \in {"idle", "died"}
  /\ minted < BadgeLimit
  /\ minted' = minted + 1
  /\ bound' = minted + 1
  /\ rotation' = "moved"
  /\ UNCHANGED <<cred, handed, used, renewal, ticket, stopVars, proposal, claimer, retireVars>>

\* then inserts the credential,
InsertRotated ==
  /\ rotation = "moved"
  /\ cred' = [cred EXCEPT ![bound] = "live"]
  /\ rotation' = "inserted"
  /\ UNCHANGED <<bound, minted, handed, used, renewal, ticket, stopVars, proposal, claimer, retireVars>>

\* Seeded fault: a badge nobody has used yet is left valid.
ReplacedIfUsed(b) == b # bound /\ cred[b] = "live" /\ b \in used

\* The credentials a rotation revokes.
Replaced(b) == b # bound /\ cred[b] = "live"

\* then revokes every other one, and its answer shows the secret.
FinishRotation ==
  /\ rotation = "inserted"
  /\ cred' = [b \in Badge |-> IF Replaced(b) THEN "revoked" ELSE cred[b]]
  /\ handed' = handed \cup {bound}
  /\ rotation' = "idle"
  /\ UNCHANGED <<bound, minted, used, renewal, ticket, stopVars, proposal, claimer, retireVars>>

\* It fails or is killed in between.
RotationDies ==
  /\ rotation \in {"moved", "inserted"}
  /\ rotation' = "died"
  /\ UNCHANGED <<badgeVars, renewal, ticket, stopVars, proposal, claimer, retireVars>>

\* claimable_until passes.
CloseWindow(b) ==
  /\ renewal[b].window
  /\ renewal' = [renewal EXCEPT ![b].window = FALSE]
  /\ UNCHANGED <<badgeVars, ticket, stopVars, proposal, claimer, retireVars, rotation>>

\* overlap_until passes.
CloseOverlap(b) ==
  /\ renewal[b].overlap
  /\ renewal' = [renewal EXCEPT ![b].overlap = FALSE]
  /\ UNCHANGED <<badgeVars, ticket, stopVars, proposal, claimer, retireVars, rotation>>

(***************************************************************************)
(* Specification                                                           *)
(***************************************************************************)
ProposalStep(p) ==
  \/ (\E b \in Badge : Propose(p, b)) \/ InsertRenewal(p) \/ ReuseRenewal(p)
  \/ (\E s \in {"approved", "rejected"} : Decide(p, s))
  \/ StartFulfilment(p) \/ OpenWindow(p) \/ FulfilmentFails(p)
ClaimerStep(c) ==
  \/ (\E b \in Badge : ReadToClaim(c, b)) \/ ClaimRenewal(c) \/ IssueBadge(c) \/ IssueFails(c)
  \/ ReleaseClaim(c) \/ HandOver(c) \/ AbortMinted(c) \/ ClaimerDies(c)
Cron(o) == CronFindsRevoked(o) \/ CronFindsUnused(o) \/ CronFindsUsed(o)
Rotate == InsertRotated \/ FinishRotation

RenewalNext ==
  \/ StopEmployee \/ ReleaseEmployee
  \/ \E p \in Proposal : ProposalStep(p)
  \/ \E c \in Claimer : ClaimerStep(c)
  \/ \E b \in Badge : CloseStale(b) \/ Authenticate(b) \/ Cron(b) \/ CloseWindow(b) \/ CloseOverlap(b)
  \/ \E o, n \in Badge : CompleteSwitchover(o, n) \/ RetireUnused(o, n) \/ RetireFails(o, n)
  \/ RotateBinding \/ Rotate \/ RotationDies

\* The overlap is a matter of time; the digest cron comes back twice a day and its calls do not
\* fail for ever; a rotation ends or dies.
RenewalFairness ==
  /\ WF_renewalVars(Rotate)
  /\ WF_renewalVars(\E o \in Badge : CloseOverlap(o))
  /\ SF_renewalVars(\E o \in Badge : Cron(o))
  /\ SF_renewalVars(\E o, n \in Badge : CompleteSwitchover(o, n) \/ RetireUnused(o, n))

RenewalSpec == RenewalInit /\ [][RenewalNext]_renewalVars
FairRenewalSpec == RenewalSpec /\ RenewalFairness

(***************************************************************************)
(* Properties                                                              *)
(***************************************************************************)
\* Every variable keeps to the values the schema and the code give it.
RenewalTypeOK ==
  /\ bound \in Badge /\ minted \in Badge
  /\ cred \in [Badge -> {"none", "live", "revoked"}]
  /\ handed \subseteq Badge /\ used \subseteq Badge
  /\ renewal \in [Badge -> RenewalRow]
  /\ ticket \in [Proposal -> TicketRow]
  /\ held \in BOOLEAN /\ stops \in 0..StopLimit /\ stopped \subseteq Proposal
  /\ proposal \in [Proposal -> ProposalRow]
  /\ claimer \in [Claimer -> ClaimerRow]
  /\ switching \subseteq Badge \X Badge /\ retiring \subseteq Badge \X Badge
  /\ rotation \in {"idle", "moved", "inserted", "died"}

\* The employee is never locked out by a renewal: the badge the binding names is one that
\* somebody was given, whatever claims, aborts, crons and lost answers raced, unless a
\* rotation is under way or died.
BindingNamesAHandedBadge == rotation = "idle" => bound \in handed

\* While the two badges of a renewal are valid the binding names one of the two, so that the
\* switchover, which compares the fingerprint and otherwise does nothing, can always end the
\* overlap: no lost update of a row, second claim or rotation gets between them, unless a
\* rotation is under way or died.
OverlapCanEnd ==
  \A o \in Badge : renewal[o].state = "claimed" /\ renewal[o].new # NoBadge =>
    /\ cred[renewal[o].new] # "none"
    /\ rotation = "idle" /\ cred[renewal[o].new] = "live" => bound \in {o, renewal[o].new}

\* A badge that was retired stays out: the binding only ever moves to a newer badge, and
\* no badge older than the one it names is accepted.
RetiredBadgeStaysOut ==
  [][bound' >= bound /\ \A b \in Badge : Accepted(b)' => b >= bound']_renewalVars

\* A renewal that was waiting or claimable when a stop began is not claimed, during the
\* stop or after it, by a call that read its ticket.
StopClosesTheWindow ==
  [][\A b \in Badge, c \in Claimer :
       /\ renewal[b].state = "claimable" /\ renewal'[b].state = "claimed"
       /\ renewal'[b].token = c /\ claimer[c].ticket = renewal[b].ticket
       => renewal[b].ticket \notin stopped]_renewalVars

\* Two badges do not stay valid for good: a claimed renewal with its new badge comes to an
\* end, in a stop too, unless a rotation died between its statements.
OverlapEnds ==
  \A b \in Badge :
    renewal[b].state = "claimed" /\ renewal[b].new # NoBadge ~>
      \/ ~(renewal[b].state = "claimed" /\ renewal[b].new # NoBadge)
      \/ rotation = "died"
=============================================================================
