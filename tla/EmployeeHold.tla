---------------------------- MODULE EmployeeHold ----------------------------
(***************************************************************************)
(* The emergency stop of one employee and of its organisation: the history *)
(* of employee_holds, the pointers employees.hold_id and orgs.hold_id, the *)
(* marks on the work tickets, and the release flow: a request with its     *)
(* ticket (requestHoldRelease), the two-person decision and the release    *)
(* (approveHoldRelease), run by any number of concurrent calls.            *)
(*                                                                         *)
(* The SQL functions are atomic and see the tables; a TypeScript call sees *)
(* what it read at its last await.                                         *)
(***************************************************************************)
EXTENDS Naturals, FiniteSets

CONSTANTS
  Scope,      \* the rows that carry hold columns
  OrgScope,   \* the organisation's row
  Member,     \* members of the organisation
  Request,    \* calls of requestHoldRelease; each files its own release ticket
  Click,      \* calls of approveHoldRelease
  Work,       \* work tickets of the employee
  NoMember,   \* "nobody"
  NoRequest,  \* "no release ticket"
  HoldLimit,  \* bound: rows of employee_holds
  TeamLimit   \* bound: changes of role or status in the team

ASSUME HoldConstants ==
  /\ NoMember \notin Member
  /\ NoRequest \notin Request
  /\ IsFiniteSet(Member)
  /\ HoldLimit \in Nat
  /\ TeamLimit \in Nat

VARIABLES
  hold,      \* employee_holds, by the order the rows were made in
  issued,    \* how many there are
  current,   \* hold_id of each scope (0: null)
  role,      \* org_members.role, and designation
  active,    \* members whose status is active
  changes,   \* team changes so far
  ticket,    \* the release ticket of each request
  requestPc, \* where each request call stands
  clickPc,   \* where each click stands
  click,     \* what it has read
  work,      \* work tickets: not filed, open, over (fulfilled, rejected, closed)
  tag,       \* their metadata.heldByHoldId (0: none)
  closedTag  \* their metadata.holdOutcome is closed_by_hold

holdVars == <<hold, issued, current>>
teamVars == <<role, active, changes>>
requestVars == <<ticket, requestPc>>
clickVars == <<clickPc, click>>
workVars == <<work, tag, closedTag>>
vars == <<holdVars, teamVars, requestVars, clickVars, workVars>>

(***************************************************************************)
(* Values                                                                  *)
(***************************************************************************)
HoldId == 1..HoldLimit

\* kind and started_via as far as any rule looks at them; "detector" is a quarantine,
\* an anomaly route or a trigger.
Class == {"leave", "stopped", "detector", "ops"}

\* employee_hold_rank
Rank(c) ==
  CASE c = "ops" -> 4 [] c = "detector" -> 3 [] c = "stopped" -> 2 [] c = "leave" -> 1

HoldState == {"unused", "open", "superseded", "released"}
Role == {"owner", "designated", "other"}

HoldRow == [scope : Scope \cup {OrgScope}, class : Class, state : HoldState,
            requestedBy : Member \cup {NoMember}, ticket : Request \cup {NoRequest},
            releasedBy : Member \cup {NoMember}]

\* "rejected" stands for a revision request too.
TicketStatus == {"absent", "pending", "approved", "rejected", "expired"}
ReleaseTicket == [status : TicketStatus, hold : 0..HoldLimit, requestedBy : Member \cup {NoMember},
                  resolvedBy : Member \cup {NoMember}, single : BOOLEAN]
Seen == [member : Member \cup {NoMember}, hold : 0..HoldLimit, ticket : Request \cup {NoRequest},
         status : TicketStatus, resolvedBy : Member \cup {NoMember}]

RequestPc == {"idle", "read", "filed", "expiring", "done"}
ClickPc == {"idle", "holdRead", "ticketRead", "deciding", "releasing", "failed", "reverting",
            "done", "crashed", "unreverted"}
WorkState == {"absent", "open", "over"}

NoTicket == [status |-> "absent", hold |-> 0, requestedBy |-> NoMember, resolvedBy |-> NoMember,
             single |-> FALSE]
NothingSeen == [member |-> NoMember, hold |-> 0, ticket |-> NoRequest, status |-> "absent",
                resolvedBy |-> NoMember]

\* An active owner or designated admin.
Eligible == {m \in active : role[m] \in {"owner", "designated"}}

Init ==
  /\ hold = [h \in HoldId |-> [scope |-> OrgScope, class |-> "leave", state |-> "unused",
                               requestedBy |-> NoMember, ticket |-> NoRequest,
                               releasedBy |-> NoMember]]
  /\ issued = 0
  /\ current = [s \in Scope |-> 0]
  /\ role \in {f \in [Member -> Role] : \E m \in Member : f[m] = "owner"}
  /\ active = Member
  /\ changes = 0
  /\ ticket = [r \in Request |-> NoTicket]
  /\ requestPc = [r \in Request |-> "idle"]
  /\ clickPc = [c \in Click |-> "idle"]
  /\ click = [c \in Click |-> NothingSeen]
  /\ work = [w \in Work |-> "absent"]
  /\ tag = [w \in Work |-> 0]
  /\ closedTag = [w \in Work |-> FALSE]

(***************************************************************************)
(* Work and team                                                           *)
(***************************************************************************)
FileWork(w) ==
  /\ work[w] = "absent"
  /\ work' = [work EXCEPT ![w] = "open"]
  /\ UNCHANGED <<holdVars, teamVars, requestVars, clickVars, tag, closedTag>>

FinishWork(w) ==
  /\ work[w] = "open"
  /\ work' = [work EXCEPT ![w] = "over"]
  /\ UNCHANGED <<holdVars, teamVars, requestVars, clickVars, tag, closedTag>>

\* Seeded fault: any other active member is enough.
OwnerRemainsOrAnyone(m) == m \in active /\ role[m] = "owner" => active # {m}

\* org_members_keep_last_owner: the last active owner is neither demoted nor deactivated.
OwnerRemains(m) ==
  m \in active /\ role[m] = "owner" => \E o \in active \ {m} : role[o] = "owner"

ChangeRole(m, x) ==
  /\ changes < TeamLimit
  /\ role[m] # x
  /\ x # "owner" => OwnerRemains(m)
  /\ changes' = changes + 1
  /\ role' = [role EXCEPT ![m] = x]
  /\ UNCHANGED <<holdVars, active, requestVars, clickVars, workVars>>

Deactivate(m) ==
  /\ changes < TeamLimit
  /\ m \in active
  /\ OwnerRemains(m)
  /\ changes' = changes + 1
  /\ active' = active \ {m}
  /\ UNCHANGED <<holdVars, role, requestVars, clickVars, workVars>>

(***************************************************************************)
(* start_employee_hold                                                     *)
(***************************************************************************)
\* Seeded fault: a weaker or equal stop replaces the one in force too.
OutranksAlways(s, c) == TRUE

\* Only a stronger stop replaces the one in force.
Outranks(s, c) == current[s] # 0 => Rank(c) > Rank(hold[current[s]].class)

\* Seeded fault: the tickets of a replaced hold keep naming it.
TaggedOpenOnly(prev) == {w \in Work : work[w] = "open"}

\* The tickets that will name the new hold: the open ones, and those of the hold it
\* replaces.
Tagged(prev) == {w \in Work : work[w] = "open" \/ (prev # 0 /\ tag[w] = prev)}

OpenRow(s, c) ==
  [scope |-> s, class |-> c, state |-> "open", requestedBy |-> NoMember, ticket |-> NoRequest,
   releasedBy |-> NoMember]

\* Seeded fault: the replaced hold stays open.
HistoryWithoutClose(s, c) == [hold EXCEPT ![issued + 1] = OpenRow(s, c)]

\* The history with the new hold, and the one it replaces closed as superseded.
HistoryAfterStart(s, c) ==
  [h \in HoldId |->
     IF h = issued + 1 THEN OpenRow(s, c)
     ELSE IF h = current[s] THEN [hold[h] EXCEPT !.state = "superseded"]
     ELSE hold[h]]

StartHold(s, c) ==
  LET prev == current[s]
      new == issued + 1
  IN
  /\ issued < HoldLimit
  /\ Outranks(s, c)
  /\ issued' = new
  /\ hold' = HistoryAfterStart(s, c)
  /\ current' = [current EXCEPT ![s] = new]
  /\ tag' = [w \in Work |-> IF w \in Tagged(prev) THEN new ELSE tag[w]]
  /\ closedTag' = [w \in Work |-> closedTag[w] /\ work[w] # "open"]
  /\ UNCHANGED <<teamVars, requestVars, clickVars, work>>

(***************************************************************************)
(* requestHoldRelease                                                      *)
(***************************************************************************)
\* The open hold is read; an ops stop and a member who may not ask are refused (for an
\* employee's hold any active member may have the capability approve_actions).
ReadHold(r, m, h) ==
  /\ requestPc[r] = "idle"
  /\ m \in active
  /\ hold[h].state = "open"
  /\ hold[h].class # "ops"
  /\ hold[h].scope = OrgScope => role[m] = "owner"
  /\ requestPc' = [requestPc EXCEPT ![r] = "read"]
  /\ ticket' = [ticket EXCEPT ![r].hold = h, ![r].requestedBy = m]
  /\ UNCHANGED <<holdVars, teamVars, clickVars, workVars>>

\* The eligible approvers are read and the ticket filed, marked when the requester is the
\* only one of them and no detector made the stop.
FileTicket(r) ==
  /\ requestPc[r] = "read"
  /\ requestPc' = [requestPc EXCEPT ![r] = "filed"]
  /\ ticket' = [ticket EXCEPT
       ![r].status = "pending",
       ![r].single = Eligible = {ticket[r].requestedBy} /\ hold[ticket[r].hold].class # "detector"]
  /\ UNCHANGED <<holdVars, teamVars, clickVars, workVars>>

\* Seeded fault: a request replaces the one under way.
MayRequestAgain(r) ==
  LET h == ticket[r].hold IN
  /\ hold[h].state = "open"
  /\ hold[h].class # "ops"
  /\ ticket[r].requestedBy \in active
  /\ ticket[r].status = "pending"

\* request_employee_hold_release: its refusals.
MayRequest(r) ==
  LET h == ticket[r].hold IN
  /\ hold[h].state = "open"
  /\ hold[h].class # "ops"
  /\ ticket[r].requestedBy \in active
  /\ hold[h].ticket # NoRequest => ticket[hold[h].ticket].status \notin {"pending", "approved"}
  /\ ticket[r].status = "pending"

\* The RPC commits; its answer arrives, or is lost and the call takes it for a failure.
RequestRelease(r) ==
  LET h == ticket[r].hold IN
  /\ requestPc[r] = "filed"
  /\ MayRequest(r)
  /\ hold' = [hold EXCEPT ![h].requestedBy = ticket[r].requestedBy, ![h].ticket = r]
  /\ requestPc' \in {[requestPc EXCEPT ![r] = "done"], [requestPc EXCEPT ![r] = "expiring"]}
  /\ UNCHANGED <<issued, current, teamVars, ticket, clickVars, workVars>>

RequestFails(r) ==
  /\ requestPc[r] = "filed"
  /\ requestPc' = [requestPc EXCEPT ![r] = "expiring"]
  /\ UNCHANGED <<holdVars, teamVars, ticket, clickVars, workVars>>

\* expireTicket: "where status = pending"; a failure is swallowed.
ExpireTicket(r) ==
  /\ requestPc[r] = "expiring"
  /\ requestPc' = [requestPc EXCEPT ![r] = "done"]
  /\ \/ ticket[r].status = "pending" /\ ticket' = [ticket EXCEPT ![r].status = "expired"]
     \/ UNCHANGED ticket
  /\ UNCHANGED <<holdVars, teamVars, clickVars, workVars>>

\* Rejection and revision request go through the ordinary decision of a pending ticket
\* (its approval is refused there: hold_release_web_only).
RejectTicket(r) ==
  /\ ticket[r].status = "pending"
  /\ ticket' = [ticket EXCEPT ![r].status = "rejected"]
  /\ UNCHANGED <<holdVars, teamVars, requestPc, clickVars, workVars>>

(***************************************************************************)
(* approveHoldRelease                                                      *)
(***************************************************************************)
\* store.getHold: only an open hold is found.
ReadHoldToRelease(c, m, h) ==
  /\ clickPc[c] = "idle"
  /\ m \in active
  /\ hold[h].state = "open"
  /\ hold[h].class # "ops"
  /\ hold[h].ticket # NoRequest
  /\ clickPc' = [clickPc EXCEPT ![c] = "holdRead"]
  /\ click' = [click EXCEPT ![c] = [NothingSeen EXCEPT !.member = m, !.hold = h,
                                                       !.ticket = hold[h].ticket]]
  /\ UNCHANGED <<holdVars, teamVars, requestVars, workVars>>

ReadTicket(c) ==
  LET t == ticket[click[c].ticket] IN
  /\ clickPc[c] = "holdRead"
  /\ clickPc' = [clickPc EXCEPT ![c] = "ticketRead"]
  /\ click' = [click EXCEPT ![c].status = t.status, ![c].resolvedBy = t.resolvedBy]
  /\ UNCHANGED <<holdVars, teamVars, requestVars, workVars>>

\* The approvers are read, the requester refused; a ticket this member has already
\* approved is resumed, a pending one decided, any other refused.
CheckApprover(c) ==
  LET me == click[c].member
      t == ticket[click[c].ticket]
      allowed == me \in Eligible /\ (me = t.requestedBy => t.single)
      resumed == click[c].status = "approved" /\ click[c].resolvedBy = me
  IN
  /\ clickPc[c] = "ticketRead"
  /\ clickPc' = [clickPc EXCEPT ![c] =
       IF allowed /\ resumed THEN "releasing"
       ELSE IF allowed /\ click[c].status = "pending" THEN "deciding"
       ELSE "done"]
  /\ UNCHANGED <<holdVars, teamVars, requestVars, click, workVars>>

\* Seeded fault: the update does not look at the status again.
StillPendingUnchecked(c) == TRUE

\* setTicketDecision's "where status = pending".
StillPending(c) == ticket[click[c].ticket].status = "pending"

\* setTicketDecision, pending -> approved.
DecideTicket(c) ==
  LET r == click[c].ticket IN
  /\ clickPc[c] = "deciding"
  /\ StillPending(c)
  /\ ticket' = [ticket EXCEPT ![r].status = "approved", ![r].resolvedBy = click[c].member]
  /\ clickPc' = [clickPc EXCEPT ![c] = "releasing"]
  /\ UNCHANGED <<holdVars, teamVars, requestPc, click, workVars>>

\* It changes no row, or fails.
DecideFails(c) ==
  /\ clickPc[c] = "deciding"
  /\ clickPc' = [clickPc EXCEPT ![c] = "done"]
  /\ UNCHANGED <<holdVars, teamVars, requestVars, click, workVars>>

\* Seeded fault: the requester's own decision is enough.
MayReleaseSelf(h) ==
  LET t == ticket[hold[h].ticket] IN
  /\ hold[h].state = "open"
  /\ hold[h].class # "ops"
  /\ hold[h].ticket # NoRequest
  /\ t.status = "approved"
  /\ t.resolvedBy \in Eligible
  /\ t.requestedBy \in active

\* release_employee_hold: its refusals.
MayRelease(h) ==
  LET t == ticket[hold[h].ticket] IN
  /\ hold[h].state = "open"
  /\ hold[h].class # "ops"
  /\ hold[h].ticket # NoRequest
  /\ t.status = "approved"
  /\ t.resolvedBy \in Eligible
  /\ t.requestedBy \in active
  /\ t.resolvedBy = t.requestedBy =>
       Cardinality(Eligible) = 1 /\ t.single /\ hold[h].class # "detector"

\* Seeded fault: released_by is not written.
ReleasedAnonymously(h) == [hold[h] EXCEPT !.state = "released"]

ReleasedRow(h) ==
  [hold[h] EXCEPT !.state = "released", !.releasedBy = ticket[hold[h].ticket].resolvedBy]

\* release_employee_hold commits; its answer arrives, or is lost.
ReleaseHold(c) ==
  LET h == click[c].hold
      s == hold[h].scope
  IN
  /\ clickPc[c] = "releasing"
  /\ MayRelease(h)
  /\ hold' = [hold EXCEPT ![h] = ReleasedRow(h)]
  /\ current' = IF current[s] = h THEN [current EXCEPT ![s] = 0] ELSE current
  /\ closedTag' = [w \in Work |-> closedTag[w] \/ tag[w] = h]
  /\ clickPc' \in {[clickPc EXCEPT ![c] = "done"], [clickPc EXCEPT ![c] = "failed"]}
  /\ UNCHANGED <<issued, teamVars, requestVars, click, work, tag>>

\* It refuses, its transaction rolls back (the audit row cannot be written), or it
\* never arrives.
ReleaseFails(c) ==
  /\ clickPc[c] = "releasing"
  /\ clickPc' = [clickPc EXCEPT ![c] = "failed"]
  /\ UNCHANGED <<holdVars, teamVars, requestVars, click, workVars>>

\* The catch block reads the hold again: found open, it will put the ticket back;
\* not found, or not readable, it will not.
RereadHold(c) ==
  /\ clickPc[c] = "failed"
  /\ clickPc' \in {[clickPc EXCEPT ![c] = "unreverted"]}
       \cup (IF hold[click[c].hold].state = "open"
             THEN {[clickPc EXCEPT ![c] = "reverting"]} ELSE {})
  /\ UNCHANGED <<holdVars, teamVars, requestVars, click, workVars>>

\* Seeded fault: the failed call leaves the ticket approved.
LeaveTicket(c) ==
  /\ clickPc[c] = "reverting"
  /\ clickPc' = [clickPc EXCEPT ![c] = "done"]
  /\ UNCHANGED <<holdVars, teamVars, requestVars, click, workVars>>

\* setTicketDecision, approved -> pending, "where status = approved and resolved_by = me".
RevertTicket(c) ==
  LET r == click[c].ticket IN
  /\ clickPc[c] = "reverting"
  /\ clickPc' = [clickPc EXCEPT ![c] = "done"]
  /\ IF ticket[r].status = "approved" /\ ticket[r].resolvedBy = click[c].member
     THEN ticket' = [ticket EXCEPT ![r].status = "pending", ![r].resolvedBy = NoMember]
     ELSE UNCHANGED ticket
  /\ UNCHANGED <<holdVars, teamVars, requestPc, click, workVars>>

\* ... or the update fails, which is swallowed.
RevertFails(c) ==
  /\ clickPc[c] = "reverting"
  /\ clickPc' = [clickPc EXCEPT ![c] = "unreverted"]
  /\ UNCHANGED <<holdVars, teamVars, requestVars, click, workVars>>

\* The serverless function is killed between two awaits.
CrashClick(c) ==
  /\ clickPc[c] \in {"deciding", "releasing", "failed", "reverting"}
  /\ clickPc' = [clickPc EXCEPT ![c] = "crashed"]
  /\ UNCHANGED <<holdVars, teamVars, requestVars, click, workVars>>

(***************************************************************************)
(* Specification                                                           *)
(***************************************************************************)
WorkStep(w) == FileWork(w) \/ FinishWork(w)
TeamStep(m) == (\E x \in Role : ChangeRole(m, x)) \/ Deactivate(m)
RequestStep(r) ==
  \/ FileTicket(r) \/ RequestRelease(r) \/ RequestFails(r) \/ ExpireTicket(r)
ClickStep(c) ==
  \/ ReadTicket(c) \/ CheckApprover(c) \/ DecideTicket(c) \/ DecideFails(c)
  \/ ReleaseHold(c) \/ ReleaseFails(c) \/ RereadHold(c) \/ RevertTicket(c) \/ RevertFails(c)

Next ==
  \/ \E w \in Work : WorkStep(w)
  \/ \E m \in Member : TeamStep(m)
  \/ \E s \in Scope, k \in Class : (k = "leave" => s # OrgScope) /\ StartHold(s, k)
  \/ \E r \in Request :
       (\E m \in Member, h \in HoldId : ReadHold(r, m, h)) \/ RequestStep(r) \/ RejectTicket(r)
  \/ \E c \in Click :
       (\E m \in Member, h \in HoldId : ReadHoldToRelease(c, m, h)) \/ ClickStep(c) \/ CrashClick(c)

Spec == Init /\ [][Next]_vars

\* Every await of a click settles: a click that is not killed goes on to its end.
FairSpec == Spec /\ \A c \in Click : WF_vars(ClickStep(c))

(***************************************************************************)
(* Properties                                                              *)
(***************************************************************************)
\* Every variable keeps to the values the schema and the code give it, a released row to
\* employee_holds_release_shape.
TypeOK ==
  /\ hold \in [HoldId -> HoldRow]
  /\ \A h \in HoldId : hold[h].state = "released" =>
       hold[h].releasedBy # NoMember /\ hold[h].requestedBy # NoMember /\ hold[h].ticket # NoRequest
  /\ issued \in 0..HoldLimit
  /\ current \in [Scope -> 0..HoldLimit]
  /\ role \in [Member -> Role]
  /\ active \subseteq Member
  /\ changes \in 0..TeamLimit
  /\ ticket \in [Request -> ReleaseTicket]
  /\ requestPc \in [Request -> RequestPc]
  /\ clickPc \in [Click -> ClickPc]
  /\ click \in [Click -> Seen]
  /\ work \in [Work -> WorkState]
  /\ tag \in [Work -> 0..HoldLimit]
  /\ closedTag \in [Work -> BOOLEAN]

\* The history and the pointers agree: the open rows are exactly the ones the employee
\* and the organisation point to, whatever upgrades and releases raced.
PointerIsOpenHold ==
  \A h \in HoldId :
    hold[h].state = "open" <=> \E s \in Scope : current[s] = h /\ hold[h].scope = s

\* A ticket held but not closed names a hold in force, after any sequence of stops of
\* the employee and of its organisation, upgrades and releases: none is left behind by a
\* hold that nobody can release any more.
OpenTagNamesOpenHold ==
  \A w \in Work : tag[w] # 0 /\ ~closedTag[w] => hold[tag[w]].state = "open"

\* The two-person rule, over every race of requests, clicks, retries and team changes:
\* whoever releases is an approver at that moment, and not the requester, unless there is
\* no other approver at that moment and no detector made the stop.
TwoPeopleRelease ==
  [][\A h \in HoldId :
       hold[h].state # "released" /\ hold'[h].state = "released" =>
         LET by == hold'[h].releasedBy IN
         /\ by \in Eligible
         /\ by # hold[h].requestedBy \/ (Eligible = {by} /\ hold[h].class # "detector")]_vars

\* A stop only gets stronger until it is released, and what ops stopped stays stopped.
StopNeverWeakens ==
  [][\A s \in Scope : current[s] # 0 =>
       \/ current'[s] = current[s]
       \/ current'[s] = 0 /\ hold[current[s]].class # "ops" /\ hold'[current[s]].state = "released"
       \/ current'[s] # 0 /\ Rank(hold'[current'[s]].class) > Rank(hold[current[s]].class)]_vars

\* A refused request stays refused: no click that read the ticket earlier revives it.
RefusalStands ==
  [][\A r \in Request :
       ticket[r].status \in {"rejected", "expired"} => ticket'[r].status = ticket[r].status]_vars

\* A request that is pending or approved is not replaced by another one.
RequestNotReplaced ==
  [][\A h \in HoldId :
       hold[h].ticket # NoRequest /\ ticket[hold[h].ticket].status \in {"pending", "approved"}
       => hold'[h].ticket = hold[h].ticket]_vars

\* Where a click that has approved a ticket can be.
UnderWay == {"releasing", "failed", "reverting", "crashed", "unreverted"}

\* An approved request of a hold still in force has a click of the member who approved it
\* that is at work on it, was killed, or failed to put the ticket back: there is no other way
\* for a hold to be left with a decided request (approveHoldRelease, its resumption and its
\* catch block).
ReleaseHasItsCall ==
  \A r \in Request :
    ticket[r].status = "approved" /\ hold[ticket[r].hold].state = "open" =>
      \E c \in Click : /\ click[c].ticket = r /\ click[c].member = ticket[r].resolvedBy
                       /\ clickPc[c] \in UnderWay

\* An approved release does not stay undone: the hold closes or the ticket can be decided
\* again, unless the click was killed, or its re-read or its revert failed.
ReleaseSettles ==
  \A r \in Request :
    ticket[r].status = "approved" /\ hold[ticket[r].hold].state = "open" ~>
      \/ ticket[r].status # "approved"
      \/ hold[ticket[r].hold].state # "open"
      \/ \E c \in Click : click[c].ticket = r /\ clickPc[c] \in {"crashed", "unreverted"}

\* lib/safety/hold-actions.ts, approveHoldRelease: "If a concurrent click already released
\* it ... the approved ticket stays as the record of that release".
ReleaseRecordStays ==
  \A h \in HoldId : hold[h].state = "released" => ticket[hold[h].ticket].status = "approved"

(***************************************************************************)
(* Refinement                                                              *)
(***************************************************************************)
\* The stop in force as TwoPersonStop sees it: its rank, and who asked for its release.
Strength == [s \in Scope |-> IF current[s] = 0 THEN 0 ELSE Rank(hold[current[s]].class)]
Asked == [s \in Scope |-> IF current[s] = 0 THEN NoMember ELSE hold[current[s]].requestedBy]
Signed == [h \in HoldId |-> hold[h].releasedBy]

TwoPerson == INSTANCE TwoPersonStop WITH
  Entry <- HoldId, strength <- Strength, asked <- Asked,
  members <- active, approvers <- Eligible, record <- Signed

\* Whatever requests, clicks, upgrades and team changes do to each other, what the rows say
\* is a stop that gets only stronger until two people, or the sole approver, release it, and
\* the organisation is never left without an approver.
ImplementsTwoPersonStop == TwoPerson!Spec
=============================================================================
