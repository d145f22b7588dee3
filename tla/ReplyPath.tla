----------------------------- MODULE ReplyPath ------------------------------
(***************************************************************************)
(* How the replies of several AI employees reach one conversation: each    *)
(* send takes the thread's lease, checks that the thread has not moved on  *)
(* since it was read, claims the send in the ledger of the duplicate guard *)
(* (v2), posts, settles the ledger, and records the post for the next      *)
(* one's check. Between them the pending approvals of the same text are    *)
(* closed, after a post and after a newer one is filed.                    *)
(*                                                                         *)
(* A call is a direct gateway invoke or an approval that is fulfilled, run *)
(* again when it stopped before the send. Each SQL function, and the post, *)
(* is one step. Positions in the thread are numbers; time is abstract: a   *)
(* lease and a row of the ledger age by actions of their own, and whether  *)
(* a job began at most ten minutes ago is left open.                       *)
(***************************************************************************)
EXTENDS Integers

CONSTANTS
  Direct,      \* direct sends
  Approval,    \* approved sends
  Employee,    \* AI employees of one organisation
  Job,         \* jobs
  Body,        \* texts; two of the same or a similar text are one body
  LongBody,    \* those that are long enough to be blocked across employees
  Abouts,      \* what the calls may be about: whose each is, of which job, its body
  PostLimit,   \* bound: posts that the provider takes
  LossLimit    \* bound: calls killed, leases that lapse, stores that fail

Call == Direct \cup Approval
NoJob == "none"

ASSUME ReplyConstants ==
  /\ Direct \cap Approval = {}
  /\ LongBody \subseteq Body
  /\ Abouts \subseteq [Call -> [employee : Employee, job : Job \cup {NoJob}, body : Body]]
  /\ PostLimit \in Nat
  /\ LossLimit \in Nat

VARIABLES
  req,         \* what each call is about, and the status of an approval
  run,         \* where each call stands, and the outcome of its post
  lease,       \* thread_send_leases: the call it was given to, and whether it still runs
  selfPost,    \* thread_self_posts: the latest recorded post of each employee
  ledger,      \* comm_reply_send_fingerprints: the row of each call
  outside,     \* <<c, r>>: the row of r is older than the window c is judged by
  clock,       \* position of the last message an employee got into the thread
  posted,      \* position of the last post of each call that the provider took
  confirmed,   \* calls whose uncertain post an AI has declared absent
  doubtful,    \* calls that were killed, lost their lease, are not recorded, or have an
               \* unknown outcome
  losses,      \* faults so far
  filing,      \* where the call that files an approval stands
  toClose,     \* <<why, c, a>>: c listed a as pending and has yet to close it
  before,      \* <<a, b>>: approval a was filed before b
  crossed      \* history: <<a, b>>, the call that filed a had yet to list when b was filed

provider == <<clock, posted>>
ghosts == <<confirmed, doubtful>>
tables == <<selfPost, ledger, outside>>
sweeps == <<filing, toClose, before, crossed>>
replyVars == <<req, run, lease, tables, provider, ghosts, losses, sweeps>>

(***************************************************************************)
(* Values                                                                  *)
(***************************************************************************)
Unread == -1
NoCall == "nobody"

Request == [employee : Employee, job : Job \cup {NoJob}, body : Body, read : Nat \cup {Unread},
            status : {"absent", "direct", "pending", "approved", "superseded", "expired"}]
Running == {"checking", "cleared", "claimed", "posted", "settled", "closed", "recorded"}
Outcome == {"none", "ok", "unknown", "not_sent"}
SelfPost == [at : Nat, job : Job \cup {NoJob}]
\* Why pending approvals are closed: newer_approval_requested, newer_reply_sent.
Sweep == {"filed", "sent"}

ReplyInit ==
  /\ \E about \in Abouts :
       req = [c \in Call |-> [employee |-> about[c].employee, job |-> about[c].job,
                              body |-> about[c].body, read |-> Unread, status |-> "absent"]]
  /\ run = [c \in Call |-> [pc |-> "idle", outcome |-> "none"]]
  /\ lease = [call |-> NoCall, live |-> FALSE]
  /\ selfPost = [e \in Employee |-> [at |-> 0, job |-> NoJob]]
  /\ ledger = [c \in Call |-> "none"]
  /\ outside = {}
  /\ clock = 0
  /\ posted = [c \in Call |-> 0]
  /\ confirmed = {}
  /\ doubtful = {}
  /\ losses = 0
  /\ filing = [a \in Approval |-> "idle"]
  /\ toClose = {}
  /\ before = {}
  /\ crossed = {}

IsRunning(c) == c \in Call /\ run[c].pc \in Running
SameJob(c, d) ==
  req[c].employee = req[d].employee /\ req[c].job = req[d].job /\ req[c].job # NoJob

\* A stop before the send: a direct call ends, an approval may be run again.
Stopped(c) == [run EXCEPT ![c] = [pc |-> IF c \in Direct THEN "done" ELSE "ready",
                                  outcome |-> "none"]]
Ended(c) == [run EXCEPT ![c] = [pc |-> "done", outcome |-> "none"]]

\* release_thread_send_lease: one's own only.
Released(c) == IF lease.call = c THEN [call |-> NoCall, live |-> FALSE] ELSE lease

(***************************************************************************)
(* Requests and approvals                                                  *)
(***************************************************************************)
\* A direct request arrives. The employee has read the thread through "read", if it says so.
Receive(c, read) ==
  /\ c \in Direct /\ req[c].status = "absent"
  /\ req' = [req EXCEPT ![c].read = read, ![c].status = "direct"]
  /\ run' = [run EXCEPT ![c].pc = "ready"]
  /\ UNCHANGED <<lease, tables, provider, ghosts, losses, sweeps>>

\* createApproval: the ticket is there for everybody, the call that filed it goes on.
QueueApproval(c, read) ==
  /\ c \in Approval /\ req[c].status = "absent"
  /\ req' = [req EXCEPT ![c].read = read, ![c].status = "pending"]
  /\ filing' = [filing EXCEPT ![c] = "filed"]
  /\ before' = before \cup ({a \in Approval : req[a].status # "absent"} \X {c})
  /\ crossed' = crossed \cup ({a \in Approval : filing[a] = "filed"} \X {c})
  /\ UNCHANGED <<run, lease, tables, provider, ghosts, losses, toClose>>

Approve(c) ==
  /\ req[c].status = "pending"
  /\ req' = [req EXCEPT ![c].status = "approved"]
  /\ run' = [run EXCEPT ![c].pc = "ready"]
  /\ UNCHANGED <<lease, tables, provider, ghosts, losses, sweeps>>

\* expireStaleConversationApprovals
Expire(c) ==
  /\ req[c].status = "pending"
  /\ req' = [req EXCEPT ![c].status = "expired"]
  /\ UNCHANGED <<run, lease, tables, provider, ghosts, losses, sweeps>>

\* closeApprovalWithoutSend from "approved".
CloseApproved(c, s) ==
  IF req[c].status = "approved" THEN [req EXCEPT ![c].status = s] ELSE req

(***************************************************************************)
(* Closing the pending approvals of one body                               *)
(***************************************************************************)
\* Seeded fault: excludeApprovalId is forgotten.
PendingAndItself(c) ==
  {a \in Approval : /\ req[a].status = "pending"
                    /\ req[a].employee = req[c].employee /\ req[a].body = req[c].body}

\* The list of supersedePendingConversationApprovals: pending approvals of the same employee
\* with the same body, older or newer.
OtherPending(c) ==
  {a \in Approval \ {c} : /\ req[a].status = "pending"
                          /\ req[a].employee = req[c].employee /\ req[a].body = req[c].body}

Listed(why, c) == {why} \X {c} \X OtherPending(c)

\* supersedeOlderOnNewApproval lists them after the ticket is filed; a list that fails closes
\* nothing.
ListOnFiling(c) ==
  /\ c \in Approval /\ filing[c] = "filed"
  /\ filing' = [filing EXCEPT ![c] = "listed"]
  /\ toClose' \in {toClose, toClose \cup Listed("filed", c)}
  /\ UNCHANGED <<req, run, lease, tables, provider, ghosts, losses, before, crossed>>

\* finishDirectCommReplySend, fulfillDedupFinish: the same after a post that was or may have
\* been sent.
ListAfterSend(c) ==
  /\ run[c].pc = "settled"
  /\ run' = [run EXCEPT ![c].pc = "closed"]
  /\ toClose' \in {toClose, toClose \cup Listed("sent", c)}
  /\ UNCHANGED <<req, lease, tables, provider, ghosts, losses, filing, before, crossed>>

\* closeApprovalWithoutSend from "pending", newest first: whatever became of the ticket
\* meanwhile stays, and a close that fails is passed over.
CloseListed(why, c, a) ==
  /\ <<why, c, a>> \in toClose
  /\ \A b \in Approval : <<why, c, b>> \in toClose => <<a, b>> \notin before
  /\ toClose' = toClose \ {<<why, c, a>>}
  /\ \/ UNCHANGED req
     \/ req[a].status = "pending" /\ req' = [req EXCEPT ![a].status = "superseded"]
  /\ UNCHANGED <<run, lease, tables, provider, ghosts, losses, filing, before, crossed>>

\* Nothing is left of what c listed after its post.
Swept(c) == \A a \in Approval : <<"sent", c, a>> \notin toClose

(***************************************************************************)
(* The thread's lease and the moved-on check                               *)
(***************************************************************************)
\* The lease is for its own job again, which has a recorded post in the thread.
Reenters(c) ==
  /\ lease.call # NoCall
  /\ SameJob(c, lease.call)
  /\ selfPost[req[c].employee].job = req[c].job

\* acquire_thread_send_lease; whoever still believes to hold it is not told.
Acquire(c) ==
  /\ run[c].pc = "ready"
  /\ ~lease.live \/ Reenters(c)
  /\ lease' = [call |-> c, live |-> TRUE]
  /\ run' = [run EXCEPT ![c].pc = "checking"]
  /\ doubtful' = IF IsRunning(lease.call) THEN doubtful \cup {lease.call} ELSE doubtful
  /\ UNCHANGED <<req, tables, provider, confirmed, losses, sweeps>>

\* Busy or unavailable: an approval stays as it is.
TurnedAway(c) ==
  /\ run[c].pc = "ready" /\ c \in Direct
  /\ run' = Stopped(c)
  /\ UNCHANGED <<req, lease, tables, provider, ghosts, losses, sweeps>>

\* Seeded fault: only one's own posts are looked at.
OwnPostsOnly(c, e) == selfPost[e].at > req[c].read /\ e = req[c].employee

\* A recorded post of e after the read point.
PostedSince(c, e) == selfPost[e].at > req[c].read

\* readLatestAiPostAfter, but for a post of one's own job while that is recent.
MovedOn(c, recent) ==
  /\ req[c].read # Unread
  /\ \E e \in Employee :
       /\ PostedSince(c, e)
       /\ ~(recent /\ e = req[c].employee /\ req[c].job # NoJob /\ selfPost[e].job = req[c].job)

FindMovedOn(c) ==
  /\ run[c].pc = "checking"
  /\ \E recent \in BOOLEAN : MovedOn(c, recent)
  /\ lease' = Released(c)
  /\ req' = CloseApproved(c, "superseded")
  /\ run' = Ended(c)
  /\ UNCHANGED <<tables, provider, ghosts, losses, sweeps>>

FindCurrent(c) ==
  /\ run[c].pc = "checking"
  /\ \E recent \in BOOLEAN : ~MovedOn(c, recent)
  /\ run' = [run EXCEPT ![c].pc = "cleared"]
  /\ UNCHANGED <<req, lease, tables, provider, ghosts, losses, sweeps>>

\* A read of the check, or the ledger, fails.
Unavailable(c) ==
  /\ run[c].pc \in {"checking", "cleared"}
  /\ lease' = Released(c)
  /\ run' = Stopped(c)
  /\ UNCHANGED <<req, tables, provider, ghosts, losses, sweeps>>

(***************************************************************************)
(* The ledger                                                              *)
(***************************************************************************)
\* The rows of r stop c: the same body, of one's own job at any age, of one's own or, if it
\* is long, of anybody in the window. An approval meets its own row in the window.
Matches(c, r) ==
  /\ req[c].body = req[r].body
  /\ \/ SameJob(c, r)
     \/ /\ req[c].employee = req[r].employee \/ req[c].body \in LongBody
        /\ <<c, r>> \notin outside

\* Seeded fault: a row without an outcome does not count.
SettledRows(c) == {r \in Call : ledger[r] \in {"sent", "uncertain"} /\ Matches(c, r)}

\* claim_outbound_send_v2, under its advisory lock.
StoppingRows(c) == {r \in Call : ledger[r] # "none" /\ Matches(c, r)}

ClaimSend(c) ==
  /\ run[c].pc = "cleared"
  /\ StoppingRows(c) = {}
  /\ ledger' = [ledger EXCEPT ![c] = "reserved"]
  /\ outside' = {x \in outside : x[2] # c}
  /\ run' = [run EXCEPT ![c].pc = "claimed"]
  /\ UNCHANGED <<req, lease, selfPost, provider, ghosts, losses, sweeps>>

\* A duplicate, or replied since: an approval closes, but not for an uncertain row.
FindDuplicate(c) ==
  /\ run[c].pc = "cleared"
  /\ \E r \in StoppingRows(c) :
       IF ledger[r] = "uncertain"
       THEN run' = Stopped(c) /\ UNCHANGED req
       ELSE run' = Ended(c) /\ req' = CloseApproved(c, "superseded")
  /\ lease' = Released(c)
  /\ UNCHANGED <<tables, provider, ghosts, losses, sweeps>>

\* fulfillDedupGate: the approval is older than its time to live.
FindExpired(c) ==
  /\ run[c].pc = "cleared" /\ c \in Approval
  /\ req' = CloseApproved(c, "expired")
  /\ lease' = Released(c)
  /\ run' = Ended(c)
  /\ UNCHANGED <<tables, provider, ghosts, losses, sweeps>>

\* release_uncertain_outbound_send: an AI says that the post of r did not arrive.
ConfirmAbsent(r) ==
  /\ ledger[r] = "uncertain"
  /\ ledger' = [ledger EXCEPT ![r] = "none"]
  /\ confirmed' = confirmed \cup {r}
  /\ UNCHANGED <<req, run, lease, selfPost, outside, provider, doubtful, losses, sweeps>>

\* The row leaves the window of those that have yet to come; an approval's window reaches
\* back from its receipt. No call runs for as long as a window.
AgeOut(r) ==
  LET judged == {c \in Call : c \in Direct \/ req[c].status = "absent"} \X {r} IN
  /\ ledger[r] # "none" /\ ~IsRunning(r)
  /\ ~(judged \subseteq outside)
  /\ outside' = outside \cup judged
  /\ UNCHANGED <<req, run, lease, selfPost, ledger, provider, ghosts, losses, sweeps>>

(***************************************************************************)
(* The post and what follows                                               *)
(***************************************************************************)
\* postConversationMessage: taken, not sent, or nobody knows. The lease is not asked again.
Post(c) ==
  /\ run[c].pc = "claimed"
  /\ \E outcome \in Outcome \ {"none"} :
       /\ run' = [run EXCEPT ![c] = [pc |-> "posted", outcome |-> outcome]]
       /\ doubtful' = IF outcome = "unknown" THEN doubtful \cup {c} ELSE doubtful
       /\ \/ /\ outcome # "not_sent" /\ clock < PostLimit
             /\ clock' = clock + 1
             /\ posted' = [posted EXCEPT ![c] = clock + 1]
          \/ outcome # "ok" /\ UNCHANGED provider
  /\ UNCHANGED <<req, lease, tables, confirmed, losses, sweeps>>

\* A throw before the post.
ThrowBeforePost(c) ==
  /\ run[c].pc = "claimed" /\ c \in Approval
  /\ run' = [run EXCEPT ![c] = [pc |-> "posted", outcome |-> "not_sent"]]
  /\ UNCHANGED <<req, lease, tables, provider, ghosts, losses, sweeps>>

\* Seeded fault: a send that failed keeps its row.
FailedKept(outcome) == IF outcome = "ok" THEN "sent" ELSE IF outcome = "unknown" THEN "uncertain" ELSE "reserved"

\* ledgerOutcomeAfterPost, failedPostOutcome and what finish_comm_reply_send makes of it.
RowAfter(outcome) == IF outcome = "ok" THEN "sent" ELSE IF outcome = "unknown" THEN "uncertain" ELSE "none"

Settle(c) ==
  /\ run[c].pc = "posted"
  /\ ledger' = [ledger EXCEPT ![c] = IF @ = "reserved" THEN RowAfter(run[c].outcome) ELSE @]
  /\ run' = [run EXCEPT ![c].pc = IF run[c].outcome = "not_sent" THEN "closed" ELSE "settled"]
  /\ UNCHANGED <<req, lease, selfPost, outside, provider, ghosts, losses, sweeps>>

\* record_thread_self_post: only a post that went out, only forward.
Record(c) ==
  LET e == req[c].employee IN
  /\ run[c].pc = "closed" /\ Swept(c)
  /\ run' = [run EXCEPT ![c].pc = "recorded"]
  /\ selfPost' = IF run[c].outcome = "ok" /\ posted[c] > selfPost[e].at
                 THEN [selfPost EXCEPT ![e] = [at |-> posted[c], job |-> req[c].job]]
                 ELSE selfPost
  /\ UNCHANGED <<req, lease, ledger, outside, provider, ghosts, losses, sweeps>>

Finish(c) ==
  /\ run[c].pc = "recorded"
  /\ lease' = Released(c)
  /\ run' = IF run[c].outcome = "ok" THEN Ended(c) ELSE Stopped(c)
  /\ UNCHANGED <<req, tables, provider, ghosts, losses, sweeps>>

(***************************************************************************)
(* Faults                                                                  *)
(***************************************************************************)
Lose(cs) ==
  /\ losses < LossLimit
  /\ losses' = losses + 1
  /\ doubtful' = doubtful \cup cs

\* The ledger is not settled, or the post not recorded; the call goes on.
StoreFails(c) ==
  /\ run[c].pc \in {"posted", "closed"} /\ Swept(c)
  /\ Lose({c})
  /\ run' = [run EXCEPT ![c].pc = IF run[c].pc = "closed" THEN "recorded"
                                  ELSE IF run[c].outcome = "not_sent" THEN "closed" ELSE "settled"]
  /\ UNCHANGED <<req, lease, tables, provider, confirmed, sweeps>>

\* The function is killed; an approval is run again once its execution claim is stale.
Die(c) ==
  /\ IsRunning(c)
  /\ Lose({c})
  /\ run' = Stopped(c)
  /\ toClose' = toClose \ ({"sent"} \X {c} \X Approval)
  /\ UNCHANGED <<req, lease, tables, provider, confirmed, filing, before, crossed>>

\* expires_at passes.
LapseLease ==
  /\ lease.live
  /\ lease' = [lease EXCEPT !.live = FALSE]
  /\ IF IsRunning(lease.call) THEN Lose({lease.call}) ELSE UNCHANGED <<doubtful, losses>>
  /\ UNCHANGED <<req, run, tables, provider, confirmed, sweeps>>

(***************************************************************************)
(* Specification                                                           *)
(***************************************************************************)
RequestStep(c) ==
  \/ \E read \in 0..clock \cup {Unread} : Receive(c, read) \/ QueueApproval(c, read)
  \/ Approve(c) \/ Expire(c) \/ ListOnFiling(c)
SendStep(c) ==
  \/ Acquire(c) \/ TurnedAway(c) \/ FindMovedOn(c) \/ FindCurrent(c) \/ Unavailable(c)
  \/ ClaimSend(c) \/ FindDuplicate(c) \/ FindExpired(c)
  \/ Post(c) \/ ThrowBeforePost(c) \/ Settle(c) \/ ListAfterSend(c) \/ Record(c) \/ Finish(c)

ReplyNext ==
  \/ \E c \in Call : RequestStep(c) \/ SendStep(c)
                     \/ ConfirmAbsent(c) \/ AgeOut(c) \/ StoreFails(c) \/ Die(c)
                     \/ \E why \in Sweep, a \in Approval : CloseListed(why, c, a)
  \/ LapseLease

ReplySpec == ReplyInit /\ [][ReplyNext]_replyVars

(***************************************************************************)
(* Properties                                                              *)
(***************************************************************************)
\* Every variable keeps to the values the schema and the code give it.
ReplyTypeOK ==
  /\ req \in [Call -> Request]
  /\ run \in [Call -> [pc : Running \cup {"idle", "ready", "done"}, outcome : Outcome]]
  /\ lease \in [call : Call \cup {NoCall}, live : BOOLEAN]
  /\ selfPost \in [Employee -> SelfPost]
  /\ ledger \in [Call -> {"none", "reserved", "sent", "uncertain"}]
  /\ outside \subseteq Call \X Call
  /\ clock \in Nat /\ posted \in [Call -> Nat]
  /\ confirmed \subseteq Call /\ doubtful \subseteq Call
  /\ losses \in 0..LossLimit
  /\ filing \in [Approval -> {"idle", "filed", "listed"}]
  /\ toClose \subseteq Sweep \X Call \X Approval
  /\ before \subseteq Approval \X Approval /\ crossed \subseteq Approval \X Approval

\* A body the conversation already got is not posted again, by whatever lease lapsed, call
\* died, answer was lost or approval was run again, unless the row is outside the window (of
\* another job) or an AI declared that post absent.
NoDuplicateReply ==
  [][\A c, r \in Call :
       posted'[c] # posted[c] /\ posted[r] # 0 /\ Matches(c, r) => r \in confirmed]_replyVars

\* A call that holds the thread's lease posts nothing over a message of another AI employee
\* that came after what it read, unless that one was never recorded or lost its lease.
NoStaleReply ==
  [][\A c, d \in Call :
       /\ posted'[c] # posted[c] /\ lease = [call |-> c, live |-> TRUE] /\ req[c].read # Unread
       /\ posted[d] # 0 /\ req[d].employee # req[c].employee
       => posted[d] <= req[c].read \/ d \in doubtful]_replyVars

\* Why a may be closed for d: d is a message that came or may have come, with the body of a or
\* after its read point.
Answered(a, d) ==
  /\ req[d].body = req[a].body \/ (req[a].read # Unread /\ posted[d] > req[a].read)
  /\ posted[d] # 0 \/ d \in doubtful

\* Or d is an approval of the same employee and body that was filed after a; or before a, but
\* had yet to list the pending ones when a came.
Replaced(a, d) ==
  /\ d \in Approval \ {a}
  /\ req[d].employee = req[a].employee /\ req[d].body = req[a].body
  /\ <<a, d>> \in before \/ <<d, a>> \in crossed

\* An approval is closed as superseded only for a message or for a newer approval; for an older
\* one only if the two filings overlapped. No ticket closes for itself, for another matter, or
\* for a send that is known to have failed, whatever was listed before the ticket changed.
SupersededForAReason ==
  \A a \in Approval :
    req[a].status = "superseded" => \E d \in Call : Answered(a, d) \/ Replaced(a, d)
=============================================================================
