-------------------------- MODULE ReplyPathProofs ---------------------------
(***************************************************************************)
(* Proofs about ReplyPath, for any number of direct and approved sends,    *)
(* employees, jobs, texts, posts and faults.                               *)
(***************************************************************************)
EXTENDS ReplyPath, TLAPS

(***************************************************************************)
(* The inductive invariant                                                 *)
(***************************************************************************)
\* Two calls that would stop one another, were neither's row outside the other's window.
Alike(c, r) ==
  /\ req[c].body = req[r].body
  /\ SameJob(c, r) \/ req[c].employee = req[r].employee \/ req[c].body \in LongBody

\* Where a call stands by its status.
Stands(c) ==
  /\ c \in Direct => req[c].status \in {"absent", "direct"}
  /\ req[c].status \in {"absent", "pending"} => run[c].pc = "idle"

\* What the row of a call says of it: one that posts has reserved it, one that reserved it
\* and does not post is doubtful, and a post that was taken keeps it until an AI confirms it
\* absent.
Row(c) ==
  /\ run[c].pc = "idle" => ledger[c] = "none"
  /\ c \in Direct /\ run[c].pc \in {"ready", "checking", "cleared"} => ledger[c] = "none"
  /\ run[c].pc \in {"claimed", "posted"} => ledger[c] = "reserved"
  /\ ledger[c] = "reserved" => run[c].pc \in {"claimed", "posted"} \/ c \in doubtful
  /\ ledger[c] = "sent" => posted[c] # 0
  /\ posted[c] # 0 => ledger[c] # "none" \/ c \in confirmed

\* What is known of a post under way.
UnderWay(c) ==
  /\ run[c].pc = "claimed" => (posted[c] # 0 => c \in confirmed)
  /\ run[c].pc = "posted" =>
       \/ run[c].outcome = "ok" /\ posted[c] # 0
       \/ run[c].outcome = "unknown" /\ c \in doubtful
       \/ run[c].outcome = "not_sent" /\ (posted[c] # 0 => c \in confirmed)
  /\ run[c].pc = "settled" => posted[c] # 0 \/ c \in doubtful
  /\ posted[c] <= clock

\* A call is judged by its own row for as long as it can claim, and everybody by the row of
\* one that posts.
Windows(c) ==
  /\ <<c, c>> \in outside => c \in Direct /\ run[c].pc = "done"
  /\ run[c].pc \in {"claimed", "posted"} => \A x \in Call : <<x, c>> \notin outside

\* A call that runs and is not doubtful holds the lease.
Holds(c) == IsRunning(c) /\ c \notin doubtful => lease.call = c /\ lease.live

\* A post that is not doubtful is recorded, once it is past its way there.
Recorded(c) ==
  \/ posted[c] = 0 \/ c \in doubtful
  \/ run[c].pc \in {"posted", "settled", "closed"} /\ run[c].outcome = "ok"
  \/ posted[c] <= selfPost[req[c].employee].at

CallInvariant(c) == Stands(c) /\ Row(c) /\ UnderWay(c) /\ Windows(c) /\ Holds(c) /\ Recorded(c)

\* No two calls about to post are alike.
Apart == \A c, r \in Call :
  run[c].pc = "claimed" /\ run[r].pc = "claimed" /\ Alike(c, r) => c = r

\* A call about to post repeats no post that it is judged by.
Fresh == \A c, r \in Call :
  run[c].pc = "claimed" /\ posted[r] # 0 /\ Matches(c, r) => r \in confirmed

\* A call about to post, with the lease, has read what the others posted.
Current == \A c, d \in Call :
  /\ run[c].pc \in {"cleared", "claimed"} /\ lease.call = c /\ lease.live
  /\ req[c].read # Unread
  /\ posted[d] # 0 /\ req[d].employee # req[c].employee
  => posted[d] <= req[c].read \/ d \in doubtful

\* What is recorded was posted.
SelfPostsArePosts == \A e \in Employee :
  selfPost[e].at # 0 => \E d \in Call : posted[d] >= selfPost[e].at

\* Of two approvals that were filed, one came first; and whoever came first and has yet to list
\* the pending ones was still to do so when the other came.
Filings ==
  /\ \A a \in Approval : filing[a] = "idle" <=> req[a].status = "absent"
  /\ \A a, c \in Approval :
       a # c /\ filing[a] # "idle" /\ filing[c] # "idle" => <<a, c>> \in before \/ <<c, a>> \in before
  /\ \A a, c \in Approval :
       <<c, a>> \in before =>
         filing[c] = "listed" \/ (filing[c] = "filed" /\ <<c, a>> \in crossed)

\* Why a may be closed on account of d.
Reason(a, d) == Answered(a, d) \/ Replaced(a, d)

\* The reason is there from the moment an approval is listed.
ListedForAReason ==
  \A why \in Sweep, c \in Call, a \in Approval :
    <<why, c, a>> \in toClose => req[a].status # "absent" /\ Reason(a, c)

ReplyInvariant ==
  /\ ReplyTypeOK
  /\ \A c \in Call : CallInvariant(c)
  /\ Apart /\ Fresh /\ Current
  /\ SelfPostsArePosts
  /\ Filings /\ ListedForAReason /\ SupersededForAReason

(***************************************************************************)
(* Types                                                                   *)
(***************************************************************************)
LEMMA RequestRow ==
  ASSUME ReplyTypeOK, NEW c \in Call
  PROVE  /\ req[c] \in Request /\ run[c].pc \in Running \cup {"idle", "ready", "done"}
         /\ run[c].outcome \in Outcome /\ posted[c] \in Nat
         /\ ledger[c] \in {"none", "reserved", "sent", "uncertain"}
BY DEF ReplyTypeOK

\* Where a call stands, and the outcome of its post.
RunRow == [pc : Running \cup {"idle", "ready", "done"}, outcome : Outcome]
LeaseRow == [call : Call \cup {NoCall}, live : BOOLEAN]

LEMMA RunMoves ==
  ASSUME ReplyTypeOK, NEW c \in Call, NEW p \in Running \cup {"idle", "ready", "done"}
  PROVE  [run EXCEPT ![c].pc = p] \in [Call -> RunRow]
<1>1. run \in [Call -> RunRow]
  BY DEF ReplyTypeOK, RunRow
<1>2. [run[c] EXCEPT !.pc = p] \in RunRow
  BY <1>1 DEF RunRow
<1> QED BY <1>1, <1>2

LEMMA RunSet ==
  ASSUME ReplyTypeOK, NEW c \in Call, NEW p \in Running \cup {"idle", "ready", "done"},
         NEW o \in Outcome
  PROVE  [run EXCEPT ![c] = [pc |-> p, outcome |-> o]] \in [Call -> RunRow]
<1>1. run \in [Call -> RunRow]
  BY DEF ReplyTypeOK, RunRow
<1>2. [pc |-> p, outcome |-> o] \in RunRow
  BY DEF RunRow
<1> QED BY <1>1, <1>2

LEMMA LeaseTaken ==
  ASSUME NEW c \in Call, NEW b \in BOOLEAN
  PROVE  [call |-> c, live |-> b] \in LeaseRow /\ [call |-> NoCall, live |-> b] \in LeaseRow
BY DEF LeaseRow

LEMMA StoppedType ==
  ASSUME ReplyTypeOK, NEW c \in Call
  PROVE  Stopped(c) \in [Call -> RunRow] /\ Ended(c) \in [Call -> RunRow] /\ Released(c) \in LeaseRow
<1>1. "none" \in Outcome
  BY DEF Outcome
<1>2. Stopped(c) \in [Call -> RunRow] /\ Ended(c) \in [Call -> RunRow]
  BY <1>1, RunSet DEF Stopped, Ended
<1>3. Released(c) \in LeaseRow
  BY LeaseTaken DEF Released, ReplyTypeOK, LeaseRow
<1> QED BY <1>2, <1>3

\* Types are kept by a step that gives each variable a value of its type.
LEMMA TypesKept ==
  ASSUME req' \in [Call -> Request], run' \in [Call -> RunRow], lease' \in LeaseRow,
         selfPost' \in [Employee -> SelfPost],
         ledger' \in [Call -> {"none", "reserved", "sent", "uncertain"}],
         outside' \subseteq Call \X Call, clock' \in Nat, posted' \in [Call -> Nat],
         confirmed' \subseteq Call, doubtful' \subseteq Call, losses' \in 0..LossLimit,
         filing' \in [Approval -> {"idle", "filed", "listed"}],
         toClose' \subseteq Sweep \X Call \X Approval,
         before' \subseteq Approval \X Approval, crossed' \subseteq Approval \X Approval
  PROVE  ReplyTypeOK'
BY DEF ReplyTypeOK, RunRow, LeaseRow

LEMMA StatusSet ==
  ASSUME ReplyTypeOK, NEW c \in Call, NEW s \in {"approved", "superseded", "expired"}
  PROVE  [req EXCEPT ![c].status = s] \in [Call -> Request]
<1>1. req[c] \in Request /\ req \in [Call -> Request]
  BY DEF ReplyTypeOK
<1>2. [req[c] EXCEPT !.status = s] \in Request
  BY <1>1 DEF Request
<1> QED BY <1>1, <1>2

LEMMA CloseApprovedType ==
  ASSUME ReplyTypeOK, NEW c \in Call, NEW s \in {"superseded", "expired"}
  PROVE  CloseApproved(c, s) \in [Call -> Request]
BY StatusSet DEF CloseApproved, ReplyTypeOK

LEMMA ListedType ==
  ASSUME NEW why \in Sweep, NEW c \in Call
  PROVE  Listed(why, c) \subseteq Sweep \X Call \X Approval
BY DEF Listed, OtherPending

LEMMA InitTypes == ReplyInit => ReplyTypeOK
<1> SUFFICES ASSUME ReplyInit PROVE ReplyTypeOK
  OBVIOUS
<1> USE ReplyConstants DEF ReplyConstants
<1>1. req \in [Call -> Request]
  <2>1. PICK about \in Abouts :
          req = [c \in Call |-> [employee |-> about[c].employee, job |-> about[c].job,
                                 body |-> about[c].body, read |-> Unread, status |-> "absent"]]
    BY DEF ReplyInit
  <2>2. about \in [Call -> [employee : Employee, job : Job \cup {NoJob}, body : Body]]
    OBVIOUS
  <2>3. ASSUME NEW c \in Call
        PROVE  [employee |-> about[c].employee, job |-> about[c].job, body |-> about[c].body,
                read |-> Unread, status |-> "absent"] \in Request
    BY <2>2 DEF Request
  <2> QED BY <2>1, <2>3
<1>2. run \in [Call -> [pc : Running \cup {"idle", "ready", "done"}, outcome : Outcome]]
  BY DEF ReplyInit, Outcome
<1>3. selfPost \in [Employee -> SelfPost]
  BY DEF ReplyInit, SelfPost
<1> QED BY <1>1, <1>2, <1>3 DEF ReplyInit, ReplyTypeOK

LEMMA TypesStep == ReplyTypeOK /\ [ReplyNext]_replyVars => ReplyTypeOK'
<1> SUFFICES ASSUME ReplyTypeOK, [ReplyNext]_replyVars PROVE ReplyTypeOK'
  OBVIOUS
<1> USE ReplyConstants DEF ReplyConstants, tables, provider, ghosts, sweeps
<1> DEFINE Ledger == {"none", "reserved", "sent", "uncertain"}
<1>0. /\ req \in [Call -> Request] /\ run \in [Call -> RunRow] /\ lease \in LeaseRow
      /\ selfPost \in [Employee -> SelfPost] /\ ledger \in [Call -> Ledger]
      /\ outside \subseteq Call \X Call /\ clock \in Nat /\ posted \in [Call -> Nat]
      /\ confirmed \subseteq Call /\ doubtful \subseteq Call /\ losses \in 0..LossLimit
      /\ filing \in [Approval -> {"idle", "filed", "listed"}]
      /\ toClose \subseteq Sweep \X Call \X Approval
      /\ before \subseteq Approval \X Approval /\ crossed \subseteq Approval \X Approval
  BY DEF ReplyTypeOK, RunRow, LeaseRow
<1>1. ASSUME NEW c \in Call, NEW read \in 0..clock \cup {Unread}, Receive(c, read)
      PROVE  ReplyTypeOK'
  <2>1. read \in Nat \cup {Unread}
    BY <1>0
  <2>2. req' \in [Call -> Request]
    BY <1>0, <1>1, <2>1 DEF Receive, Request
  <2> QED BY <1>0, <1>1, <2>2, RunMoves, TypesKept DEF Receive
<1>2. ASSUME NEW c \in Call, NEW read \in 0..clock \cup {Unread}, QueueApproval(c, read)
      PROVE  ReplyTypeOK'
  <2>1. read \in Nat \cup {Unread}
    BY <1>0
  <2>2. req' \in [Call -> Request]
    BY <1>0, <1>2, <2>1 DEF QueueApproval, Request
  <2>3. /\ filing' \in [Approval -> {"idle", "filed", "listed"}]
        /\ before' \subseteq Approval \X Approval /\ crossed' \subseteq Approval \X Approval
    BY <1>0, <1>2 DEF QueueApproval
  <2> QED BY <1>0, <1>2, <2>2, <2>3, TypesKept DEF QueueApproval
<1>3. ASSUME NEW c \in Call, Approve(c) \/ Expire(c) PROVE ReplyTypeOK'
  <2>1. req' \in [Call -> Request]
    BY <1>3, StatusSet DEF Approve, Expire
  <2>2. run' \in [Call -> RunRow]
    <3>1. CASE Approve(c)
      BY <3>1, RunMoves DEF Approve
    <3>2. CASE Expire(c)
      BY <1>0, <3>2 DEF Expire
    <3> QED BY <1>3, <3>1, <3>2
  <2> QED BY <1>0, <1>3, <2>1, <2>2, TypesKept DEF Approve, Expire
<1>4. ASSUME NEW c \in Call, Acquire(c) \/ FindCurrent(c) PROVE ReplyTypeOK'
  <2>1. run' \in [Call -> RunRow]
    <3>1. {"checking", "cleared"} \subseteq Running
      BY DEF Running
    <3>2. CASE Acquire(c)
      BY <3>1, <3>2, RunMoves DEF Acquire
    <3>3. CASE FindCurrent(c)
      BY <3>1, <3>3, RunMoves DEF FindCurrent
    <3> QED BY <1>4, <3>2, <3>3
  <2>2. lease' \in LeaseRow /\ doubtful' \subseteq Call
    BY <1>0, <1>4, LeaseTaken DEF Acquire, FindCurrent, IsRunning
  <2> QED BY <1>0, <1>4, <2>1, <2>2, TypesKept DEF Acquire, FindCurrent
<1>5. ASSUME NEW c \in Call, TurnedAway(c) \/ Unavailable(c) \/ FindExpired(c) \/ FindMovedOn(c)
                             \/ FindDuplicate(c)
      PROVE  ReplyTypeOK'
  <2>1. run' \in [Call -> RunRow] /\ lease' \in LeaseRow
    BY <1>0, <1>5, StoppedType DEF TurnedAway, Unavailable, FindExpired, FindMovedOn, FindDuplicate
  <2>2. req' \in [Call -> Request]
    BY <1>0, <1>5, CloseApprovedType
       DEF TurnedAway, Unavailable, FindExpired, FindMovedOn, FindDuplicate
  <2> QED BY <1>0, <1>5, <2>1, <2>2, TypesKept
          DEF TurnedAway, Unavailable, FindExpired, FindMovedOn, FindDuplicate
<1>7. ASSUME NEW c \in Call, ClaimSend(c) PROVE ReplyTypeOK'
  <2>1. run' \in [Call -> RunRow] /\ ledger' \in [Call -> Ledger]
    BY <1>0, <1>7, RunMoves DEF ClaimSend, Running
  <2> QED BY <1>0, <1>7, <2>1, TypesKept DEF ClaimSend
<1>8. ASSUME NEW c \in Call, Post(c) PROVE ReplyTypeOK'
  <2>1. run' \in [Call -> RunRow] /\ doubtful' \subseteq Call
    BY <1>0, <1>8, RunSet DEF Post, Running
  <2>2. clock' \in Nat /\ posted' \in [Call -> Nat]
    BY <1>0, <1>8 DEF Post
  <2> QED BY <1>0, <1>8, <2>1, <2>2, TypesKept DEF Post
<1>9. ASSUME NEW c \in Call, ThrowBeforePost(c) \/ Settle(c) PROVE ReplyTypeOK'
  <2>1. run' \in [Call -> RunRow]
    <3>1. {"posted", "settled", "closed"} \subseteq Running /\ "not_sent" \in Outcome
      BY DEF Running, Outcome
    <3>2. CASE ThrowBeforePost(c)
      BY <3>1, <3>2, RunSet DEF ThrowBeforePost
    <3>3. CASE Settle(c)
      BY <3>1, <3>3, RunMoves DEF Settle
    <3> QED BY <1>9, <3>2, <3>3
  <2>2. ledger' \in [Call -> Ledger]
    BY <1>0, <1>9 DEF ThrowBeforePost, Settle, RowAfter
  <2> QED BY <1>0, <1>9, <2>1, <2>2, TypesKept DEF ThrowBeforePost, Settle
<1>6. ASSUME NEW c \in Call, ListOnFiling(c) PROVE ReplyTypeOK'
  <2>1. filing' \in [Approval -> {"idle", "filed", "listed"}]
    BY <1>0, <1>6 DEF ListOnFiling
  <2>2. toClose' \subseteq Sweep \X Call \X Approval
    <3>1. Listed("filed", c) \subseteq Sweep \X Call \X Approval
      BY ListedType DEF Sweep
    <3> QED BY <1>0, <1>6, <3>1 DEF ListOnFiling
  <2> QED BY <1>0, <1>6, <2>1, <2>2, TypesKept DEF ListOnFiling
<1>10. ASSUME NEW c \in Call, ListAfterSend(c) PROVE ReplyTypeOK'
  <2>1. run' \in [Call -> RunRow]
    BY <1>10, RunMoves DEF ListAfterSend, Running
  <2>2. toClose' \subseteq Sweep \X Call \X Approval
    <3>1. Listed("sent", c) \subseteq Sweep \X Call \X Approval
      BY ListedType DEF Sweep
    <3> QED BY <1>0, <1>10, <3>1 DEF ListAfterSend
  <2> QED BY <1>0, <1>10, <2>1, <2>2, TypesKept DEF ListAfterSend
<1>17. ASSUME NEW why \in Sweep, NEW c \in Call, NEW a \in Approval, CloseListed(why, c, a)
       PROVE  ReplyTypeOK'
  <2>1. req' \in [Call -> Request]
    <3>1. [req EXCEPT ![a].status = "superseded"] \in [Call -> Request]
      BY StatusSet DEF Call
    <3> QED BY <1>0, <1>17, <3>1 DEF CloseListed
  <2>2. toClose' \subseteq Sweep \X Call \X Approval
    BY <1>0, <1>17 DEF CloseListed
  <2> QED BY <1>0, <1>17, <2>1, <2>2, TypesKept DEF CloseListed
<1>11. ASSUME NEW c \in Call, Record(c) PROVE ReplyTypeOK'
  <2>1. run' \in [Call -> RunRow]
    BY <1>11, RunMoves DEF Record, Running
  <2>2. [at |-> posted[c], job |-> req[c].job] \in SelfPost
    BY <1>0 DEF SelfPost, Request
  <2>3. selfPost' \in [Employee -> SelfPost]
    BY <1>0, <1>11, <2>2 DEF Record
  <2> QED BY <1>0, <1>11, <2>1, <2>3, TypesKept DEF Record
<1>12. ASSUME NEW c \in Call, Finish(c) PROVE ReplyTypeOK'
  <2>1. run' \in [Call -> RunRow] /\ lease' \in LeaseRow
    BY <1>12, StoppedType DEF Finish
  <2> QED BY <1>0, <1>12, <2>1, TypesKept DEF Finish
<1>13. ASSUME NEW c \in Call, ConfirmAbsent(c) \/ AgeOut(c) PROVE ReplyTypeOK'
  <2>1. ledger' \in [Call -> Ledger] /\ outside' \subseteq Call \X Call /\ confirmed' \subseteq Call
    BY <1>0, <1>13 DEF ConfirmAbsent, AgeOut
  <2> QED BY <1>0, <1>13, <2>1, TypesKept DEF ConfirmAbsent, AgeOut
<1>14. ASSUME NEW c \in Call, StoreFails(c) \/ Die(c) PROVE ReplyTypeOK'
  <2>1. run' \in [Call -> RunRow]
    <3>1. {"recorded", "settled", "closed"} \subseteq Running
      BY DEF Running
    <3>2. CASE StoreFails(c)
      BY <3>1, <3>2, RunMoves DEF StoreFails
    <3>3. CASE Die(c)
      BY <3>3, StoppedType DEF Die
    <3> QED BY <1>14, <3>2, <3>3
  <2>2. doubtful' \subseteq Call /\ losses' \in 0..LossLimit
    BY <1>0, <1>14 DEF StoreFails, Die, Lose
  <2> QED BY <1>0, <1>14, <2>1, <2>2, TypesKept DEF StoreFails, Die
<1>15. CASE LapseLease
  <2>1. lease' \in LeaseRow
    BY <1>0, <1>15 DEF LapseLease, LeaseRow
  <2>2. doubtful' \subseteq Call /\ losses' \in 0..LossLimit
    BY <1>0, <1>15 DEF LapseLease, Lose, IsRunning
  <2> QED BY <1>0, <1>15, <2>1, <2>2, TypesKept DEF LapseLease
<1>16. CASE UNCHANGED replyVars
  BY <1>0, <1>16, TypesKept DEF replyVars
<1> QED BY <1>1, <1>2, <1>3, <1>4, <1>5, <1>7, <1>8, <1>9, <1>10, <1>11, <1>12, <1>13, <1>14,
           <1>15, <1>16, <1>6, <1>17 DEF ReplyNext, RequestStep, SendStep

(***************************************************************************)
(* What no step takes back                                                 *)
(***************************************************************************)
LEMMA CloseApprovedKeeps ==
  ASSUME ReplyTypeOK, NEW c \in Call, NEW s \in {"superseded", "expired"}, NEW x \in Call
  PROVE  /\ CloseApproved(c, s)[x].employee = req[x].employee
         /\ CloseApproved(c, s)[x].job = req[x].job
         /\ CloseApproved(c, s)[x].body = req[x].body
         /\ CloseApproved(c, s)[x].read = req[x].read
         /\ CloseApproved(c, s)[x].status =
              IF x = c /\ req[c].status = "approved" THEN s ELSE req[x].status
BY DEF CloseApproved, ReplyTypeOK, Request

\* The requests after a step.
LEMMA RequestsKept ==
  ASSUME ReplyTypeOK, [ReplyNext]_replyVars, NEW x \in Call
  PROVE  /\ req'[x].employee = req[x].employee /\ req'[x].job = req[x].job
         /\ req'[x].body = req[x].body
         /\ req[x].status # "absent" => req'[x].status # "absent" /\ req'[x].read = req[x].read
         /\ req[x].status # "absent" /\ req'[x] # req[x] =>
              \/ req[x].status = "pending" /\ req'[x].status \in {"approved", "superseded", "expired"}
              \/ req[x].status = "approved" /\ req'[x].status \in {"superseded", "expired"}
<1> DEFINE Goal ==
         /\ req'[x].employee = req[x].employee /\ req'[x].job = req[x].job
         /\ req'[x].body = req[x].body
         /\ req[x].status # "absent" => req'[x].status # "absent" /\ req'[x].read = req[x].read
         /\ req[x].status # "absent" /\ req'[x] # req[x] =>
              \/ req[x].status = "pending" /\ req'[x].status \in {"approved", "superseded", "expired"}
              \/ req[x].status = "approved" /\ req'[x].status \in {"superseded", "expired"}
<1>0. req \in [Call -> Request]
  BY DEF ReplyTypeOK
<1>1. ASSUME NEW c \in Call, NEW read \in 0..clock \cup {Unread}, Receive(c, read) PROVE Goal
  BY <1>0, <1>1 DEF Receive, Request
<1>2. ASSUME NEW c \in Call, NEW read \in 0..clock \cup {Unread}, QueueApproval(c, read) PROVE Goal
  BY <1>0, <1>2 DEF QueueApproval, Request
<1>3. ASSUME NEW c \in Call, Approve(c) PROVE Goal
  BY <1>0, <1>3 DEF Approve, Request
<1>4. ASSUME NEW c \in Call, Expire(c) PROVE Goal
  BY <1>0, <1>4 DEF Expire, Request
<1>5. ASSUME NEW c \in Call, NEW s \in {"superseded", "expired"}, req' = CloseApproved(c, s)
      PROVE  Goal
  <2>1. req[c].status # "approved" => req' = req
    BY <1>5 DEF CloseApproved
  <2>2. x # c => req'[x] = req[x]
    BY <1>0, <1>5 DEF CloseApproved
  <2> QED BY <1>5, <2>1, <2>2, CloseApprovedKeeps
<1>6. ASSUME NEW why \in Sweep, NEW c \in Call, NEW a \in Approval, CloseListed(why, c, a)
      PROVE  Goal
  BY <1>0, <1>6 DEF CloseListed, Request, Call
<1>7. req' = req => Goal
  OBVIOUS
<1> HIDE DEF Goal
<1>8. ASSUME NEW c \in Call, SendStep(c) PROVE Goal
  BY <1>5, <1>7, <1>8
     DEF SendStep, Acquire, TurnedAway, FindMovedOn, FindCurrent, Unavailable, ClaimSend,
         FindDuplicate, FindExpired, Post, ThrowBeforePost, Settle, ListAfterSend, Record, Finish
<1>12. ASSUME NEW c \in Call, ListOnFiling(c) PROVE Goal
  BY <1>7, <1>12 DEF ListOnFiling
<1>9. ASSUME NEW c \in Call, ConfirmAbsent(c) \/ AgeOut(c) \/ StoreFails(c) \/ Die(c) PROVE Goal
  BY <1>7, <1>9 DEF ConfirmAbsent, AgeOut, StoreFails, Die
<1>10. LapseLease \/ UNCHANGED replyVars => Goal
  BY <1>7 DEF LapseLease, replyVars
<1>11. Goal
  BY <1>1, <1>2, <1>3, <1>4, <1>6, <1>8, <1>9, <1>10, <1>12 DEF ReplyNext, RequestStep
<1> QED BY <1>11 DEF Goal

\* The ghosts grow, and so do the positions.
LEMMA NothingUndone ==
  ASSUME ReplyTypeOK, \A c \in Call : UnderWay(c), [ReplyNext]_replyVars
  PROVE  /\ confirmed \subseteq confirmed' /\ doubtful \subseteq doubtful' /\ clock <= clock'
         /\ \A x \in Call : posted[x] <= posted'[x] /\ posted[x] \in Nat /\ posted'[x] \in Nat
         /\ \A e \in Employee :
              selfPost[e].at <= selfPost'[e].at /\ selfPost[e].at \in Nat /\ selfPost'[e].at \in Nat
<1>0. clock \in Nat /\ posted \in [Call -> Nat] /\ selfPost \in [Employee -> SelfPost]
  BY DEF ReplyTypeOK
<1>1. ReplyTypeOK'
  BY TypesStep
<1>2. /\ \A x \in Call : posted[x] \in Nat /\ posted'[x] \in Nat
      /\ \A e \in Employee : selfPost[e].at \in Nat /\ selfPost'[e].at \in Nat
  BY <1>1 DEF ReplyTypeOK, SelfPost
<1>3. confirmed \subseteq confirmed' /\ doubtful \subseteq doubtful'
  <2>1. ASSUME NEW c \in Call, RequestStep(c) PROVE UNCHANGED ghosts
    BY <2>1 DEF RequestStep, Receive, QueueApproval, Approve, Expire, ListOnFiling
  <2>2. ASSUME NEW c \in Call, SendStep(c)
        PROVE confirmed \subseteq confirmed' /\ doubtful \subseteq doubtful'
    BY <2>2 DEF SendStep, Acquire, TurnedAway, FindMovedOn, FindCurrent, Unavailable, ClaimSend,
         FindDuplicate, FindExpired, Post, ThrowBeforePost, Settle, ListAfterSend, Record, Finish, ghosts
  <2>3. ASSUME NEW c \in Call, ConfirmAbsent(c) \/ AgeOut(c) \/ StoreFails(c) \/ Die(c)
        PROVE confirmed \subseteq confirmed' /\ doubtful \subseteq doubtful'
    BY <2>3 DEF ConfirmAbsent, AgeOut, StoreFails, Die, Lose, ghosts
  <2>4. LapseLease \/ UNCHANGED replyVars
          => confirmed \subseteq confirmed' /\ doubtful \subseteq doubtful'
    BY DEF LapseLease, Lose, replyVars, ghosts
  <2>5. ASSUME NEW why \in Sweep, NEW c \in Call, NEW a \in Approval, CloseListed(why, c, a)
        PROVE  UNCHANGED ghosts
    BY <2>5 DEF CloseListed
  <2> QED BY <2>1, <2>2, <2>3, <2>4, <2>5 DEF ReplyNext, ghosts
<1>4. CASE \E c \in Call : Post(c)
  <2>1. PICK c \in Call : Post(c)
    BY <1>4
  <2>2. posted[c] <= clock
    BY DEF UnderWay
  <2>3. selfPost' = selfPost
    BY <2>1 DEF Post, tables
  <2>4. clock <= clock' /\ \A x \in Call : posted[x] <= posted'[x]
    BY <1>0, <2>1, <2>2 DEF Post, provider
  <2> QED BY <1>2, <1>3, <2>3, <2>4
<1>5. CASE \E c \in Call : Record(c)
  <2>1. PICK c \in Call : Record(c)
    BY <1>5
  <2>2. UNCHANGED provider
    BY <2>1 DEF Record
  <2>3. \A e \in Employee : selfPost[e].at <= selfPost'[e].at
    BY <1>0, <1>2, <2>1 DEF Record
  <2> QED BY <1>0, <1>2, <1>3, <2>2, <2>3 DEF provider
<1>6. CASE UNCHANGED <<provider, selfPost>>
  BY <1>0, <1>2, <1>3, <1>6 DEF provider
<1>7. ASSUME NEW c \in Call, RequestStep(c) PROVE UNCHANGED <<provider, selfPost>>
  BY <1>7 DEF RequestStep, Receive, QueueApproval, Approve, Expire, ListOnFiling, tables
<1>8. ASSUME NEW c \in Call, SendStep(c), ~Post(c), ~Record(c)
      PROVE  UNCHANGED <<provider, selfPost>>
  BY <1>8 DEF SendStep, Acquire, TurnedAway, FindMovedOn, FindCurrent, Unavailable, ClaimSend,
       FindDuplicate, FindExpired, ThrowBeforePost, Settle, ListAfterSend, Finish, tables
<1>9. ASSUME NEW c \in Call, ConfirmAbsent(c) \/ AgeOut(c) \/ StoreFails(c) \/ Die(c)
      PROVE  UNCHANGED <<provider, selfPost>>
  BY <1>9 DEF ConfirmAbsent, AgeOut, StoreFails, Die, tables
<1>10. LapseLease \/ UNCHANGED replyVars => UNCHANGED <<provider, selfPost>>
  BY DEF LapseLease, replyVars, tables
<1>11. ASSUME NEW why \in Sweep, NEW c \in Call, NEW a \in Approval, CloseListed(why, c, a)
       PROVE  UNCHANGED <<provider, selfPost>>
  BY <1>11 DEF CloseListed, tables
<1> QED BY <1>4, <1>5, <1>6, <1>7, <1>8, <1>9, <1>10, <1>11 DEF ReplyNext

(***************************************************************************)
(* What a step of one call leaves to the others                            *)
(***************************************************************************)
StepOf(c) ==
  RequestStep(c) \/ SendStep(c) \/ ConfirmAbsent(c) \/ AgeOut(c) \/ StoreFails(c) \/ Die(c)

LEMMA Elsewhere ==
  ASSUME ReplyTypeOK, NEW c \in Call, StepOf(c), NEW x \in Call \ {c}
  PROVE  /\ run'[x] = run[x] /\ ledger'[x] = ledger[x] /\ posted'[x] = posted[x]
         /\ \A y \in Call : <<y, x>> \in outside' => <<y, x>> \in outside
         /\ IsRunning(x) /\ lease.call = x => lease' = lease \/ x \in doubtful'
         /\ req'[x] = req[x]
<1>1. run'[x] = run[x]
  <2>1. RequestStep(c) => run'[x] = run[x]
    BY DEF RequestStep, Receive, QueueApproval, Approve, Expire, ListOnFiling, ReplyTypeOK
  <2>2. SendStep(c) => run'[x] = run[x]
    BY DEF SendStep, Acquire, TurnedAway, FindMovedOn, FindCurrent, Unavailable, ClaimSend,
       FindDuplicate, FindExpired, Post, ThrowBeforePost, Settle, ListAfterSend, Record, Finish, Stopped,
       Ended, ReplyTypeOK
  <2>3. ConfirmAbsent(c) \/ AgeOut(c) \/ StoreFails(c) \/ Die(c) => run'[x] = run[x]
    BY DEF ConfirmAbsent, AgeOut, StoreFails, Die, Stopped, ReplyTypeOK
  <2> QED BY <2>1, <2>2, <2>3 DEF StepOf
<1>2. ledger'[x] = ledger[x] /\ posted'[x] = posted[x]
  <2>1. RequestStep(c) => ledger' = ledger /\ posted' = posted
    BY DEF RequestStep, Receive, QueueApproval, Approve, Expire, ListOnFiling, tables, provider
  <2>2. SendStep(c) => ledger'[x] = ledger[x] /\ posted'[x] = posted[x]
    BY DEF SendStep, Acquire, TurnedAway, FindMovedOn, FindCurrent, Unavailable, ClaimSend,
       FindDuplicate, FindExpired, Post, ThrowBeforePost, Settle, ListAfterSend, Record, Finish,
       ReplyTypeOK, tables, provider
  <2>3. ConfirmAbsent(c) \/ AgeOut(c) \/ StoreFails(c) \/ Die(c)
          => ledger'[x] = ledger[x] /\ posted'[x] = posted[x]
    BY DEF ConfirmAbsent, AgeOut, StoreFails, Die, ReplyTypeOK, tables, provider
  <2> QED BY <2>1, <2>2, <2>3 DEF StepOf
<1>3. ASSUME NEW y \in Call, <<y, x>> \in outside' PROVE <<y, x>> \in outside
  <2>1. CASE AgeOut(c)
    BY <1>3, <2>1 DEF AgeOut
  <2>2. CASE ~AgeOut(c)
    <3>1. RequestStep(c) => outside' = outside
      BY DEF RequestStep, Receive, QueueApproval, Approve, Expire, ListOnFiling, tables
    <3>2. SendStep(c) => outside' \subseteq outside
      BY DEF SendStep, Acquire, TurnedAway, FindMovedOn, FindCurrent, Unavailable, ClaimSend,
       FindDuplicate, FindExpired, Post, ThrowBeforePost, Settle, ListAfterSend, Record, Finish, tables
    <3>3. ConfirmAbsent(c) \/ StoreFails(c) \/ Die(c) => outside' = outside
      BY DEF ConfirmAbsent, StoreFails, Die, tables
    <3> QED BY <1>3, <2>2, <3>1, <3>2, <3>3 DEF StepOf
  <2> QED BY <2>1, <2>2
<1>4. ASSUME IsRunning(x), lease.call = x PROVE lease' = lease \/ x \in doubtful'
  <2>1. RequestStep(c) => lease' = lease
    BY DEF RequestStep, Receive, QueueApproval, Approve, Expire, ListOnFiling
  <2>2. Released(c) = lease
    BY <1>4 DEF Released
  <2>3. Acquire(c) => x \in doubtful'
    BY <1>4 DEF Acquire
  <2>4. SendStep(c) => lease' = lease \/ Acquire(c)
    BY <2>2 DEF SendStep, TurnedAway, FindMovedOn, FindCurrent, Unavailable, ClaimSend,
       FindDuplicate, FindExpired, Post, ThrowBeforePost, Settle, ListAfterSend, Record, Finish
  <2>5. ConfirmAbsent(c) \/ AgeOut(c) \/ StoreFails(c) \/ Die(c) => lease' = lease
    BY DEF ConfirmAbsent, AgeOut, StoreFails, Die
  <2> QED BY <2>1, <2>3, <2>4, <2>5 DEF StepOf
<1>5. req'[x] = req[x]
  <2>1. RequestStep(c) => req'[x] = req[x]
    BY DEF RequestStep, Receive, QueueApproval, Approve, Expire, ListOnFiling, ReplyTypeOK
  <2>2. \A s \in {"superseded", "expired"} : CloseApproved(c, s)[x] = req[x]
    BY DEF CloseApproved, ReplyTypeOK
  <2>3. SendStep(c) => req'[x] = req[x]
    BY <2>2 DEF SendStep, Acquire, TurnedAway, FindMovedOn, FindCurrent, Unavailable, ClaimSend,
       FindDuplicate, FindExpired, Post, ThrowBeforePost, Settle, ListAfterSend, Record, Finish
  <2>4. ConfirmAbsent(c) \/ AgeOut(c) \/ StoreFails(c) \/ Die(c) => req' = req
    BY DEF ConfirmAbsent, AgeOut, StoreFails, Die
  <2> QED BY <2>1, <2>3, <2>4 DEF StepOf
<1> QED BY <1>1, <1>2, <1>3, <1>4, <1>5

LEMMA ElsewhereKept ==
  ASSUME ReplyTypeOK, \A x \in Call : CallInvariant(x), NEW c \in Call, StepOf(c),
         NEW x \in Call \ {c}
  PROVE  CallInvariant(x)'
<1>0. [ReplyNext]_replyVars
  BY DEF StepOf, ReplyNext
<1>1. /\ run'[x] = run[x] /\ ledger'[x] = ledger[x] /\ posted'[x] = posted[x]
      /\ \A y \in Call : <<y, x>> \in outside' => <<y, x>> \in outside
      /\ IsRunning(x) /\ lease.call = x => lease' = lease \/ x \in doubtful'
      /\ req'[x] = req[x]
  BY Elsewhere
<1>2. CallInvariant(x) /\ ReplyTypeOK'
  BY <1>0, TypesStep
<1>3. /\ req'[x].employee = req[x].employee
      /\ confirmed \subseteq confirmed' /\ doubtful \subseteq doubtful' /\ clock <= clock'
      /\ \A e \in Employee : selfPost[e].at <= selfPost'[e].at
      /\ \A e \in Employee : selfPost[e].at \in Nat /\ selfPost'[e].at \in Nat
  BY <1>0, RequestsKept, NothingUndone DEF CallInvariant
<1>4. posted[x] \in Nat /\ req[x].employee \in Employee /\ clock \in Nat /\ clock' \in Nat
  BY <1>2 DEF ReplyTypeOK, Request
<1>5. Stands(x)'
  BY <1>1, <1>2 DEF CallInvariant, Stands
<1>6. Row(x)'
  BY <1>1, <1>2, <1>3 DEF CallInvariant, Row
<1>7. UnderWay(x)'
  <2>1. posted'[x] <= clock'
    BY <1>1, <1>2, <1>3, <1>4 DEF CallInvariant, UnderWay
  <2> QED BY <1>1, <1>2, <1>3, <2>1 DEF CallInvariant, UnderWay
<1>8. Windows(x)'
  BY <1>1, <1>2 DEF CallInvariant, Windows
<1>9. Holds(x)'
  BY <1>1, <1>2, <1>3 DEF CallInvariant, Holds, IsRunning
<1>10. Recorded(x)'
  BY <1>1, <1>2, <1>3, <1>4 DEF CallInvariant, Recorded
<1> QED BY <1>5, <1>6, <1>7, <1>8, <1>9, <1>10 DEF CallInvariant

(***************************************************************************)
(* What a step of a call does to it                                        *)
(***************************************************************************)
LEMMA ActorStep ==
  ASSUME ReplyTypeOK, NEW c \in Call, CallInvariant(c), \A x \in Call : UnderWay(x), StepOf(c)
  PROVE  CallInvariant(c)'
<1>t. /\ posted[c] \in Nat /\ clock \in Nat /\ req[c].employee \in Employee
      /\ \A e \in Employee : selfPost[e].at \in Nat
      /\ req'[c].employee = req[c].employee
      /\ Direct \cap Approval = {} /\ c \in Direct \cup Approval
  <2>1. [ReplyNext]_replyVars
    BY DEF StepOf, ReplyNext
  <2> QED BY <2>1, RequestsKept, ReplyConstants DEF ReplyTypeOK, Request, SelfPost, ReplyConstants, Call
<1>0. /\ CallInvariant(c) /\ run \in [Call -> RunRow] /\ req \in [Call -> Request]
      /\ ledger \in [Call -> {"none", "reserved", "sent", "uncertain"}]
      /\ posted \in [Call -> Nat] /\ selfPost \in [Employee -> SelfPost]
      /\ run[c] \in RunRow
  BY DEF ReplyTypeOK, RunRow
<1>s. /\ Stopped(c)[c].pc = (IF c \in Direct THEN "done" ELSE "ready")
      /\ Ended(c)[c].pc = "done"
  BY <1>0 DEF Stopped, Ended
<1>c. \A s \in {"superseded", "expired"} :
        /\ CloseApproved(c, s)[c].status = req[c].status
             \/ (req[c].status = "approved" /\ CloseApproved(c, s)[c].status = s)
  BY CloseApprovedKeeps
<1>1. ASSUME NEW read \in 0..clock \cup {Unread}, Receive(c, read) PROVE CallInvariant(c)'
  <2>1. /\ c \in Direct /\ req[c].status = "absent" /\ req'[c].status = "direct"
        /\ run'[c].pc = "ready"
        /\ UNCHANGED <<lease, selfPost, ledger, outside, clock, posted, confirmed, doubtful>>
    BY <1>0, <1>1 DEF Receive, tables, provider, ghosts, Request, RunRow
  <2> QED BY <1>0, <1>t, <2>1 DEF CallInvariant, Stands, Row, UnderWay, Windows, Holds, Recorded, IsRunning, Running
<1>2. ASSUME NEW read \in 0..clock \cup {Unread}, QueueApproval(c, read) PROVE CallInvariant(c)'
  <2>1. /\ c \in Approval /\ req[c].status = "absent" /\ req'[c].status = "pending"
        /\ UNCHANGED <<run, lease, selfPost, ledger, outside, clock, posted, confirmed, doubtful>>
    BY <1>0, <1>2 DEF QueueApproval, tables, provider, ghosts, Request
  <2> QED BY <1>0, <1>t, <2>1 DEF CallInvariant, Stands, Row, UnderWay, Windows, Holds, Recorded, IsRunning, Running
<1>3. CASE Approve(c)
  <2>1. /\ req[c].status = "pending" /\ req'[c].status = "approved" /\ run'[c].pc = "ready"
        /\ UNCHANGED <<lease, selfPost, ledger, outside, clock, posted, confirmed, doubtful>>
    BY <1>0, <1>3 DEF Approve, Request, RunRow, tables, provider, ghosts
  <2> QED BY <1>0, <1>t, <2>1
          DEF CallInvariant, Stands, Row, UnderWay, Windows, Holds, Recorded, IsRunning, Running
<1>4. CASE Expire(c)
  <2>1. /\ req[c].status = "pending" /\ req'[c].status = "expired"
        /\ UNCHANGED <<run, lease, selfPost, ledger, outside, clock, posted, confirmed, doubtful>>
    BY <1>0, <1>4 DEF Expire, Request, RunRow, tables, provider, ghosts
  <2> QED BY <1>0, <1>t, <2>1
          DEF CallInvariant, Stands, Row, UnderWay, Windows, Holds, Recorded, IsRunning, Running
<1>5. CASE Acquire(c)
  <2>1. /\ run[c].pc = "ready" /\ run'[c].pc = "checking" /\ lease'.call = c /\ lease'.live
        /\ doubtful \subseteq doubtful'
        /\ UNCHANGED <<req, selfPost, ledger, outside, clock, posted, confirmed>>
    BY <1>0, <1>5 DEF Acquire, Request, RunRow, tables, provider, ghosts
  <2> QED BY <1>0, <1>t, <2>1
          DEF CallInvariant, Stands, Row, UnderWay, Windows, Holds, Recorded, IsRunning, Running
<1>6. CASE TurnedAway(c)
  <2>1. /\ run[c].pc = "ready" /\ c \in Direct /\ run'[c].pc = "done"
        /\ UNCHANGED <<req, lease, selfPost, ledger, outside, clock, posted, confirmed, doubtful>>
    BY <1>0, <1>s, <1>6 DEF TurnedAway, tables, provider, ghosts
  <2> QED BY <1>0, <1>t, <2>1
          DEF CallInvariant, Stands, Row, UnderWay, Windows, Holds, Recorded, IsRunning, Running
<1>7. CASE FindMovedOn(c)
  <2>1. /\ run[c].pc = "checking" /\ run'[c].pc = "done"
        /\ req'[c].status = req[c].status \/ (req[c].status = "approved" /\ req'[c].status \in {"superseded", "expired"})
        /\ UNCHANGED <<selfPost, ledger, outside, clock, posted, confirmed, doubtful>>
    BY <1>0, <1>s, <1>c, <1>7 DEF FindMovedOn, tables, provider, ghosts
  <2> QED BY <1>0, <1>t, <2>1
          DEF CallInvariant, Stands, Row, UnderWay, Windows, Holds, Recorded, IsRunning, Running
<1>8. CASE FindCurrent(c)
  <2>1. /\ run[c].pc = "checking" /\ run'[c].pc = "cleared"
        /\ UNCHANGED <<req, lease, selfPost, ledger, outside, clock, posted, confirmed, doubtful>>
    BY <1>0, <1>8 DEF FindCurrent, Request, RunRow, tables, provider, ghosts
  <2> QED BY <1>0, <1>t, <2>1
          DEF CallInvariant, Stands, Row, UnderWay, Windows, Holds, Recorded, IsRunning, Running
<1>9. CASE Unavailable(c)
  <2>1. /\ run[c].pc \in {"checking", "cleared"}
        /\ run'[c].pc = IF c \in Direct THEN "done" ELSE "ready"
        /\ UNCHANGED <<req, selfPost, ledger, outside, clock, posted, confirmed, doubtful>>
    BY <1>0, <1>s, <1>9 DEF Unavailable, tables, provider, ghosts
  <2> QED BY <1>0, <1>t, <2>1
          DEF CallInvariant, Stands, Row, UnderWay, Windows, Holds, Recorded, IsRunning, Running
<1>10. CASE ClaimSend(c)
  <2>1. /\ run[c].pc = "cleared" /\ run'[c].pc = "claimed" /\ ledger'[c] = "reserved"
        /\ outside' = {x \in outside : x[2] # c}
        /\ UNCHANGED <<req, lease, selfPost, clock, posted, confirmed, doubtful>>
    BY <1>0, <1>10 DEF ClaimSend, RunRow, provider, ghosts
  <2>2. <<c, c>> \notin outside
    BY <1>0, <2>1 DEF CallInvariant, Windows
  <2>3. Matches(c, c)
    BY <2>2 DEF Matches
  <2>4. ledger[c] = "none"
    BY <1>10, <2>3 DEF ClaimSend, StoppingRows
  <2>5. posted[c] # 0 => c \in confirmed
    BY <1>0, <2>4 DEF CallInvariant, Row
  <2>6. Windows(c)'
    BY <2>1 DEF Windows
  <2> QED BY <1>0, <1>t, <2>1, <2>5, <2>6 
          DEF CallInvariant, Stands, Row, UnderWay, Holds, Recorded, IsRunning, Running
<1>11. CASE FindDuplicate(c)
  <2>1. /\ run[c].pc = "cleared"
        /\ run'[c].pc \in {"done", "ready"} /\ (c \in Direct => run'[c].pc = "done")
        /\ req'[c].status = req[c].status \/ (req[c].status = "approved" /\ req'[c].status \in {"superseded", "expired"})
        /\ UNCHANGED <<selfPost, ledger, outside, clock, posted, confirmed, doubtful>>
    BY <1>0, <1>s, <1>c, <1>11 DEF FindDuplicate, tables, provider, ghosts
  <2> QED BY <1>0, <1>t, <2>1
          DEF CallInvariant, Stands, Row, UnderWay, Windows, Holds, Recorded, IsRunning, Running
<1>12. CASE FindExpired(c)
  <2>1. /\ run[c].pc = "cleared" /\ run'[c].pc = "done"
        /\ req'[c].status = req[c].status \/ (req[c].status = "approved" /\ req'[c].status \in {"superseded", "expired"})
        /\ UNCHANGED <<selfPost, ledger, outside, clock, posted, confirmed, doubtful>>
    BY <1>0, <1>s, <1>c, <1>12 DEF FindExpired, tables, provider, ghosts
  <2> QED BY <1>0, <1>t, <2>1
          DEF CallInvariant, Stands, Row, UnderWay, Windows, Holds, Recorded, IsRunning, Running
<1>13. CASE Post(c)
  <2>1. /\ run[c].pc = "claimed" /\ run'[c].pc = "posted"
        /\ \/ /\ run'[c].outcome = "ok" /\ doubtful' = doubtful
              /\ posted'[c] = clock + 1 /\ clock' = clock + 1
           \/ /\ run'[c].outcome = "unknown" /\ doubtful' = doubtful \cup {c}
              /\ \/ posted'[c] = clock + 1 /\ clock' = clock + 1
                 \/ posted' = posted /\ clock' = clock
           \/ run'[c].outcome = "not_sent" /\ doubtful' = doubtful /\ posted' = posted /\ clock' = clock
        /\ UNCHANGED <<req, lease, selfPost, ledger, outside, confirmed>>
    BY <1>0, <1>13 DEF Post, Outcome, tables, provider
  <2>2. Stands(c)' /\ Row(c)' /\ Windows(c)' /\ Holds(c)'
    BY <1>0, <1>t, <2>1 DEF CallInvariant, Stands, Row, Windows, Holds, IsRunning, Running
  <2>3. UnderWay(c)' /\ Recorded(c)'
    BY <1>0, <1>t, <2>1 DEF CallInvariant, UnderWay, Recorded
  <2> QED BY <2>2, <2>3 DEF CallInvariant
<1>14. CASE ThrowBeforePost(c)
  <2>1. /\ run[c].pc = "claimed" /\ run'[c].pc = "posted" /\ run'[c].outcome = "not_sent"
        /\ UNCHANGED <<req, lease, selfPost, ledger, outside, clock, posted, confirmed, doubtful>>
    BY <1>0, <1>14 DEF ThrowBeforePost, Request, RunRow, tables, provider, ghosts
  <2> QED BY <1>0, <1>t, <2>1
          DEF CallInvariant, Stands, Row, UnderWay, Windows, Holds, Recorded, IsRunning, Running
<1>15. CASE Settle(c)
  <2>1. /\ run[c].pc = "posted" /\ run'[c].outcome = run[c].outcome
        /\ run'[c].pc = IF run[c].outcome = "not_sent" THEN "closed" ELSE "settled"
        /\ ledger'[c] = IF ledger[c] = "reserved" THEN RowAfter(run[c].outcome) ELSE ledger[c]
        /\ UNCHANGED <<req, lease, selfPost, outside, clock, posted, confirmed, doubtful>>
    BY <1>0, <1>15 DEF Settle, Request, RunRow, tables, provider, ghosts
  <2> QED BY <1>0, <1>t, <2>1
          DEF CallInvariant, Stands, Row, UnderWay, Windows, Holds, Recorded, IsRunning, Running, RowAfter
<1>16. CASE ListAfterSend(c)
  <2>1. /\ run[c].pc = "settled" /\ run'[c].pc = "closed" /\ run'[c].outcome = run[c].outcome
        /\ UNCHANGED <<req, lease, selfPost, ledger, outside, clock, posted, confirmed, doubtful>>
    BY <1>0, <1>16 DEF ListAfterSend, RunRow, tables, provider, ghosts
  <2> QED BY <1>0, <1>t, <2>1
          DEF CallInvariant, Stands, Row, UnderWay, Windows, Holds, Recorded, IsRunning, Running
<1>17. CASE Record(c)
  <2>1. /\ run[c].pc = "closed" /\ run'[c].pc = "recorded" /\ run'[c].outcome = run[c].outcome
        /\ run[c].outcome = "ok" => selfPost'[req[c].employee].at >= posted[c]
        /\ run[c].outcome # "ok" => selfPost' = selfPost
        /\ UNCHANGED <<req, lease, ledger, outside, clock, posted, confirmed, doubtful>>
    BY <1>0, <1>t, <1>17 DEF Record, Request, RunRow, SelfPost, tables, provider, ghosts
  <2> QED BY <1>0, <1>t, <2>1
          DEF CallInvariant, Stands, Row, UnderWay, Windows, Holds, Recorded, IsRunning, Running
<1>18. CASE Finish(c)
  <2>1. /\ run[c].pc = "recorded"
        /\ run'[c].pc \in {"done", "ready"} /\ (c \in Direct => run'[c].pc = "done")
        /\ UNCHANGED <<req, selfPost, ledger, outside, clock, posted, confirmed, doubtful>>
    BY <1>0, <1>s, <1>18 DEF Finish, tables, provider, ghosts
  <2> QED BY <1>0, <1>t, <2>1
          DEF CallInvariant, Stands, Row, UnderWay, Windows, Holds, Recorded, IsRunning, Running
<1>19. CASE ConfirmAbsent(c)
  <2>1. /\ ledger[c] = "uncertain" /\ ledger'[c] = "none" /\ confirmed' = confirmed \cup {c}
        /\ UNCHANGED <<req, run, lease, selfPost, outside, clock, posted, doubtful>>
    BY <1>0, <1>19 DEF ConfirmAbsent, tables, provider, ghosts
  <2> QED BY <1>0, <1>t, <2>1
          DEF CallInvariant, Stands, Row, UnderWay, Windows, Holds, Recorded, IsRunning, Running
<1>20. CASE AgeOut(c)
  <2>1. /\ ledger[c] # "none" /\ ~IsRunning(c)
        /\ <<c, c>> \in outside' => <<c, c>> \in outside \/ c \in Direct \/ req[c].status = "absent"
        /\ UNCHANGED <<req, run, lease, selfPost, ledger, clock, posted, confirmed, doubtful>>
    BY <1>20 DEF AgeOut, provider, ghosts
  <2>2. run[c].pc \in Running \cup {"idle", "ready", "done"}
    BY <1>0 DEF RunRow
  <2>3. Windows(c)'
    BY <1>0, <2>1, <2>2 DEF CallInvariant, Windows, Stands, Row, IsRunning, Running
  <2> QED BY <1>0, <1>t, <2>1, <2>3 
          DEF CallInvariant, Stands, Row, UnderWay, Holds, Recorded, IsRunning, Running
<1>21. CASE StoreFails(c)
  <2>1. /\ run[c].pc \in {"posted", "closed"} /\ doubtful' = doubtful \cup {c}
        /\ run'[c].pc \in {"recorded", "closed", "settled"}
        /\ UNCHANGED <<req, lease, selfPost, ledger, outside, clock, posted, confirmed>>
    BY <1>0, <1>21 DEF StoreFails, Request, RunRow, Lose, tables, provider, ghosts
  <2> QED BY <1>0, <1>t, <2>1
          DEF CallInvariant, Stands, Row, UnderWay, Windows, Holds, Recorded, IsRunning, Running
<1>22. CASE Die(c)
  <2>1. /\ doubtful' = doubtful \cup {c}
        /\ IsRunning(c) /\ run'[c].pc = IF c \in Direct THEN "done" ELSE "ready"
        /\ UNCHANGED <<req, lease, selfPost, ledger, outside, clock, posted, confirmed>>
    BY <1>0, <1>s, <1>22 DEF Die, Lose, tables, provider, ghosts
  <2> QED BY <1>0, <1>t, <2>1
          DEF CallInvariant, Stands, Row, UnderWay, Windows, Holds, Recorded, IsRunning, Running
<1>23. CASE ListOnFiling(c)
  <2>1. UNCHANGED <<req, run, lease, selfPost, ledger, outside, clock, posted, confirmed, doubtful>>
    BY <1>23 DEF ListOnFiling, tables, provider, ghosts
  <2> QED BY <1>0, <2>1
          DEF CallInvariant, Stands, Row, UnderWay, Windows, Holds, Recorded, IsRunning
<1> QED BY <1>1, <1>2, <1>3, <1>4, <1>5, <1>6, <1>7, <1>8, <1>9, <1>10, <1>11, <1>12, <1>13, <1>14, <1>15, <1>16, <1>17, <1>18, <1>19, <1>20, <1>21, <1>22, <1>23
       DEF StepOf, RequestStep, SendStep

LEMMA CallsStep ==
  ASSUME ReplyInvariant, [ReplyNext]_replyVars, NEW x \in Call
  PROVE  CallInvariant(x)'
<1>0. ReplyTypeOK /\ \A c \in Call : CallInvariant(c)
  BY DEF ReplyInvariant
<1>1. ASSUME NEW c \in Call, StepOf(c) PROVE CallInvariant(x)'
  <2>1. CASE x = c
    BY <1>0, <1>1, <2>1, ActorStep DEF CallInvariant
  <2>2. CASE x # c
    BY <1>0, <1>1, <2>2, ElsewhereKept
  <2> QED BY <2>1, <2>2
<1>2. CASE LapseLease
  <2>1. /\ UNCHANGED <<req, run, selfPost, ledger, outside, clock, posted, confirmed>>
        /\ doubtful \subseteq doubtful'
        /\ IsRunning(lease.call) => lease.call \in doubtful'
    BY <1>2 DEF LapseLease, Lose, tables, provider
  <2> QED BY <1>0, <2>1
          DEF CallInvariant, Stands, Row, UnderWay, Windows, Holds, Recorded, IsRunning
<1>3. CASE UNCHANGED replyVars
  <2>1. UNCHANGED <<req, run, lease, selfPost, ledger, outside, clock, posted, confirmed, doubtful>>
    BY <1>3 DEF replyVars, tables, provider, ghosts
  <2> QED BY <1>0, <2>1
          DEF CallInvariant, Stands, Row, UnderWay, Windows, Holds, Recorded, IsRunning
<1>4. ASSUME NEW why \in Sweep, NEW c \in Call, NEW a \in Approval, CloseListed(why, c, a)
      PROVE  CallInvariant(x)'
  <2>1. /\ UNCHANGED <<run, lease, selfPost, ledger, outside, clock, posted, confirmed, doubtful>>
        /\ req'[x].employee = req[x].employee
        /\ req'[x].status = req[x].status
             \/ (x = a /\ req[x].status = "pending" /\ req'[x].status = "superseded")
    BY <1>0, <1>4 DEF CloseListed, tables, provider, ghosts, ReplyTypeOK, Request
  <2>2. a \notin Direct
    BY ReplyConstants DEF ReplyConstants
  <2> QED BY <1>0, <2>1, <2>2
          DEF CallInvariant, Stands, Row, UnderWay, Windows, Holds, Recorded, IsRunning
<1> QED BY <1>1, <1>2, <1>3, <1>4 DEF ReplyNext, StepOf

(***************************************************************************)
(* Calls against one another                                               *)
(***************************************************************************)
\* Only ClaimSend makes a call claimed, only Post posts, and only an ageing row leaves a
\* window.
LEMMA WhoClaims ==
  ASSUME ReplyTypeOK, [ReplyNext]_replyVars, NEW c \in Call,
         run'[c].pc = "claimed", run[c].pc # "claimed"
  PROVE  ClaimSend(c)
<1>0. run \in [Call -> RunRow]
  BY DEF ReplyTypeOK, RunRow
<1>1. ASSUME NEW x \in Call, StepOf(x) PROVE ClaimSend(c)
  <2>1. x = c
    BY <1>1, Elsewhere
  <2>2. Stopped(c)[c].pc # "claimed" /\ Ended(c)[c].pc # "claimed"
    BY <1>0 DEF Stopped, Ended
  <2>3. ~RequestStep(c)
    BY <1>0 DEF RequestStep, Receive, QueueApproval, Approve, Expire, ListOnFiling, RunRow
  <2>4. SendStep(c) => ClaimSend(c)
    BY <1>0, <2>2 DEF SendStep, Acquire, TurnedAway, FindMovedOn, FindCurrent, Unavailable,
       FindDuplicate, FindExpired, Post, ThrowBeforePost, Settle, ListAfterSend, Record, Finish, RunRow
  <2>5. ~(ConfirmAbsent(c) \/ AgeOut(c) \/ StoreFails(c) \/ Die(c))
    BY <1>0, <2>2 DEF ConfirmAbsent, AgeOut, StoreFails, Die, RunRow
  <2> QED BY <1>1, <2>1, <2>3, <2>4, <2>5 DEF StepOf
<1>2. /\ ~LapseLease /\ ~UNCHANGED replyVars
      /\ \A why \in Sweep, x \in Call, b \in Approval : ~CloseListed(why, x, b)
  BY DEF CloseListed, LapseLease, replyVars
<1> QED BY <1>1, <1>2 DEF ReplyNext, StepOf

LEMMA WhoPosts ==
  ASSUME ReplyTypeOK, [ReplyNext]_replyVars, NEW c \in Call, posted'[c] # posted[c]
  PROVE  Post(c)
<1>0. posted \in [Call -> Nat]
  BY DEF ReplyTypeOK
<1>1. ASSUME NEW x \in Call, StepOf(x) PROVE Post(c)
  <2>1. x = c
    BY <1>1, Elsewhere
  <2>2. ~RequestStep(c)
    BY DEF RequestStep, Receive, QueueApproval, Approve, Expire, ListOnFiling, provider
  <2>3. SendStep(c) => Post(c)
    BY DEF SendStep, Acquire, TurnedAway, FindMovedOn, FindCurrent, Unavailable, ClaimSend,
       FindDuplicate, FindExpired, ThrowBeforePost, Settle, ListAfterSend, Record, Finish, provider
  <2>4. ~(ConfirmAbsent(c) \/ AgeOut(c) \/ StoreFails(c) \/ Die(c))
    BY DEF ConfirmAbsent, AgeOut, StoreFails, Die, provider
  <2> QED BY <1>1, <2>1, <2>2, <2>3, <2>4 DEF StepOf
<1>2. /\ ~LapseLease /\ ~UNCHANGED replyVars
      /\ \A why \in Sweep, x \in Call, b \in Approval : ~CloseListed(why, x, b)
  BY DEF CloseListed, LapseLease, replyVars, provider
<1> QED BY <1>1, <1>2 DEF ReplyNext, StepOf

\* A row enters a window again only where it is claimed.
LEMMA WhoReturns ==
  ASSUME ReplyTypeOK, [ReplyNext]_replyVars, NEW c \in Call, NEW r \in Call,
         <<c, r>> \in outside, <<c, r>> \notin outside'
  PROVE  ClaimSend(r)
<1>1. ASSUME NEW x \in Call, StepOf(x) PROVE ClaimSend(r)
  <2>1. ClaimSend(x) => x = r
    BY DEF ClaimSend
  <2>2. ~RequestStep(x)
    BY DEF RequestStep, Receive, QueueApproval, Approve, Expire, ListOnFiling, tables
  <2>3. SendStep(x) => ClaimSend(x)
    BY DEF SendStep, Acquire, TurnedAway, FindMovedOn, FindCurrent, Unavailable, Post,
       FindDuplicate, FindExpired, ThrowBeforePost, Settle, ListAfterSend, Record, Finish, tables
  <2>4. ~(ConfirmAbsent(x) \/ AgeOut(x) \/ StoreFails(x) \/ Die(x))
    BY DEF ConfirmAbsent, AgeOut, StoreFails, Die, tables
  <2> QED BY <1>1, <2>1, <2>2, <2>3, <2>4 DEF StepOf
<1>2. /\ ~LapseLease /\ ~UNCHANGED replyVars
      /\ \A why \in Sweep, x \in Call, b \in Approval : ~CloseListed(why, x, b)
  BY DEF CloseListed, LapseLease, replyVars, tables
<1> QED BY <1>1, <1>2 DEF ReplyNext, StepOf

LEMMA AlikeKept ==
  ASSUME ReplyTypeOK, [ReplyNext]_replyVars, NEW c \in Call, NEW r \in Call
  PROVE  /\ Alike(c, r)' <=> Alike(c, r)
         /\ SameJob(c, r)' <=> SameJob(c, r)
         /\ Alike(c, r) <=> Alike(r, c)
         /\ Matches(c, r) => Alike(c, r)
         /\ <<c, r>> \notin outside => (Alike(c, r) <=> Matches(c, r))
<1>1. /\ req'[c].employee = req[c].employee /\ req'[c].job = req[c].job /\ req'[c].body = req[c].body
      /\ req'[r].employee = req[r].employee /\ req'[r].job = req[r].job /\ req'[r].body = req[r].body
  BY RequestsKept
<1> QED BY <1>1 DEF Alike, SameJob, Matches

\* A claim finds no row of a call that it could meet at the post.
LEMMA ClaimMeetsNone ==
  ASSUME ReplyInvariant, [ReplyNext]_replyVars, NEW c \in Call, ClaimSend(c), NEW r \in Call
  PROVE  /\ Matches(c, r) => ledger[r] = "none"
         /\ run[r].pc = "claimed" => ~Alike(c, r)
<1>1. Matches(c, r) => ledger[r] = "none"
  BY DEF ClaimSend, StoppingRows
<1>2. run[r].pc = "claimed" => ledger[r] = "reserved" /\ <<c, r>> \notin outside
  BY DEF ReplyInvariant, CallInvariant, Row, Windows
<1> QED BY <1>1, <1>2, AlikeKept DEF ReplyInvariant

LEMMA ApartStep ==
  ASSUME ReplyInvariant, [ReplyNext]_replyVars
  PROVE  Apart'
<1> SUFFICES ASSUME NEW c \in Call, NEW r \in Call, run'[c].pc = "claimed", run'[r].pc = "claimed",
                    Alike(c, r)', c # r
             PROVE  FALSE
  BY DEF Apart
<1>0. ReplyTypeOK /\ Alike(c, r) /\ Alike(r, c)
  BY AlikeKept DEF ReplyInvariant
<1>1. CASE run[c].pc # "claimed"
  <2>1. ClaimSend(c)
    BY <1>0, <1>1, WhoClaims
  <2>2. run[r].pc = "claimed"
    BY <1>0, <2>1, Elsewhere DEF StepOf, SendStep
  <2> QED BY <1>0, <2>1, <2>2, ClaimMeetsNone
<1>2. CASE run[c].pc = "claimed" /\ run[r].pc # "claimed"
  <2>1. ClaimSend(r)
    BY <1>0, <1>2, WhoClaims
  <2> QED BY <1>0, <1>2, <2>1, ClaimMeetsNone
<1>3. CASE run[c].pc = "claimed" /\ run[r].pc = "claimed"
  BY <1>0, <1>3 DEF ReplyInvariant, Apart
<1> QED BY <1>1, <1>2, <1>3

LEMMA FreshStep ==
  ASSUME ReplyInvariant, [ReplyNext]_replyVars
  PROVE  Fresh'
<1> SUFFICES ASSUME NEW c \in Call, NEW r \in Call, run'[c].pc = "claimed", posted'[r] # 0,
                    Matches(c, r)', r \notin confirmed'
             PROVE  FALSE
  BY DEF Fresh
<1>0. /\ ReplyTypeOK /\ \A x \in Call : CallInvariant(x)
      /\ confirmed \subseteq confirmed' /\ Alike(c, r) /\ (r = c => Alike(c, c))
  <2>1. ReplyTypeOK /\ \A x \in Call : CallInvariant(x) /\ UnderWay(x)
    BY DEF ReplyInvariant, CallInvariant
  <2>2. Alike(c, r)'
    BY DEF Alike, Matches
  <2> QED BY <2>1, <2>2, NothingUndone, AlikeKept
<1>1. CASE ClaimSend(c)
  <2>1. posted[r] # 0
    BY <1>0, <1>1, WhoPosts DEF ClaimSend, provider
  <2>2. ledger[r] # "none"
    BY <1>0, <2>1 DEF CallInvariant, Row
  <2>3. ~Matches(c, r)
    BY <1>1, <2>2, ClaimMeetsNone
  <2>4. r # c
    BY <1>0, <1>1, <2>3, AlikeKept DEF CallInvariant, Windows, ClaimSend
  <2>5. <<c, r>> \in outside /\ <<c, r>> \in outside'
    BY <1>0, <1>1, <2>3, <2>4, AlikeKept DEF ClaimSend
  <2> QED BY <1>0, <2>3, <2>5, RequestsKept DEF Matches, SameJob
<1>2. CASE ~ClaimSend(c)
  <2>1. run[c].pc = "claimed"
    BY <1>0, <1>2, WhoClaims
  <2>2. CASE posted[r] = 0
    <3>1. Post(r)
      BY <1>0, <2>2, WhoPosts
    <3>2. run[r].pc = "claimed" /\ run'[r].pc = "posted"
      BY <1>0, <3>1 DEF Post, ReplyTypeOK
    <3>3. r = c
      BY <1>0, <2>1, <3>2 DEF ReplyInvariant, Apart
    <3> QED BY <3>2, <3>3
  <2>3. CASE posted[r] # 0
    <3>1. ~Matches(c, r)
      BY <1>0, <2>1, <2>3 DEF ReplyInvariant, Fresh
    <3>2. <<c, r>> \in outside /\ ~SameJob(c, r)
      BY <1>0, <3>1 DEF Matches, Alike
    <3>3. <<c, r>> \notin outside'
      BY <1>0, <3>2, AlikeKept DEF Matches
    <3>4. ClaimSend(r)
      BY <1>0, <3>2, <3>3, WhoReturns
    <3>5. ~Alike(r, c)
      BY <2>1, <3>4, ClaimMeetsNone
    <3> QED BY <1>0, <3>5, AlikeKept
  <2> QED BY <2>2, <2>3
<1> QED BY <1>1, <1>2

LEMMA WhoClears ==
  ASSUME ReplyTypeOK, [ReplyNext]_replyVars, NEW c \in Call,
         run'[c].pc = "cleared", run[c].pc # "cleared"
  PROVE  FindCurrent(c)
<1>0. run \in [Call -> RunRow]
  BY DEF ReplyTypeOK, RunRow
<1>1. ASSUME NEW x \in Call, StepOf(x) PROVE FindCurrent(c)
  <2>1. x = c
    BY <1>1, Elsewhere
  <2>2. Stopped(c)[c].pc # "cleared" /\ Ended(c)[c].pc # "cleared"
    BY <1>0 DEF Stopped, Ended
  <2>3. ~RequestStep(c)
    BY <1>0 DEF RequestStep, Receive, QueueApproval, Approve, Expire, ListOnFiling, RunRow
  <2>4. SendStep(c) => FindCurrent(c)
    BY <1>0, <2>2 DEF SendStep, Acquire, TurnedAway, FindMovedOn, ClaimSend, Unavailable,
       FindDuplicate, FindExpired, Post, ThrowBeforePost, Settle, ListAfterSend, Record, Finish, RunRow
  <2>5. ~(ConfirmAbsent(c) \/ AgeOut(c) \/ StoreFails(c) \/ Die(c))
    BY <1>0, <2>2 DEF ConfirmAbsent, AgeOut, StoreFails, Die, RunRow
  <2> QED BY <1>1, <2>1, <2>3, <2>4, <2>5 DEF StepOf
<1>2. /\ ~LapseLease /\ ~UNCHANGED replyVars
      /\ \A why \in Sweep, x \in Call, b \in Approval : ~CloseListed(why, x, b)
  BY DEF CloseListed, LapseLease, replyVars
<1> QED BY <1>1, <1>2 DEF ReplyNext, StepOf

LEMMA WhoTakes ==
  ASSUME ReplyTypeOK, [ReplyNext]_replyVars, NEW c \in Call,
         lease'.call = c, lease'.live, ~(lease.call = c /\ lease.live)
  PROVE  Acquire(c)
<1>1. ASSUME NEW x \in Call, StepOf(x) PROVE Acquire(c)
  <2>1. lease' # lease
    OBVIOUS
  <2>2. ~RequestStep(x)
    BY <2>1 DEF RequestStep, Receive, QueueApproval, Approve, Expire, ListOnFiling
  <2>3. lease' # Released(x)
    BY <2>1 DEF Released
  <2>4. SendStep(x) => Acquire(x)
    BY <2>1, <2>3 DEF SendStep, TurnedAway, FindMovedOn, FindCurrent, ClaimSend, Unavailable,
       FindDuplicate, FindExpired, Post, ThrowBeforePost, Settle, ListAfterSend, Record, Finish
  <2>5. ~(ConfirmAbsent(x) \/ AgeOut(x) \/ StoreFails(x) \/ Die(x))
    BY <2>1 DEF ConfirmAbsent, AgeOut, StoreFails, Die
  <2>6. Acquire(x) => x = c
    BY DEF Acquire
  <2> QED BY <1>1, <2>2, <2>4, <2>5, <2>6 DEF StepOf
<1>2. /\ ~LapseLease /\ ~UNCHANGED replyVars
      /\ \A why \in Sweep, x \in Call, b \in Approval : ~CloseListed(why, x, b)
  BY DEF CloseListed, LapseLease, replyVars, ReplyTypeOK
<1> QED BY <1>1, <1>2 DEF ReplyNext, StepOf

LEMMA CurrentStep ==
  ASSUME ReplyInvariant, [ReplyNext]_replyVars
  PROVE  Current'
<1> SUFFICES ASSUME NEW c \in Call, NEW d \in Call, run'[c].pc \in {"cleared", "claimed"},
                    lease'.call = c, lease'.live, req'[c].read # Unread,
                    posted'[d] # 0, req'[d].employee # req'[c].employee
             PROVE  posted'[d] <= req'[c].read \/ d \in doubtful'
  BY DEF Current
<1>0. /\ ReplyTypeOK /\ \A x \in Call : CallInvariant(x)
      /\ doubtful \subseteq doubtful'
      /\ req[d].employee # req[c].employee /\ d # c /\ req[d].employee \in Employee
  <2>1. ReplyTypeOK /\ \A x \in Call : CallInvariant(x) /\ UnderWay(x)
    BY DEF ReplyInvariant, CallInvariant
  <2>2. req[d].employee \in Employee
    BY <2>1 DEF ReplyTypeOK, Request
  <2> QED BY <2>1, <2>2, NothingUndone, RequestsKept
<1>1. IsRunning(d) /\ lease.call = c => d \in doubtful
  BY <1>0 DEF CallInvariant, Holds
<1>2. CASE FindCurrent(c)
  <2>1. /\ run[c].pc = "checking" /\ req' = req /\ posted' = posted
        /\ \E recent \in BOOLEAN : ~MovedOn(c, recent)
        /\ lease.call = c /\ lease.live
    BY <1>2 DEF FindCurrent, provider
  <2>2. ~(selfPost[req[d].employee].at > req[c].read)
    BY <1>0, <2>1 DEF MovedOn, PostedSince
  <2>3. posted[d] <= selfPost[req[d].employee].at \/ d \in doubtful
    BY <1>0, <1>1, <2>1 DEF CallInvariant, Recorded, IsRunning, Running
  <2>4. /\ selfPost[req[d].employee].at \in Nat /\ req[c].read \in Nat \cup {Unread}
        /\ posted[d] \in Nat
    BY <1>0 DEF ReplyTypeOK, SelfPost, Request
  <2> QED BY <1>0, <2>1, <2>2, <2>3, <2>4 DEF Unread
<1>3. CASE ~FindCurrent(c)
  <2>1. run[c].pc \in {"cleared", "claimed"}
    BY <1>0, <1>3, WhoClears, WhoClaims DEF ClaimSend
  <2>2. ~Acquire(c)
    BY <2>1 DEF Acquire
  <2>3. lease.call = c /\ lease.live
    BY <1>0, <2>2, WhoTakes
  <2>4. req'[c].read = req[c].read
    BY <1>0, <2>1, RequestsKept DEF CallInvariant, Stands
  <2>5. CASE posted'[d] = posted[d]
    BY <1>0, <2>1, <2>3, <2>4, <2>5 DEF ReplyInvariant, Current
  <2>6. CASE posted'[d] # posted[d]
    <3>1. run[d].pc = "claimed"
      BY <1>0, <2>6, WhoPosts DEF Post
    <3> QED BY <1>0, <1>1, <2>3, <3>1 DEF IsRunning, Running
  <2> QED BY <2>5, <2>6
<1> QED BY <1>2, <1>3

LEMMA WhoRecords ==
  ASSUME ReplyTypeOK, [ReplyNext]_replyVars, NEW e \in Employee, selfPost'[e].at # selfPost[e].at
  PROVE  \E c \in Call : selfPost'[e].at = posted[c]
<1>0. selfPost \in [Employee -> SelfPost]
  BY DEF ReplyTypeOK
<1>1. ASSUME NEW x \in Call, StepOf(x) PROVE selfPost'[e].at = posted[x]
  <2>1. selfPost' # selfPost
    OBVIOUS
  <2>2. ~RequestStep(x)
    BY <2>1 DEF RequestStep, Receive, QueueApproval, Approve, Expire, ListOnFiling, tables
  <2>3. SendStep(x) => Record(x)
    BY <2>1 DEF SendStep, Acquire, TurnedAway, FindMovedOn, FindCurrent, ClaimSend, Unavailable,
       FindDuplicate, FindExpired, Post, ThrowBeforePost, Settle, ListAfterSend, Finish, tables
  <2>4. ~(ConfirmAbsent(x) \/ AgeOut(x) \/ StoreFails(x) \/ Die(x))
    BY <2>1 DEF ConfirmAbsent, AgeOut, StoreFails, Die, tables
  <2>5. Record(x)
    BY <1>1, <2>2, <2>3, <2>4 DEF StepOf
  <2> QED BY <1>0, <2>5 DEF Record
<1>2. /\ ~LapseLease /\ ~UNCHANGED replyVars
      /\ \A why \in Sweep, x \in Call, b \in Approval : ~CloseListed(why, x, b)
  BY DEF CloseListed, LapseLease, replyVars, tables
<1> QED BY <1>1, <1>2 DEF ReplyNext, StepOf

LEMMA SelfPostsStep ==
  ASSUME ReplyInvariant, [ReplyNext]_replyVars
  PROVE  SelfPostsArePosts'
<1> SUFFICES ASSUME NEW e \in Employee, selfPost'[e].at # 0
             PROVE  \E d \in Call : posted'[d] >= selfPost'[e].at
  BY DEF SelfPostsArePosts
<1>0. ReplyTypeOK /\ \A x \in Call : UnderWay(x)
  BY DEF ReplyInvariant, CallInvariant
<1>1. /\ \A x \in Call : posted[x] <= posted'[x] /\ posted[x] \in Nat /\ posted'[x] \in Nat
      /\ selfPost[e].at \in Nat /\ selfPost'[e].at \in Nat
  BY <1>0, NothingUndone
<1>2. PICK d \in Call : posted[d] >= selfPost'[e].at
  <2>1. CASE selfPost'[e].at = selfPost[e].at
    BY <2>1 DEF ReplyInvariant, SelfPostsArePosts
  <2>2. CASE selfPost'[e].at # selfPost[e].at
    <3>1. PICK d \in Call : selfPost'[e].at = posted[d]
      BY <1>0, <2>2, WhoRecords
    <3> QED BY <1>1, <3>1
  <2> QED BY <2>1, <2>2
<1>3. posted'[d] >= selfPost'[e].at
  BY <1>1, <1>2
<1> QED BY <1>3

(***************************************************************************)
(* Approvals closed as superseded                                          *)
(***************************************************************************)
\* What was filed, and in which order, changes where a ticket is filed or its filer lists.
LEMMA WhoFiles ==
  ASSUME ReplyTypeOK, [ReplyNext]_replyVars
  PROVE  /\ before \subseteq before' /\ crossed \subseteq crossed'
         /\ \/ \E c \in Call, read \in 0..clock \cup {Unread} : QueueApproval(c, read)
            \/ \E c \in Call : ListOnFiling(c)
            \/ /\ UNCHANGED <<filing, before, crossed>>
               /\ \A a \in Approval : req[a].status = "absent" => req'[a].status = "absent"
<1> DEFINE Still == /\ UNCHANGED <<filing, before, crossed>>
                    /\ \A a \in Approval : req[a].status = "absent" => req'[a].status = "absent"
<1>0. /\ req \in [Call -> Request] /\ Approval \subseteq Call /\ Direct \cap Approval = {}
  BY ReplyConstants DEF ReplyTypeOK, ReplyConstants, Call
<1>1. ASSUME NEW c \in Call, NEW read \in 0..clock \cup {Unread}, Receive(c, read) PROVE Still
  BY <1>0, <1>1 DEF Receive, sweeps
<1>2. ASSUME NEW c \in Call, Approve(c) \/ Expire(c) PROVE Still
  BY <1>0, <1>2 DEF Approve, Expire, sweeps
<1>3. ASSUME NEW c \in Call, SendStep(c) PROVE Still
  <2>1. UNCHANGED <<filing, before, crossed>>
    BY <1>3 DEF SendStep, Acquire, TurnedAway, FindMovedOn, FindCurrent, Unavailable, ClaimSend,
       FindDuplicate, FindExpired, Post, ThrowBeforePost, Settle, ListAfterSend, Record, Finish, sweeps
  <2>2. \A s \in {"superseded", "expired"}, a \in Call :
          req[a].status = "absent" => CloseApproved(c, s)[a].status = "absent"
    BY CloseApprovedKeeps
  <2>3. \A a \in Call : req[a].status = "absent" => req'[a].status = "absent"
    BY <1>3, <2>2 DEF SendStep, Acquire, TurnedAway, FindMovedOn, FindCurrent, Unavailable, ClaimSend,
       FindDuplicate, FindExpired, Post, ThrowBeforePost, Settle, ListAfterSend, Record, Finish
  <2> QED BY <1>0, <2>1, <2>3
<1>4. ASSUME NEW c \in Call, ConfirmAbsent(c) \/ AgeOut(c) \/ StoreFails(c) \/ Die(c) PROVE Still
  BY <1>4 DEF ConfirmAbsent, AgeOut, StoreFails, Die, sweeps
<1>5. ASSUME NEW why \in Sweep, NEW c \in Call, NEW a \in Approval, CloseListed(why, c, a)
      PROVE  Still
  BY <1>0, <1>5 DEF CloseListed
<1>6. LapseLease \/ UNCHANGED replyVars => Still
  BY DEF LapseLease, replyVars, sweeps
<1>7. ASSUME NEW c \in Call, NEW read \in 0..clock \cup {Unread}, QueueApproval(c, read)
      PROVE  before \subseteq before' /\ crossed \subseteq crossed'
  BY <1>7 DEF QueueApproval
<1>8. ASSUME NEW c \in Call, ListOnFiling(c) PROVE before \subseteq before' /\ crossed \subseteq crossed'
  BY <1>8 DEF ListOnFiling
<1>9. Still => before \subseteq before' /\ crossed \subseteq crossed'
  OBVIOUS
<1> HIDE DEF Still
<1>10. \/ Still
       \/ \E c \in Call, read \in 0..clock \cup {Unread} : QueueApproval(c, read)
       \/ \E c \in Call : ListOnFiling(c)
  BY <1>1, <1>2, <1>3, <1>4, <1>5, <1>6 DEF ReplyNext, RequestStep
<1> QED BY <1>7, <1>8, <1>9, <1>10 DEF Still

\* An approval is listed for closing when its replacement is filed or a message was sent.
LEMMA WhoLists ==
  ASSUME ReplyTypeOK, [ReplyNext]_replyVars, NEW why \in Sweep, NEW c \in Call, NEW a \in Approval,
         <<why, c, a>> \in toClose', <<why, c, a>> \notin toClose
  PROVE  \/ ListOnFiling(c) /\ <<why, c, a>> \in Listed("filed", c)
         \/ ListAfterSend(c) /\ <<why, c, a>> \in Listed("sent", c)
<1>1. ASSUME NEW x \in Call, RequestStep(x) PROVE ListOnFiling(x)
  BY <1>1 DEF RequestStep, Receive, QueueApproval, Approve, Expire, sweeps
<1>2. ASSUME NEW x \in Call, SendStep(x) PROVE ListAfterSend(x)
  BY <1>2 DEF SendStep, Acquire, TurnedAway, FindMovedOn, FindCurrent, Unavailable, ClaimSend,
     FindDuplicate, FindExpired, Post, ThrowBeforePost, Settle, Record, Finish, sweeps
<1>3. ASSUME NEW x \in Call, ConfirmAbsent(x) \/ AgeOut(x) \/ StoreFails(x) \/ Die(x) PROVE FALSE
  BY <1>3 DEF ConfirmAbsent, AgeOut, StoreFails, Die, sweeps
<1>4. /\ ~LapseLease /\ ~UNCHANGED replyVars
      /\ \A w \in Sweep, x \in Call, b \in Approval : ~CloseListed(w, x, b)
  BY DEF CloseListed, LapseLease, replyVars, sweeps
<1>5. ASSUME NEW x \in Call, ListOnFiling(x)
      PROVE  x = c /\ <<why, c, a>> \in Listed("filed", c)
  <2>1. <<why, c, a>> \in Listed("filed", x)
    BY <1>5 DEF ListOnFiling
  <2>2. x = c
    BY <2>1 DEF Listed
  <2> QED BY <2>1, <2>2
<1>6. ASSUME NEW x \in Call, ListAfterSend(x)
      PROVE  x = c /\ <<why, c, a>> \in Listed("sent", c)
  <2>1. <<why, c, a>> \in Listed("sent", x)
    BY <1>6 DEF ListAfterSend
  <2>2. x = c
    BY <2>1 DEF Listed
  <2> QED BY <2>1, <2>2
<1> QED BY <1>1, <1>2, <1>3, <1>4, <1>5, <1>6 DEF ReplyNext

\* A reason stays one.
LEMMA ReasonKept ==
  ASSUME ReplyInvariant, [ReplyNext]_replyVars, NEW a \in Approval, NEW d \in Call,
         Reason(a, d), req[a].status # "absent"
  PROVE  Reason(a, d)'
<1>0. /\ ReplyTypeOK /\ \A x \in Call : UnderWay(x)
      /\ a \in Call
  BY DEF ReplyInvariant, CallInvariant, Call
<1>1. /\ doubtful \subseteq doubtful'
      /\ posted[d] <= posted'[d] /\ posted[d] \in Nat /\ posted'[d] \in Nat
  BY <1>0, NothingUndone
<1>2. /\ req'[a].read = req[a].read /\ req'[a].body = req[a].body /\ req'[d].body = req[d].body
      /\ req'[a].employee = req[a].employee /\ req'[d].employee = req[d].employee
  BY <1>0, RequestsKept
<1>3. before \subseteq before' /\ crossed \subseteq crossed'
  BY <1>0, WhoFiles
<1>4. req[a].read \in Nat \cup {Unread}
  BY <1>0 DEF ReplyTypeOK, Request
<1>5. req[a].read # Unread /\ posted[d] > req[a].read => posted'[d] > req'[a].read
  BY <1>1, <1>2, <1>4 DEF Unread
<1>6. Answered(a, d) => Answered(a, d)'
  BY <1>1, <1>2, <1>5 DEF Answered
<1>7. Replaced(a, d) => Replaced(a, d)'
  BY <1>2, <1>3 DEF Replaced
<1> QED BY <1>6, <1>7 DEF Reason

LEMMA FilingsStep ==
  ASSUME ReplyInvariant, [ReplyNext]_replyVars
  PROVE  Filings'
<1>0. /\ ReplyTypeOK /\ Filings /\ Approval \subseteq Call
      /\ filing \in [Approval -> {"idle", "filed", "listed"}]
      /\ before \subseteq Approval \X Approval /\ crossed \subseteq Approval \X Approval
  BY DEF ReplyInvariant, ReplyTypeOK, Call
<1>1. CASE /\ UNCHANGED <<filing, before, crossed>>
           /\ \A a \in Approval : req[a].status = "absent" => req'[a].status = "absent"
  <2>1. \A a \in Approval : req'[a].status = "absent" <=> req[a].status = "absent"
    BY <1>0, <1>1, RequestsKept
  <2> QED BY <1>0, <1>1, <2>1 DEF Filings
<1>2. ASSUME NEW q \in Call, NEW read \in 0..clock \cup {Unread}, QueueApproval(q, read)
      PROVE  Filings'
  <2>1. /\ q \in Approval /\ req[q].status = "absent" /\ req'[q].status = "pending"
        /\ filing' = [filing EXCEPT ![q] = "filed"]
        /\ before' = before \cup ({a \in Approval : req[a].status # "absent"} \X {q})
        /\ crossed' = crossed \cup ({a \in Approval : filing[a] = "filed"} \X {q})
        /\ \A a \in Approval \ {q} : req'[a] = req[a]
    BY <1>0, <1>2 DEF QueueApproval, ReplyTypeOK, Request
  <2>2. filing[q] = "idle" /\ filing'[q] = "filed" /\ \A a \in Approval \ {q} : filing'[a] = filing[a]
    BY <1>0, <2>1 DEF Filings
  <2>3. ASSUME NEW a \in Approval PROVE filing'[a] = "idle" <=> req'[a].status = "absent"
    BY <1>0, <2>1, <2>2 DEF Filings
  <2>4. ASSUME NEW a \in Approval, NEW c \in Approval, a # c, filing'[a] # "idle", filing'[c] # "idle"
        PROVE  <<a, c>> \in before' \/ <<c, a>> \in before'
    <3>1. CASE a # q /\ c # q
      BY <1>0, <2>1, <2>2, <2>4, <3>1 DEF Filings
    <3>2. CASE a = q
      <4>1. req[c].status # "absent"
        BY <1>0, <2>2, <2>4, <3>2 DEF Filings
      <4> QED BY <2>1, <3>2, <4>1
    <3>3. CASE c = q
      <4>1. req[a].status # "absent"
        BY <1>0, <2>2, <2>4, <3>3 DEF Filings
      <4> QED BY <2>1, <3>3, <4>1
    <3> QED BY <3>1, <3>2, <3>3
  <2>5. ASSUME NEW a \in Approval, NEW c \in Approval, <<c, a>> \in before'
        PROVE  filing'[c] = "listed" \/ (filing'[c] = "filed" /\ <<c, a>> \in crossed')
    <3>1. CASE <<c, a>> \in before
      <4>1. filing[c] = "listed" \/ (filing[c] = "filed" /\ <<c, a>> \in crossed)
        BY <1>0, <3>1 DEF Filings
      <4> QED BY <2>1, <2>2, <4>1
    <3>2. CASE <<c, a>> \notin before
      <4>1. req[c].status # "absent" /\ a = q
        BY <2>1, <2>5, <3>2
      <4>2. c # q /\ filing[c] \in {"filed", "listed"}
        BY <1>0, <2>1, <4>1 DEF Filings
      <4> QED BY <2>1, <2>2, <4>1, <4>2
    <3> QED BY <3>1, <3>2
  <2> QED BY <2>3, <2>4, <2>5 DEF Filings
<1>3. ASSUME NEW q \in Call, ListOnFiling(q) PROVE Filings'
  <2>1. /\ q \in Approval /\ filing[q] = "filed" /\ filing'[q] = "listed"
        /\ \A a \in Approval \ {q} : filing'[a] = filing[a]
        /\ UNCHANGED <<req, before, crossed>>
    BY <1>0, <1>3 DEF ListOnFiling
  <2> QED BY <1>0, <2>1 DEF Filings
<1> QED BY <1>0, <1>1, <1>2, <1>3, WhoFiles

LEMMA ListedStep ==
  ASSUME ReplyInvariant, [ReplyNext]_replyVars
  PROVE  ListedForAReason'
<1> SUFFICES ASSUME NEW why \in Sweep, NEW c \in Call, NEW a \in Approval,
                    <<why, c, a>> \in toClose'
             PROVE  req'[a].status # "absent" /\ Reason(a, c)'
  BY DEF ListedForAReason
<1>0. a \in Call /\ ReplyTypeOK /\ Filings
  BY DEF Call, ReplyInvariant
<1>1. req[a].status # "absent" /\ Reason(a, c)
  <2>1. CASE <<why, c, a>> \in toClose
    BY <2>1 DEF ReplyInvariant, ListedForAReason
  <2>2. CASE ListOnFiling(c) /\ <<why, c, a>> \in Listed("filed", c)
    <3>1. /\ a # c /\ req[a].status = "pending" /\ c \in Approval /\ filing[c] = "filed"
          /\ req[a].employee = req[c].employee /\ req[a].body = req[c].body
      BY <2>2 DEF ListOnFiling, Listed, OtherPending
    <3>2. filing[a] # "idle" /\ (<<a, c>> \in before \/ <<c, a>> \in before)
      BY <1>0, <3>1 DEF Filings
    <3>3. <<c, a>> \in before => <<c, a>> \in crossed
      BY <1>0, <3>1 DEF Filings
    <3> QED BY <3>1, <3>2, <3>3 DEF Reason, Replaced
  <2>3. CASE ListAfterSend(c) /\ <<why, c, a>> \in Listed("sent", c)
    <3>1. req[a].status = "pending" /\ req[a].body = req[c].body /\ run[c].pc = "settled"
      BY <2>3 DEF ListAfterSend, Listed, OtherPending
    <3>2. posted[c] # 0 \/ c \in doubtful
      BY <3>1 DEF ReplyInvariant, CallInvariant, UnderWay
    <3> QED BY <3>1, <3>2 DEF Reason, Answered
  <2> QED BY <1>0, <2>1, <2>2, <2>3, WhoLists
<1> QED BY <1>0, <1>1, ReasonKept, RequestsKept

LEMMA WhoSupersedes ==
  ASSUME ReplyTypeOK, [ReplyNext]_replyVars, NEW a \in Approval,
         req'[a].status = "superseded", req[a].status # "superseded"
  PROVE  \/ \E why \in Sweep, c \in Call : CloseListed(why, c, a)
         \/ FindMovedOn(a) /\ req[a].status = "approved"
         \/ /\ FindDuplicate(a) /\ req[a].status = "approved"
            /\ req' = CloseApproved(a, "superseded")
<1> DEFINE Goal ==
      \/ \E why \in Sweep, c \in Call : CloseListed(why, c, a)
      \/ FindMovedOn(a) /\ req[a].status = "approved"
      \/ /\ FindDuplicate(a) /\ req[a].status = "approved"
         /\ req' = CloseApproved(a, "superseded")
<1>0. a \in Call /\ req \in [Call -> Request]
  BY DEF Call, ReplyTypeOK
<1>2. ASSUME NEW why \in Sweep, NEW c \in Call, NEW b \in Approval, CloseListed(why, c, b)
      PROVE  Goal
  <2>1. b = a
    BY <1>0, <1>2 DEF CloseListed
  <2> QED BY <1>2, <2>1
<1>3. ASSUME NEW c \in Call, NEW s \in {"superseded", "expired"}, req' = CloseApproved(c, s)
      PROVE  c = a /\ s = "superseded" /\ req[a].status = "approved"
  BY <1>0, <1>3, CloseApprovedKeeps
<1>4. ASSUME NEW c \in Call, FindMovedOn(c) PROVE Goal
  BY <1>3, <1>4 DEF FindMovedOn
<1>5. ASSUME NEW c \in Call, FindDuplicate(c) PROVE Goal
  <2>1. req' # req
    OBVIOUS
  <2>2. req' = CloseApproved(c, "superseded")
    BY <1>5, <2>1 DEF FindDuplicate
  <2> QED BY <1>3, <1>5, <2>2
<1>6. ASSUME NEW c \in Call, FindExpired(c) PROVE FALSE
  BY <1>3, <1>6 DEF FindExpired
<1>7. ASSUME NEW c \in Call, RequestStep(c) PROVE FALSE
  <2>1. ~(\E read \in 0..clock \cup {Unread} : Receive(c, read))
    BY <1>0 DEF Receive, Request
  <2>2. ~(\E read \in 0..clock \cup {Unread} : QueueApproval(c, read))
    BY <1>0 DEF QueueApproval, Request
  <2>3. ~Approve(c) /\ ~Expire(c) /\ ~ListOnFiling(c)
    BY <1>0 DEF Approve, Expire, ListOnFiling, Request
  <2> QED BY <1>7, <2>1, <2>2, <2>3 DEF RequestStep
<1> HIDE DEF Goal
<1>8. ASSUME NEW c \in Call, SendStep(c) PROVE Goal
  BY <1>4, <1>5, <1>6, <1>8
     DEF SendStep, Acquire, TurnedAway, FindCurrent, ClaimSend, Unavailable, Post, ThrowBeforePost,
         Settle, ListAfterSend, Record, Finish
<1>9. ASSUME NEW c \in Call, ConfirmAbsent(c) \/ AgeOut(c) \/ StoreFails(c) \/ Die(c) PROVE FALSE
  BY <1>9 DEF ConfirmAbsent, AgeOut, StoreFails, Die
<1>10. ~LapseLease /\ ~UNCHANGED replyVars
  BY DEF LapseLease, replyVars
<1>11. Goal
  BY <1>2, <1>7, <1>8, <1>9, <1>10 DEF ReplyNext
<1> QED BY <1>11 DEF Goal

LEMMA SupersededStep ==
  ASSUME ReplyInvariant, [ReplyNext]_replyVars
  PROVE  SupersededForAReason'
<1> SUFFICES ASSUME NEW a \in Approval, req'[a].status = "superseded"
             PROVE  \E d \in Call : Reason(a, d)'
  BY DEF SupersededForAReason, Reason
<1>0. /\ ReplyTypeOK /\ \A x \in Call : CallInvariant(x)
      /\ a \in Call
      /\ \A x \in Call : posted[x] \in Nat
  BY DEF ReplyInvariant, ReplyTypeOK, Call
<1>2. req[a].read \in Nat \cup {Unread}
  BY <1>0 DEF ReplyTypeOK, Request
<1>4. CASE req[a].status = "superseded"
  BY <1>4, ReasonKept DEF ReplyInvariant, SupersededForAReason, Reason
<1>5. ASSUME NEW why \in Sweep, NEW c \in Call, CloseListed(why, c, a)
      PROVE  \E d \in Call : Reason(a, d)'
  BY <1>5, ReasonKept DEF CloseListed, ReplyInvariant, ListedForAReason
<1>7. CASE FindMovedOn(a) /\ req[a].status = "approved"
  <2>1. PICK e \in Employee : req[a].read # Unread /\ selfPost[e].at > req[a].read
    BY <1>7 DEF FindMovedOn, MovedOn, PostedSince
  <2>2. req[a].read \in Nat /\ selfPost[e].at \in Nat
    BY <1>0, <1>2, <2>1 DEF ReplyTypeOK, SelfPost
  <2>3. PICK d \in Call : posted[d] >= selfPost[e].at
    BY <2>1, <2>2 DEF ReplyInvariant, SelfPostsArePosts
  <2>4. posted[d] > req[a].read /\ posted[d] # 0
    BY <1>0, <2>1, <2>2, <2>3
  <2>5. Reason(a, d)
    BY <2>1, <2>4 DEF Reason, Answered
  <2> QED BY <1>7, <2>5, ReasonKept
<1>8. CASE /\ FindDuplicate(a) /\ req[a].status = "approved"
           /\ req' = CloseApproved(a, "superseded")
  <2>1. run[a].pc = "cleared"
    BY <1>8 DEF FindDuplicate
  <2>2. PICK r \in Call : r \in StoppingRows(a) /\ ledger[r] \in {"reserved", "sent"}
    <3>1. req' # req
      BY <1>8
    <3>2. PICK r \in StoppingRows(a) : ledger[r] # "uncertain"
      BY <1>8, <3>1 DEF FindDuplicate
    <3>3. r \in Call /\ ledger[r] # "none"
      BY DEF StoppingRows
    <3> QED BY <1>0, <3>2, <3>3 DEF ReplyTypeOK
  <2>3. req[r].body = req[a].body
    BY <2>2 DEF StoppingRows, Matches
  <2>4. posted[r] # 0 \/ r \in doubtful \/ a \in doubtful
    <3>1. CASE ledger[r] = "sent"
      BY <1>0, <3>1 DEF CallInvariant, Row
    <3>2. CASE ledger[r] = "reserved" /\ run[r].pc \notin {"claimed", "posted"}
      BY <1>0, <3>2 DEF CallInvariant, Row
    <3>3. CASE run[r].pc \in {"claimed", "posted"}
      <4>1. IsRunning(r) /\ IsRunning(a) /\ r # a
        BY <1>0, <2>1, <3>3 DEF IsRunning, Running
      <4> QED BY <1>0, <4>1 DEF CallInvariant, Holds
    <3> QED BY <2>2, <3>1, <3>2, <3>3
  <2>5. Reason(a, r) \/ Reason(a, a)
    BY <2>3, <2>4 DEF Reason, Answered
  <2> QED BY <1>0, <1>8, <2>5, ReasonKept
<1>9. CASE req[a].status # "superseded"
  BY <1>0, <1>5, <1>7, <1>8, <1>9, WhoSupersedes
<1> QED BY <1>4, <1>9

(***************************************************************************)
(* The theorems                                                            *)
(***************************************************************************)
LEMMA InitReply == ReplyInit => ReplyInvariant
<1> SUFFICES ASSUME ReplyInit PROVE ReplyInvariant
  OBVIOUS
<1>1. ReplyTypeOK
  BY InitTypes
<1>2. \A c \in Call : /\ run[c].pc = "idle" /\ ledger[c] = "none" /\ posted[c] = 0
                      /\ req[c].status = "absent"
  BY DEF ReplyInit
<1>3. outside = {} /\ clock = 0 /\ \A e \in Employee : selfPost[e].at = 0
  BY DEF ReplyInit
<1>4. \A c \in Call : CallInvariant(c)
  BY <1>2, <1>3 DEF CallInvariant, Stands, Row, UnderWay, Windows, Holds, Recorded, IsRunning, Running
<1>5. Apart /\ Fresh /\ Current /\ SelfPostsArePosts
  BY <1>2, <1>3 DEF Apart, Fresh, Current, SelfPostsArePosts
<1>6. SupersededForAReason
  BY <1>2 DEF SupersededForAReason, Call
<1>7. Filings /\ ListedForAReason
  BY <1>2 DEF ReplyInit, Filings, ListedForAReason, Call
<1> QED BY <1>1, <1>4, <1>5, <1>6, <1>7 DEF ReplyInvariant

LEMMA ReplyStep == ReplyInvariant /\ [ReplyNext]_replyVars => ReplyInvariant'
<1> SUFFICES ASSUME ReplyInvariant, [ReplyNext]_replyVars PROVE ReplyInvariant'
  OBVIOUS
<1>1. ReplyTypeOK'
  BY TypesStep DEF ReplyInvariant
<1>2. \A c \in Call : CallInvariant(c)'
  BY CallsStep
<1>3. /\ Apart' /\ Fresh' /\ Current' /\ SelfPostsArePosts'
      /\ Filings' /\ ListedForAReason' /\ SupersededForAReason'
  BY ApartStep, FreshStep, CurrentStep, SelfPostsStep, FilingsStep, ListedStep, SupersededStep
<1> QED BY <1>1, <1>2, <1>3 DEF ReplyInvariant

THEOREM ReplyInvariantHolds == ReplySpec => []ReplyInvariant
BY InitReply, ReplyStep, PTL DEF ReplySpec

\* The schema's values, for any number of calls and employees.
THEOREM ReplyTypesHold == ReplySpec => []ReplyTypeOK
<1>1. ReplyInvariant => ReplyTypeOK
  BY DEF ReplyInvariant
<1> QED BY <1>1, ReplyInvariantHolds, PTL

\* An approval is closed as superseded only for a message, or what may have been one, or for
\* another approval of its employee and body: a newer one, or an older one that listed too late.
THEOREM SupersededForAReasonHolds == ReplySpec => []SupersededForAReason
<1>1. ReplyInvariant => SupersededForAReason
  BY DEF ReplyInvariant
<1> QED BY <1>1, ReplyInvariantHolds, PTL

LEMMA NoDuplicateStep ==
  ASSUME ReplyInvariant, [ReplyNext]_replyVars, NEW c \in Call, NEW r \in Call,
         posted'[c] # posted[c], posted[r] # 0, Matches(c, r)
  PROVE  r \in confirmed
<1>1. Post(c)
  BY WhoPosts DEF ReplyInvariant
<1> QED BY <1>1 DEF ReplyInvariant, Fresh, Post

\* No body is posted twice within its window, however the lease is lost.
THEOREM NoDuplicateReplyHolds == ReplySpec => NoDuplicateReply
<1>1. ReplyInvariant /\ [ReplyNext]_replyVars =>
        [\A c, r \in Call :
           posted'[c] # posted[c] /\ posted[r] # 0 /\ Matches(c, r) => r \in confirmed]_replyVars
  BY NoDuplicateStep
<1> QED BY <1>1, ReplyInvariantHolds, PTL DEF ReplySpec, NoDuplicateReply

LEMMA NoStaleStep ==
  ASSUME ReplyInvariant, [ReplyNext]_replyVars, NEW c \in Call, NEW d \in Call,
         posted'[c] # posted[c], lease = [call |-> c, live |-> TRUE], req[c].read # Unread,
         posted[d] # 0, req[d].employee # req[c].employee
  PROVE  posted[d] <= req[c].read \/ d \in doubtful
<1>1. run[c].pc = "claimed"
  BY WhoPosts DEF ReplyInvariant, Post
<1> QED BY <1>1 DEF ReplyInvariant, Current

\* Whoever posts with the lease has read what the others posted, unless that is doubtful.
THEOREM NoStaleReplyHolds == ReplySpec => NoStaleReply
<1>1. ReplyInvariant /\ [ReplyNext]_replyVars =>
        [\A c, d \in Call :
           /\ posted'[c] # posted[c] /\ lease = [call |-> c, live |-> TRUE] /\ req[c].read # Unread
           /\ posted[d] # 0 /\ req[d].employee # req[c].employee
           => posted[d] <= req[c].read \/ d \in doubtful]_replyVars
  BY NoStaleStep
<1> QED BY <1>1, ReplyInvariantHolds, PTL DEF ReplySpec, NoStaleReply
=============================================================================
