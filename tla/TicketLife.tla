----------------------------- MODULE TicketLife -----------------------------
(***************************************************************************)
(* What an approval ticket and its execution claim promise, whoever        *)
(* decides the one and runs the other: it is decided once, a refused or    *)
(* closed one is never approved again, and a claim is taken only of an     *)
(* approved ticket that no other call runs and whose message no earlier    *)
(* run sent or may have sent.                                              *)
(*                                                                         *)
(* The voting of a workflow and the execution of a ticket are modelled     *)
(* apart; both implement this, each for the rows the two share.            *)
(***************************************************************************)
VARIABLES
  status,  \* approval_requests.status
  claim    \* approval_execution_claims.state

vars == <<status, claim>>

\* "refused" is rejected or sent back, "closed" superseded or expired, "over" succeeded or
\* uncertain.
Status == {"absent", "pending", "approved", "refused", "closed"}
Claim == {"none", "running", "failed", "over"}

Init == status \in {"absent", "pending"} /\ claim = "none"

File == status = "absent" /\ status' = "pending" /\ UNCHANGED claim

Decide == status = "pending" /\ status' \in {"approved", "refused"} /\ UNCHANGED claim

Close == status \in {"pending", "approved"} /\ status' = "closed" /\ UNCHANGED claim

Begin ==
  /\ status = "approved"
  /\ claim \in {"none", "failed"}
  /\ claim' = "running"
  /\ UNCHANGED status

End == claim = "running" /\ claim' \in {"failed", "over"} /\ UNCHANGED status

Next == File \/ Decide \/ Close \/ Begin \/ End

Spec == Init /\ [][Next]_vars
=============================================================================
