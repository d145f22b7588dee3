--------------------------- MODULE AtMostOnceSend ---------------------------
(***************************************************************************)
(* What the execution of approved tickets promises to the outside world,  *)
(* with no worker, no metadata and no hold in it: every ticket's message   *)
(* reaches the provider at most once, a run that ended "idle" again sent   *)
(* nothing, one that ended "done" sent exactly one message, and a run      *)
(* whose outcome nobody knows ends "unknown" and is never tried again.     *)
(***************************************************************************)
EXTENDS Naturals

CONSTANT Ticket

VARIABLES
  state,      \* [Ticket -> SendState]
  delivered   \* [Ticket -> Nat]: messages the provider accepted

vars == <<state, delivered>>

SendState == {"idle", "busy", "done", "unknown"}

Init ==
  /\ state = [t \in Ticket |-> "idle"]
  /\ delivered = [t \in Ticket |-> 0]

\* One run at a time, and only of a ticket that no earlier run may have sent.
Begin(t) ==
  /\ state[t] = "idle"
  /\ state' = [state EXCEPT ![t] = "busy"]
  /\ UNCHANGED delivered

\* The provider accepts the message of the run that is under way.
Deliver(t) ==
  /\ state[t] = "busy"
  /\ delivered[t] = 0
  /\ delivered' = [delivered EXCEPT ![t] = 1]
  /\ UNCHANGED state

\* The run ends knowing that its message was sent ...
Complete(t) ==
  /\ state[t] = "busy"
  /\ delivered[t] = 1
  /\ state' = [state EXCEPT ![t] = "done"]
  /\ UNCHANGED delivered

\* ... knowing that it was not, so that the ticket may run again ...
Abandon(t) ==
  /\ state[t] = "busy"
  /\ delivered[t] = 0
  /\ state' = [state EXCEPT ![t] = "idle"]
  /\ UNCHANGED delivered

\* ... or without knowing.
GiveUp(t) ==
  /\ state[t] = "busy"
  /\ state' = [state EXCEPT ![t] = "unknown"]
  /\ UNCHANGED delivered

Next ==
  \E t \in Ticket : Begin(t) \/ Deliver(t) \/ Complete(t) \/ Abandon(t) \/ GiveUp(t)

Spec == Init /\ [][Next]_vars
=============================================================================
