---------------------------- MODULE TwoPersonStop ----------------------------
(***************************************************************************)
(* What the emergency stop promises, without its rows, tickets and calls:  *)
(* a stop in force is only ever replaced by a stronger one; somebody of    *)
(* the organisation asks for its release; an approver other than the one   *)
(* who asked grants it and signs for it; only the sole approver may grant  *)
(* their own request, and never against a detector; what ops stopped is    *)
(* not released here; and the organisation always has an approver.         *)
(***************************************************************************)
EXTENDS Naturals

CONSTANTS
  Scope,    \* what can be stopped
  Member,
  NoMember, \* "nobody"
  Entry     \* the lines of the record

VARIABLES
  strength,  \* of the stop in force, 0 if there is none
  asked,     \* who asked for its release
  members,   \* who belongs to the organisation now
  approvers, \* who may grant a release now
  record     \* who signed for each release

vars == <<strength, asked, members, approvers, record>>

Detector == 3
Ops == 4

Init ==
  /\ strength = [s \in Scope |-> 0]
  /\ asked = [s \in Scope |-> NoMember]
  /\ members \in SUBSET Member
  /\ approvers \in (SUBSET members) \ {{}}
  /\ record = [e \in Entry |-> NoMember]

Stop(s, n) ==
  /\ n > strength[s]
  /\ strength' = [strength EXCEPT ![s] = n]
  /\ asked' = [asked EXCEPT ![s] = NoMember]
  /\ UNCHANGED <<members, approvers, record>>

Ask(s, m) ==
  /\ strength[s] \in 1..Detector
  /\ m \in members
  /\ asked' = [asked EXCEPT ![s] = m]
  /\ UNCHANGED <<strength, members, approvers, record>>

Release(s, m, e) ==
  /\ strength[s] \in 1..Detector
  /\ asked[s] \in members
  /\ m \in approvers
  /\ m = asked[s] => approvers = {m} /\ strength[s] # Detector
  /\ record[e] = NoMember
  /\ record' = [record EXCEPT ![e] = m]
  /\ strength' = [strength EXCEPT ![s] = 0]
  /\ asked' = [asked EXCEPT ![s] = NoMember]
  /\ UNCHANGED <<members, approvers>>

ChangeTeam ==
  /\ members' \in SUBSET Member
  /\ approvers' \in (SUBSET members') \ {{}}
  /\ UNCHANGED <<strength, asked, record>>

Next ==
  \/ \E s \in Scope, n \in 1..Ops : Stop(s, n)
  \/ \E s \in Scope, m \in Member : Ask(s, m)
  \/ \E s \in Scope, m \in Member, e \in Entry : Release(s, m, e)
  \/ ChangeTeam

Spec == Init /\ [][Next]_vars
=============================================================================
