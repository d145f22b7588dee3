------------------------- MODULE MCApprovalWorkflow -------------------------
(* ApprovalWorkflow for TLC. *)
EXTENDS ApprovalWorkflow

CONSTANTS alice, bob, carol

\* Both of two, where one rejection ends the matter; then either of them again, where it does
\* not; then the final go of one.
TwoStages ==
  [stages |-> << [voters |-> {alice, bob}, onReject |-> "fail_closed",
                  quorum |-> [type |-> "ratio", n |-> 2, of |-> 3]],
                 [voters |-> {alice, bob}, onReject |-> "count_as_vote",
                  quorum |-> [type |-> "any", n |-> 0, of |-> 0]] >>,
   finalGo |-> bob, route |-> "class", admin |-> FALSE]

\* One stage that counts rejections, without a final go.
Majority ==
  [stages |-> << [voters |-> {alice, bob}, onReject |-> "count_as_vote",
                  quorum |-> [type |-> "majority", n |-> 0, of |-> 0]] >>,
   finalGo |-> NoVoter, route |-> "class", admin |-> FALSE]

\* A ticket of the admin class: one of two.
AdminAny ==
  [stages |-> << [voters |-> {alice, bob}, onReject |-> "fail_closed",
                  quorum |-> [type |-> "any", n |-> 0, of |-> 0]] >>,
   finalGo |-> NoVoter, route |-> "class", admin |-> TRUE]

\* Everyone of two, by a kind route, and the same with a final go.
KindAll ==
  [stages |-> << [voters |-> {alice, bob}, onReject |-> "fail_closed",
                  quorum |-> [type |-> "count", n |-> 2, of |-> 0]] >>,
   finalGo |-> NoVoter, route |-> "kind", admin |-> FALSE]

KindFinalGo == [KindAll EXCEPT !.finalGo = carol]

AllPolicies == {TwoStages, Majority, AdminAny, KindAll}
OnlyAdmin == {AdminAny}
OnlyKindFinalGo == {KindFinalGo}
=============================================================================
