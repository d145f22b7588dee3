----------------------------- MODULE MCOutbound -----------------------------
(***************************************************************************)
(* One run for what leaves the gateway: the replies to a conversation and  *)
(* the events to a receiver. The two share no table, so in this run one of *)
(* them moves while the other stays where it began: their states add up    *)
(* and do not multiply.                                                    *)
(***************************************************************************)
EXTENDS ReplyPath, McpEventDelivery, TLC

CONSTANTS
  d1, d2, a1, a2, alice, bob, job, long, short,
  ReplyLimit,  \* bound: calls received, losses and confirmations, together
  FaultLimit   \* bound: turns of the account and workers lost, together

About(e, j, b) == [employee |-> e, job |-> j, body |-> b]

\* A direct call and two approvals of one job, and another employee's call: all with a long
\* body, or all with a short one.
Everybody(b) ==
  [c \in Call |-> IF c = d2 THEN About(bob, NoJob, b) ELSE About(alice, job, b)]
OutboundAbouts == {Everybody(b) : b \in Body}

Received == {c \in Call : req[c].status # "absent"}
Unlisted == {a \in Approval : filing[a] = "filed"}

OutboundInit == ReplyInit /\ EventInit

\* Either the two direct calls and one approval, or two approvals with overlapping filings, the
\* second with no read point. A filing that has nothing to list is not kept waiting.
OutboundNext ==
  \/ /\ EventInit /\ ReplyNext /\ UNCHANGED eventVars
     /\ a2 \in Received' => Received' = Approval /\ req'[a2].body = short /\ req'[a2].read = Unread
     /\ Received \subseteq Approval \/ Unlisted = {} \/ \E a \in Unlisted : ListOnFiling(a)
     /\ Cardinality(Received') + losses' + Cardinality(confirmed') <= ReplyLimit
  \/ /\ ReplyInit /\ EventNext /\ UNCHANGED replyVars
     /\ req[d1].body = long  \* once is enough
     /\ turns' + deaths' <= FaultLimit

OutboundSpec ==
  OutboundInit /\ [][OutboundNext]_<<replyVars, eventVars>> /\ EventFairness

\* Every variable of the two components keeps to the values the schema and the code give it.
TypesOK == ReplyTypeOK /\ EventTypeOK
=============================================================================
