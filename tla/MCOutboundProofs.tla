--------------------------- MODULE MCOutboundProofs ---------------------------
(***************************************************************************)
(* Theorems about the composition of MCOutbound: its behaviours are        *)
(* behaviours of either component, so what is proved of a component holds  *)
(* of the two together. The bounds of the run play no part.                *)
(***************************************************************************)
EXTENDS MCOutbound, ReplyPathProofs, McpEventDeliveryProofs

\* A step of the composition is a step of the replies, or leaves their tables alone.
LEMMA RepliesStep ==
  ASSUME [OutboundNext]_<<replyVars, eventVars>>
  PROVE  [ReplyNext]_replyVars
  BY DEF OutboundNext

\* A step of the composition is a step of the events, or leaves their tables alone.
LEMMA EventsStep ==
  ASSUME [OutboundNext]_<<replyVars, eventVars>>
  PROVE  [EventNext]_eventVars
  BY DEF OutboundNext

\* The composition implements the reply path: whatever the event deliveries do, the tables
\* of the replies go through a behaviour of ReplyPath.
THEOREM OutboundImplementsReplies == OutboundSpec => ReplySpec
  <1>1. OutboundInit => ReplyInit
    BY DEF OutboundInit
  <1> QED  BY <1>1, RepliesStep, PTL DEF OutboundSpec, ReplySpec

\* The composition implements the event deliveries, with the fairness they are checked under.
THEOREM OutboundImplementsEvents == OutboundSpec => FairEventSpec
  <1>1. OutboundInit => EventInit
    BY DEF OutboundInit
  <1> QED  BY <1>1, EventsStep, PTL DEF OutboundSpec, FairEventSpec, EventSpec

\* Every variable of both components keeps to its values.
THEOREM OutboundTypesHold == OutboundSpec => []TypesOK
  <1>1. ReplyTypeOK /\ EventTypeOK => TypesOK
    BY DEF TypesOK
  <1> QED
    BY <1>1, OutboundImplementsReplies, OutboundImplementsEvents, ReplyTypesHold,
       EventTypesHold, PTL DEF FairEventSpec

\* What the gateway owes to whoever it sends to: no reply twice, none over an unread message
\* of another employee, no approval closed but for a message, a newer approval or an older one
\* whose filing overlapped, no event posted more often than its attempts or after it was
\* accepted, whichever component moves.
THEOREM OutboundPromises ==
  OutboundSpec => /\ []SupersededForAReason /\ []PostsAreCounted
                  /\ NoDuplicateReply /\ NoStaleReply /\ EndedDeliveriesStay
  BY OutboundImplementsReplies, OutboundImplementsEvents, SupersededForAReasonHolds,
     PostsCounted, NoDuplicateReplyHolds, NoStaleReplyHolds,
     EndedDeliveriesStayHolds, PTL DEF FairEventSpec
=============================================================================
