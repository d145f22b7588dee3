----------------------- MODULE CredentialRenewalProofs -----------------------
(***************************************************************************)
(* Proofs about CredentialRenewal, for any number of proposals, claims,    *)
(* badges and stops.                                                       *)
(***************************************************************************)
EXTENDS CredentialRenewal, TLAPS

(***************************************************************************)
(* Types                                                                   *)
(***************************************************************************)
CredState == {"none", "live", "revoked"}

\* What a step of a row's fields gives.
LEMMA RowFields ==
  ASSUME NEW row \in RenewalRow
  PROVE  /\ \A s \in RenewalState : [row EXCEPT !.state = s] \in RenewalRow
         /\ \A s \in RenewalState, c \in Claimer :
              [row EXCEPT !.state = s, !.token = c] \in RenewalRow
         /\ \A s \in RenewalState : [row EXCEPT !.state = s, !.window = TRUE] \in RenewalRow
         /\ \A n \in 0..BadgeLimit : [row EXCEPT !.new = n, !.overlap = TRUE] \in RenewalRow
         /\ [row EXCEPT !.window = FALSE] \in RenewalRow
         /\ [row EXCEPT !.overlap = FALSE] \in RenewalRow
BY DEF RenewalRow

LEMMA StatesListed ==
  /\ {"absent", "pending_approval", "claimable", "claimed", "old_revoked", "rejected", "expired",
      "held_blocked"} \subseteq RenewalState
  /\ NoBadge \in 0..BadgeLimit /\ Badge \subseteq 0..BadgeLimit
BY RenewalConstants DEF RenewalState, OpenStates, ReusableStates, NoBadge, Badge, RenewalConstants

LEMMA HandedBackRow ==
  ASSUME NEW row \in RenewalRow
  PROVE  /\ HandedBack(row) \in RenewalRow /\ HandedBack(row).ticket = row.ticket
         /\ HandedBack(row).new = NoBadge
         /\ HandedBack(row).state = IF held THEN "held_blocked" ELSE "claimable"
<1>1. ASSUME NEW s \in RenewalState
      PROVE  [row EXCEPT !.state = s, !.token = NoClaimer, !.new = NoBadge, !.overlap = FALSE]
               \in RenewalRow
  BY StatesListed DEF RenewalRow
<1>2. (IF held THEN "held_blocked" ELSE "claimable") \in RenewalState
  BY StatesListed
<1>3. HandedBack(row) \in RenewalRow
  BY <1>1, <1>2 DEF HandedBack
<1> QED BY <1>3 DEF HandedBack, RenewalRow

LEMMA WaitingRow ==
  ASSUME NEW p \in Proposal
  PROVE  LET row == [NoRenewal EXCEPT !.state = "pending_approval", !.ticket = p]
         IN  row \in RenewalRow /\ row.state = "pending_approval" /\ row.ticket = p /\ row.new = NoBadge
<1>1. NoRenewal \in RenewalRow /\ NoRenewal.new = NoBadge
  BY StatesListed DEF NoRenewal, RenewalRow
<1>2. \A row \in RenewalRow, s \in RenewalState :
        LET new == [row EXCEPT !.state = s, !.ticket = p]
        IN  new \in RenewalRow /\ new.state = s /\ new.ticket = p /\ new.new = row.new
  BY DEF RenewalRow
<1> QED BY <1>1, <1>2, StatesListed

LEMMA InitRenewalTypes == RenewalInit => RenewalTypeOK
<1> SUFFICES ASSUME RenewalInit PROVE RenewalTypeOK
  OBVIOUS
<1> USE RenewalConstants DEF RenewalConstants, RenewalInit
<1>1. renewal \in [Badge -> RenewalRow]
  <2>1. NoRenewal \in RenewalRow
    BY StatesListed DEF NoRenewal, RenewalRow
  <2> QED BY <2>1
<1>2. bound \in Badge /\ minted \in Badge /\ handed \subseteq Badge /\ used \subseteq Badge
      /\ cred \in [Badge -> {"none", "live", "revoked"}]
  BY DEF Badge
<1>3. /\ ticket \in [Proposal -> TicketRow] /\ proposal \in [Proposal -> ProposalRow]
      /\ claimer \in [Claimer -> ClaimerRow]
  BY DEF TicketRow, ProposalRow, ClaimerRow, NoBadge
<1>4. /\ held \in BOOLEAN /\ stops \in 0..StopLimit /\ stopped \subseteq Proposal
      /\ switching \subseteq Badge \X Badge /\ retiring \subseteq Badge \X Badge
      /\ rotation \in {"idle", "moved", "inserted", "died"}
  <2>1. held \in BOOLEAN /\ stopped \subseteq Proposal
    OBVIOUS
  <2>2. stops \in 0..StopLimit
    OBVIOUS
  <2>3. /\ switching \subseteq Badge \X Badge /\ retiring \subseteq Badge \X Badge
        /\ rotation \in {"idle", "moved", "inserted", "died"}
    OBVIOUS
  <2> QED BY <2>1, <2>2, <2>3
<1> HIDE DEF RenewalInit
<1> QED BY <1>1, <1>2, <1>3, <1>4 DEF RenewalTypeOK

\* Types are kept by a step that gives each variable a value of its type.
LEMMA RenewalTypesKept ==
  ASSUME bound' \in Badge, minted' \in Badge, cred' \in [Badge -> CredState],
         handed' \subseteq Badge, used' \subseteq Badge, renewal' \in [Badge -> RenewalRow],
         ticket' \in [Proposal -> TicketRow], held' \in BOOLEAN, stops' \in 0..StopLimit,
         stopped' \subseteq Proposal, proposal' \in [Proposal -> ProposalRow],
         claimer' \in [Claimer -> ClaimerRow], switching' \subseteq Badge \X Badge,
         retiring' \subseteq Badge \X Badge, rotation' \in {"idle", "moved", "inserted", "died"}
  PROVE  RenewalTypeOK'
BY DEF RenewalTypeOK, CredState

\* A claim that has its answer knows the badge it was issued.
IssuedIsABadge ==
  \A c \in Claimer : claimer[c].pc = "issued" => claimer[c].new \in Badge /\ claimer[c].new <= minted

LEMMA RenewalTypesStep ==
  ASSUME RenewalTypeOK, IssuedIsABadge, [RenewalNext]_renewalVars
  PROVE  RenewalTypeOK'
<1> USE RenewalConstants DEF RenewalConstants, badgeVars, stopVars, retireVars
<1>0. /\ bound \in Badge /\ minted \in Badge /\ cred \in [Badge -> CredState]
      /\ handed \subseteq Badge /\ used \subseteq Badge /\ renewal \in [Badge -> RenewalRow]
      /\ ticket \in [Proposal -> TicketRow] /\ held \in BOOLEAN /\ stops \in 0..StopLimit
      /\ stopped \subseteq Proposal /\ proposal \in [Proposal -> ProposalRow]
      /\ claimer \in [Claimer -> ClaimerRow] /\ switching \subseteq Badge \X Badge
      /\ retiring \subseteq Badge \X Badge
      /\ rotation \in {"idle", "moved", "inserted", "died"}
      /\ Badge \subseteq 0..BadgeLimit /\ {"none", "live", "revoked"} = CredState
  BY DEF RenewalTypeOK, CredState, Badge
<1>s. {"pending_approval", "claimable", "claimed", "old_revoked", "rejected", "expired", "held_blocked"}
        \subseteq RenewalState
  BY StatesListed
<1>1. CASE StopEmployee
  <2>1. renewal' \in [Badge -> RenewalRow]
    BY <1>0, <1>1, <1>s, RowFields DEF StopEmployee, BlockClaimable
  <2>2. \A p \in Proposal : [ticket[p] EXCEPT !.tagged = TRUE] \in TicketRow
    BY <1>0 DEF TicketRow
  <2>3. ticket' \in [Proposal -> TicketRow]
    BY <1>0, <1>1, <2>2 DEF StopEmployee
  <2>4. held' \in BOOLEAN /\ stops' \in 0..StopLimit /\ stopped' \subseteq Proposal
    BY <1>0, <1>1 DEF StopEmployee
  <2> QED BY <1>0, <1>1, <2>1, <2>3, <2>4, RenewalTypesKept DEF StopEmployee
<1>2. CASE ReleaseEmployee
  BY <1>0, <1>2, RenewalTypesKept DEF ReleaseEmployee
<1>3. ASSUME NEW p \in Proposal, NEW b \in Badge, Propose(p, b) PROVE RenewalTypeOK'
  <2>1. ticket' \in [Proposal -> TicketRow]
    BY <1>0, <1>3 DEF Propose, TicketRow
  <2>2. proposal' \in [Proposal -> ProposalRow]
    BY <1>0, <1>3 DEF Propose, ProposalRow
  <2> QED BY <1>0, <1>3, <2>1, <2>2, RenewalTypesKept DEF Propose
<1>4. ASSUME NEW p \in Proposal, InsertRenewal(p) \/ ReuseRenewal(p) PROVE RenewalTypeOK'
  <2>1. renewal' \in [Badge -> RenewalRow]
    BY <1>0, <1>4, WaitingRow DEF InsertRenewal, ReuseRenewal
  <2>2. proposal' \in [Proposal -> ProposalRow]
    BY <1>0, <1>4 DEF InsertRenewal, ReuseRenewal, ProposalRow
  <2> QED BY <1>0, <1>4, <2>1, <2>2, RenewalTypesKept DEF InsertRenewal, ReuseRenewal
<1>5. ASSUME NEW p \in Proposal,
             (\E s \in {"approved", "rejected"} : Decide(p, s)) \/ StartFulfilment(p) \/ FulfilmentFails(p)
      PROVE RenewalTypeOK'
  <2>1. ticket' \in [Proposal -> TicketRow]
    BY <1>0, <1>5 DEF Decide, StartFulfilment, FulfilmentFails, TicketRow
  <2> QED BY <1>0, <1>5, <2>1, RenewalTypesKept DEF Decide, StartFulfilment, FulfilmentFails
<1>6. ASSUME NEW p \in Proposal, OpenWindow(p) PROVE RenewalTypeOK'
  <2>1. PICK b \in Badge : renewal' = [renewal EXCEPT ![b].state = "claimable", ![b].window = TRUE]
    BY <1>6 DEF OpenWindow
  <2>2. [renewal[b] EXCEPT !.state = "claimable", !.window = TRUE] \in RenewalRow
    BY <1>0, <1>s, RowFields
  <2>3. renewal' \in [Badge -> RenewalRow]
    BY <1>0, <2>1, <2>2
  <2>4. ticket' \in [Proposal -> TicketRow]
    BY <1>0, <1>6 DEF OpenWindow, TicketRow
  <2> QED BY <1>0, <1>6, <2>3, <2>4, RenewalTypesKept DEF OpenWindow
<1>7. ASSUME NEW b \in Badge, CloseStale(b) \/ CloseWindow(b) \/ CloseOverlap(b) \/ CronFindsRevoked(b)
      PROVE  RenewalTypeOK'
  <2>1. renewal' \in [Badge -> RenewalRow]
    <3>1. \A s \in RenewalState : [renewal EXCEPT ![b].state = s] \in [Badge -> RenewalRow]
      BY <1>0, RowFields
    <3>2. CASE CloseStale(b)
      BY <3>1, <3>2, <1>s DEF CloseStale
    <3>3. CASE CronFindsRevoked(b)
      BY <3>1, <3>3, <1>s DEF CronFindsRevoked
    <3>4. CASE CloseWindow(b)
      BY <1>0, <3>4, RowFields DEF CloseWindow
    <3>5. CASE CloseOverlap(b)
      BY <1>0, <3>5, RowFields DEF CloseOverlap
    <3> QED BY <1>7, <3>2, <3>3, <3>4, <3>5
  <2> QED BY <1>0, <1>7, <2>1, RenewalTypesKept DEF CloseStale, CloseWindow, CloseOverlap, CronFindsRevoked
<1>8. ASSUME NEW c \in Claimer, NEW b \in Badge, ReadToClaim(c, b) PROVE RenewalTypeOK'
  <2>1. renewal[b].ticket \in Proposal \cup {NoProposal}
    BY <1>0 DEF RenewalRow
  <2>2. [pc |-> "read", old |-> b, ticket |-> renewal[b].ticket, new |-> NoBadge] \in ClaimerRow
    BY <1>0, <2>1 DEF ClaimerRow, NoBadge
  <2>3. claimer' \in [Claimer -> ClaimerRow]
    BY <1>0, <1>8, <2>2 DEF ReadToClaim
  <2> QED BY <1>0, <1>8, <2>3, RenewalTypesKept DEF ReadToClaim
<1>9. ASSUME NEW c \in Claimer, ClaimRenewal(c) PROVE RenewalTypeOK'
  <2>1. renewal' \in [Badge -> RenewalRow]
    BY <1>0, <1>9, <1>s, RowFields DEF ClaimRenewal
  <2>2. claimer' \in [Claimer -> ClaimerRow]
    BY <1>0, <1>9 DEF ClaimRenewal, ClaimerRow
  <2> QED BY <1>0, <1>9, <2>1, <2>2, RenewalTypesKept DEF ClaimRenewal
<1>10. ASSUME NEW c \in Claimer, IssueBadge(c) PROVE RenewalTypeOK'
  <2>1. minted + 1 \in Badge /\ minted + 1 \in 0..BadgeLimit
    BY <1>0, <1>10 DEF IssueBadge, Badge
  <2>2. renewal' \in [Badge -> RenewalRow]
    BY <1>0, <1>10, <2>1, RowFields DEF IssueBadge
  <2>3. claimer' \in [Claimer -> ClaimerRow]
    <3>1. \A pc \in {"issued", "releasing"}, n \in 0..BadgeLimit :
            [claimer EXCEPT ![c].pc = pc, ![c].new = n] \in [Claimer -> ClaimerRow]
      BY <1>0 DEF ClaimerRow
    <3> QED BY <1>10, <2>1, <3>1, StatesListed DEF IssueBadge
  <2>4. cred' \in [Badge -> CredState]
    BY <1>0, <1>10 DEF IssueBadge
  <2> QED BY <1>0, <1>10, <2>1, <2>2, <2>3, <2>4, RenewalTypesKept DEF IssueBadge
<1>11. ASSUME NEW c \in Claimer, IssueFails(c) \/ ClaimerDies(c) PROVE RenewalTypeOK'
  <2>1. claimer' \in [Claimer -> ClaimerRow]
    BY <1>0, <1>11 DEF IssueFails, ClaimerDies, ClaimerRow
  <2> QED BY <1>0, <1>11, <2>1, RenewalTypesKept DEF IssueFails, ClaimerDies
<1>12. ASSUME NEW c \in Claimer, ReleaseClaim(c) \/ AbortMinted(c) PROVE RenewalTypeOK'
  <2>1. claimer' \in [Claimer -> ClaimerRow]
    BY <1>0, <1>12 DEF ReleaseClaim, AbortMinted, ClaimerRow
  <2>2. renewal' \in [Badge -> RenewalRow]
    BY <1>0, <1>12, HandedBackRow DEF ReleaseClaim, AbortMinted
  <2>3. cred' \in [Badge -> CredState]
    BY <1>0, <1>12 DEF ReleaseClaim, AbortMinted
  <2> QED BY <1>0, <1>12, <2>1, <2>2, <2>3, RenewalTypesKept DEF ReleaseClaim, AbortMinted
<1>14. ASSUME NEW b \in Badge, Authenticate(b) PROVE RenewalTypeOK'
  <2>1. used' \subseteq Badge /\ switching' \subseteq Badge \X Badge
    BY <1>0, <1>14 DEF Authenticate
  <2> QED BY <1>0, <1>14, <2>1, RenewalTypesKept DEF Authenticate
<1>15. ASSUME NEW o \in Badge, NEW n \in Badge, CompleteSwitchover(o, n) PROVE RenewalTypeOK'
  <2>1. renewal' \in [Badge -> RenewalRow]
    <3>1. [renewal EXCEPT ![o].state = "old_revoked"] \in [Badge -> RenewalRow]
      BY <1>0, <1>s, RowFields
    <3> QED BY <1>0, <1>15, <3>1 DEF CompleteSwitchover
  <2>2. cred' \in [Badge -> CredState] /\ bound' \in Badge /\ switching' \subseteq Badge \X Badge
    BY <1>0, <1>15 DEF CompleteSwitchover
  <2> QED BY <1>0, <1>15, <2>1, <2>2, RenewalTypesKept DEF CompleteSwitchover
<1>16. ASSUME NEW o \in Badge, NEW n \in Badge, RetireUnused(o, n) PROVE RenewalTypeOK'
  <2>1. renewal' \in [Badge -> RenewalRow]
    BY <1>0, <1>16, <1>s, RowFields DEF RetireUnused
  <2>2. cred' \in [Badge -> CredState] /\ retiring' \subseteq Badge \X Badge
    BY <1>0, <1>16 DEF RetireUnused
  <2> QED BY <1>0, <1>16, <2>1, <2>2, RenewalTypesKept DEF RetireUnused
<1>17. ASSUME NEW o \in Badge, NEW n \in Badge, RetireFails(o, n) PROVE RenewalTypeOK'
  <2>1. switching' \subseteq Badge \X Badge /\ retiring' \subseteq Badge \X Badge
    BY <1>0, <1>17 DEF RetireFails
  <2> QED BY <1>0, <1>17, <2>1, RenewalTypesKept DEF RetireFails
<1>18. ASSUME NEW o \in Badge, CronFindsUnused(o) \/ CronFindsUsed(o) PROVE RenewalTypeOK'
  <2>1. renewal[o].new \in Badge
    BY <1>0, <1>18 DEF CronFindsUnused, CronFindsUsed, Overdue, RenewalRow, NoBadge, Badge
  <2>2. switching' \subseteq Badge \X Badge /\ retiring' \subseteq Badge \X Badge
    BY <1>0, <1>18, <2>1 DEF CronFindsUnused, CronFindsUsed
  <2> QED BY <1>0, <1>18, <2>2, RenewalTypesKept DEF CronFindsUnused, CronFindsUsed
<1>19. CASE RotateBinding
  <2>1. minted + 1 \in Badge
    BY <1>0, <1>19 DEF RotateBinding, Badge
  <2> QED BY <1>0, <1>19, <2>1, RenewalTypesKept DEF RotateBinding
<1>20. CASE InsertRotated
  <2>1. cred' \in [Badge -> CredState]
    BY <1>0, <1>20 DEF InsertRotated
  <2> QED BY <1>0, <1>20, <2>1, RenewalTypesKept DEF InsertRotated
<1>21. CASE FinishRotation
  <2>1. cred' \in [Badge -> CredState] /\ handed' \subseteq Badge
    BY <1>0, <1>21 DEF FinishRotation
  <2> QED BY <1>0, <1>21, <2>1, RenewalTypesKept DEF FinishRotation
<1>22. CASE RotationDies
  BY <1>0, <1>22, RenewalTypesKept DEF RotationDies
<1>23. CASE UNCHANGED renewalVars
  BY <1>0, <1>23, RenewalTypesKept DEF renewalVars
<1>24. ASSUME NEW c \in Claimer, HandOver(c) PROVE RenewalTypeOK'
  <2>1. handed' \subseteq Badge
    BY <1>0, <1>24 DEF HandOver, IssuedIsABadge
  <2>2. claimer' \in [Claimer -> ClaimerRow]
    BY <1>0, <1>24 DEF HandOver, ClaimerRow
  <2> QED BY <1>0, <1>24, <2>1, <2>2, RenewalTypesKept DEF HandOver
<1> QED BY <1>1, <1>2, <1>3, <1>4, <1>5, <1>6, <1>7, <1>8, <1>9, <1>10, <1>11, <1>12, <1>14, <1>15, <1>16,
           <1>17, <1>18, <1>19, <1>20, <1>21, <1>22, <1>23, <1>24
        DEF RenewalNext, ProposalStep, ClaimerStep, Cron, Rotate

(***************************************************************************)
(* Badges                                                                  *)
(***************************************************************************)
\* Badges are numbered as they are minted, a renewal leads to a newer one, and whoever may
\* take over was handed out.
BadgesInOrder ==
  /\ bound <= minted
  /\ \A b \in Badge : cred[b] # "none" \/ b \in handed => b <= minted
  /\ \A b \in Badge : renewal[b].new # NoBadge => b < renewal[b].new
  /\ \A o, n \in Badge : <<o, n>> \in switching => o < n /\ n \in handed
  /\ \A o, n \in Badge : <<o, n>> \in retiring => n <= minted
  /\ IssuedIsABadge
  /\ used \subseteq handed
  /\ BindingNamesAHandedBadge

BadgeInvariant == RenewalTypeOK /\ BadgesInOrder

\* The new badge of a row changes only where one is issued or given back.
LEMMA NewBadges ==
  ASSUME RenewalTypeOK, [RenewalNext]_renewalVars, NEW x \in Badge,
         renewal'[x].new # renewal[x].new, renewal'[x].new # NoBadge
  PROVE  \E c \in Claimer : IssueBadge(c) /\ x = claimer[c].old /\ renewal'[x].new = minted + 1
<1>0. renewal \in [Badge -> RenewalRow]
  BY DEF RenewalTypeOK
<1>s. StopEmployee => renewal'[x].new = renewal[x].new
  BY <1>0 DEF StopEmployee, BlockClaimable, RenewalRow
<1>1. ASSUME NEW p \in Proposal, ProposalStep(p)
      PROVE  renewal'[x].new = renewal[x].new \/ renewal'[x].new = NoBadge
  <2>1. ~OpenWindow(p) /\ ~InsertRenewal(p) /\ ~ReuseRenewal(p) => renewal' = renewal
    BY <1>1 DEF ProposalStep, Propose, Decide, StartFulfilment, FulfilmentFails
  <2>2. OpenWindow(p) => renewal'[x].new = renewal[x].new
    BY <1>0 DEF OpenWindow, RenewalRow
  <2>3. InsertRenewal(p) \/ ReuseRenewal(p)
          => renewal'[x].new = renewal[x].new \/ renewal'[x].new = NoBadge
    <3>1. LET row == [NoRenewal EXCEPT !.state = "pending_approval", !.ticket = p]
          IN  row.new = NoBadge
      BY WaitingRow
    <3> QED BY <1>0, <3>1 DEF InsertRenewal, ReuseRenewal
  <2> QED BY <2>1, <2>2, <2>3
<1>2. ASSUME NEW c \in Claimer, ClaimerStep(c), ~IssueBadge(c)
      PROVE  renewal'[x].new = renewal[x].new \/ renewal'[x].new = NoBadge
  <2>1. ClaimRenewal(c) => renewal'[x].new = renewal[x].new
    BY <1>0 DEF ClaimRenewal, RenewalRow
  <2>2. ReleaseClaim(c) \/ AbortMinted(c)
          => renewal'[x].new = renewal[x].new \/ renewal'[x].new = NoBadge
    BY <1>0, HandedBackRow DEF ReleaseClaim, AbortMinted
  <2>3. ~ClaimRenewal(c) /\ ~ReleaseClaim(c) /\ ~AbortMinted(c) => renewal' = renewal
    BY <1>2 DEF ClaimerStep, ReadToClaim, IssueFails, HandOver, ClaimerDies
  <2> QED BY <2>1, <2>2, <2>3
<1>3. ASSUME NEW c \in Claimer, IssueBadge(c)
      PROVE  x = claimer[c].old /\ renewal'[x].new = minted + 1
  BY <1>0, <1>3 DEF IssueBadge, RenewalRow
<1>4. ASSUME NEW b \in Badge,
             CloseStale(b) \/ Authenticate(b) \/ Cron(b) \/ CloseWindow(b) \/ CloseOverlap(b)
      PROVE  renewal'[x].new = renewal[x].new
  <2>1. CloseStale(b) \/ CronFindsRevoked(b) => renewal'[x].new = renewal[x].new
    BY <1>0 DEF CloseStale, CronFindsRevoked, RenewalRow
  <2>2. CloseWindow(b) \/ CloseOverlap(b) => renewal'[x].new = renewal[x].new
    BY <1>0 DEF CloseWindow, CloseOverlap, RenewalRow
  <2>3. Authenticate(b) \/ CronFindsUnused(b) \/ CronFindsUsed(b) => renewal' = renewal
    BY DEF Authenticate, CronFindsUnused, CronFindsUsed
  <2> QED BY <1>4, <2>1, <2>2, <2>3 DEF Cron
<1>5. ASSUME NEW o \in Badge, NEW n \in Badge,
             CompleteSwitchover(o, n) \/ RetireUnused(o, n) \/ RetireFails(o, n)
      PROVE  renewal'[x].new = renewal[x].new
  <2>1. CompleteSwitchover(o, n) \/ RetireUnused(o, n) => renewal'[x].new = renewal[x].new
    BY <1>0 DEF CompleteSwitchover, RetireUnused, RenewalRow
  <2> QED BY <1>5, <2>1 DEF RetireFails
<1>6. ReleaseEmployee \/ RotateBinding \/ Rotate \/ RotationDies \/ UNCHANGED renewalVars
        => renewal' = renewal
  BY DEF ReleaseEmployee, RotateBinding, Rotate, InsertRotated, FinishRotation, RotationDies,
         renewalVars
<1> QED BY <1>s, <1>1, <1>2, <1>3, <1>4, <1>5, <1>6 DEF RenewalNext, ClaimerStep

\* Badges only come: they are minted, handed out and used, and the binding moves on.
LEMMA BadgesOnlyCome ==
  ASSUME BadgeInvariant, [RenewalNext]_renewalVars
  PROVE  /\ minted <= minted' /\ minted \in Nat /\ minted' \in Nat
         /\ used' \subseteq handed'
         /\ \A b \in Badge : cred'[b] # "none" \/ b \in handed' => b <= minted'
         /\ \A o, n \in Badge : <<o, n>> \in switching' => o < n /\ n \in handed'
         /\ \A o, n \in Badge : <<o, n>> \in retiring' => n <= minted'
         /\ bound <= bound' /\ bound' <= minted'
         /\ BindingNamesAHandedBadge'
<1> USE DEF badgeVars, stopVars, retireVars
<1> DEFINE Goal ==
         /\ minted <= minted' /\ minted \in Nat /\ minted' \in Nat
         /\ used' \subseteq handed'
         /\ \A b \in Badge : cred'[b] # "none" \/ b \in handed' => b <= minted'
         /\ \A o, n \in Badge : <<o, n>> \in switching' => o < n /\ n \in handed'
         /\ \A o, n \in Badge : <<o, n>> \in retiring' => n <= minted'
         /\ bound <= bound' /\ bound' <= minted'
         /\ BindingNamesAHandedBadge'
<1>0. /\ bound \in Nat /\ minted \in Nat /\ bound <= minted
      /\ cred \in [Badge -> CredState] /\ \A b \in Badge : b \in Nat
      /\ handed \subseteq Badge
      /\ \A b \in Badge : cred[b] # "none" \/ b \in handed => b <= minted
      /\ \A b \in Badge : renewal[b].new # NoBadge => b < renewal[b].new
      /\ \A o, n \in Badge : <<o, n>> \in switching => o < n /\ n \in handed
      /\ \A o, n \in Badge : <<o, n>> \in retiring => n <= minted
      /\ used \subseteq handed
      /\ rotation = "idle" => bound \in handed
  BY DEF BadgeInvariant, RenewalTypeOK, BadgesInOrder, BindingNamesAHandedBadge, Badge, CredState
<1>1. UNCHANGED <<bound, minted, cred, handed, used, switching, retiring, rotation>> => Goal
  BY <1>0 DEF BindingNamesAHandedBadge
<1>2. ASSUME NEW c \in Claimer, IssueBadge(c) PROVE Goal
  <2>1. /\ minted' = minted + 1 /\ UNCHANGED <<bound, handed, used, switching, retiring, rotation>>
        /\ \A b \in Badge : cred'[b] = cred[b] \/ b = minted + 1
    BY <1>0, <1>2 DEF IssueBadge
  <2> QED BY <1>0, <2>1 DEF BindingNamesAHandedBadge
<1>3. ASSUME NEW c \in Claimer, HandOver(c) \/ AbortMinted(c) PROVE Goal
  <2>1. claimer[c].new \in Badge /\ claimer[c].new <= minted
    BY <1>3 DEF HandOver, AbortMinted, BadgeInvariant, BadgesInOrder, IssuedIsABadge
  <2>2. /\ UNCHANGED <<bound, minted, used, switching, retiring, rotation>>
        /\ handed' \in {handed, handed \cup {claimer[c].new}}
        /\ \A b \in Badge : cred'[b] = cred[b] \/ b = claimer[c].new
    BY <1>0, <1>3 DEF HandOver, AbortMinted
  <2> QED BY <1>0, <2>1, <2>2 DEF BindingNamesAHandedBadge
<1>4. ASSUME NEW b \in Badge, Authenticate(b) PROVE Goal
  <2>1. /\ UNCHANGED <<bound, minted, cred, handed, retiring, rotation>>
        /\ b \in handed /\ used' \in {used, used \cup {b}}
        /\ \/ UNCHANGED switching
           \/ \E o \in Badge : renewal[o].new = b /\ switching' = switching \cup {<<o, b>>}
    BY <1>4 DEF Authenticate
  <2>2. \A o \in Badge : renewal[o].new = b => o < b
    BY <1>0 DEF Badge, NoBadge
  <2> QED BY <1>0, <2>1, <2>2 DEF BindingNamesAHandedBadge
<1>5. ASSUME NEW o \in Badge, CronFindsUnused(o) \/ CronFindsUsed(o) PROVE Goal
  <2>1. renewal[o].new \in Badge /\ o < renewal[o].new
    BY <1>0, <1>5 DEF CronFindsUnused, CronFindsUsed, Overdue, BadgeInvariant, RenewalTypeOK, RenewalRow,
                      NoBadge, Badge
  <2>2. CASE CronFindsUnused(o)
    <3>1. /\ UNCHANGED <<bound, minted, cred, handed, used, switching, rotation>>
          /\ retiring' = retiring \cup {<<o, renewal[o].new>>} /\ renewal[o].new <= minted
      BY <1>0, <2>1, <2>2 DEF CronFindsUnused
    <3> QED BY <1>0, <3>1 DEF BindingNamesAHandedBadge
  <2>3. CASE CronFindsUsed(o)
    <3>1. /\ UNCHANGED <<bound, minted, cred, handed, used, retiring, rotation>>
          /\ switching' = switching \cup {<<o, renewal[o].new>>} /\ renewal[o].new \in handed
      BY <1>0, <2>1, <2>3 DEF CronFindsUsed, InUse
    <3> QED BY <1>0, <2>1, <3>1 DEF BindingNamesAHandedBadge
  <2> QED BY <1>5, <2>2, <2>3
<1>6. ASSUME NEW o \in Badge, NEW n \in Badge, CompleteSwitchover(o, n) PROVE Goal
  <2>1. o < n /\ n \in handed /\ n <= minted
    BY <1>0, <1>6 DEF CompleteSwitchover
  <2>2. /\ UNCHANGED <<minted, handed, used, retiring, rotation>> /\ switching' \subseteq switching
        /\ bound' = bound \/ (bound' = n /\ bound \in {o, n})
        /\ \A b \in Badge : cred'[b] = cred[b] \/ b = o
    BY <1>0, <1>6 DEF CompleteSwitchover, MovesFrom
  <2>3. o \in Nat /\ n \in Nat
    BY <1>0
  <2>4. bound <= bound' /\ bound' <= minted
    BY <1>0, <2>1, <2>2, <2>3
  <2>5. o <= minted
    BY <1>0, <2>1, <2>3
  <2>6. \A b \in Badge : cred'[b] # "none" \/ b \in handed' => b <= minted'
    BY <1>0, <2>2, <2>5
  <2>7. BindingNamesAHandedBadge'
    BY <1>0, <2>1, <2>2 DEF BindingNamesAHandedBadge
  <2> QED BY <1>0, <2>2, <2>4, <2>6, <2>7
<1>7. ASSUME NEW o \in Badge, NEW n \in Badge, RetireUnused(o, n) \/ RetireFails(o, n) PROVE Goal
  <2>1. /\ UNCHANGED <<bound, minted, handed, used, rotation>> /\ switching' \subseteq switching
        /\ retiring' \subseteq retiring
        /\ \A b \in Badge : cred'[b] = cred[b] \/ (b = n /\ n <= minted)
    BY <1>0, <1>7 DEF RetireUnused, RetireFails
  <2> QED BY <1>0, <2>1 DEF BindingNamesAHandedBadge
<1>8. ASSUME RotateBinding \/ InsertRotated \/ FinishRotation \/ RotationDies PROVE Goal
  <2>1. CASE RotateBinding
    BY <1>0, <2>1 DEF RotateBinding, BindingNamesAHandedBadge
  <2>2. CASE InsertRotated
    BY <1>0, <2>2 DEF InsertRotated, BindingNamesAHandedBadge
  <2>3. CASE FinishRotation
    BY <1>0, <2>3 DEF FinishRotation, Replaced, BindingNamesAHandedBadge
  <2>4. CASE RotationDies
    BY <1>0, <2>4 DEF RotationDies, BindingNamesAHandedBadge
  <2> QED BY <1>8, <2>1, <2>2, <2>3, <2>4
<1> HIDE DEF Goal
<1>9. ASSUME NEW p \in Proposal, ProposalStep(p) PROVE Goal
  BY <1>1, <1>9 DEF ProposalStep, Propose, InsertRenewal, ReuseRenewal, Decide, StartFulfilment,
                    OpenWindow, FulfilmentFails
<1>10. ASSUME NEW c \in Claimer, ClaimerStep(c) PROVE Goal
  BY <1>1, <1>2, <1>3, <1>10 DEF ClaimerStep, ReadToClaim, ClaimRenewal, IssueFails, ReleaseClaim,
                                 ClaimerDies
<1>11. ASSUME NEW b \in Badge, CloseStale(b) \/ CronFindsRevoked(b) \/ CloseWindow(b) \/ CloseOverlap(b)
       PROVE  Goal
  BY <1>1, <1>11 DEF CloseStale, CronFindsRevoked, CloseWindow, CloseOverlap
<1>12. StopEmployee \/ ReleaseEmployee \/ UNCHANGED renewalVars => Goal
  BY <1>1 DEF StopEmployee, ReleaseEmployee, renewalVars
<1>13. Goal
  BY <1>4, <1>5, <1>6, <1>7, <1>8, <1>9, <1>10, <1>11, <1>12 DEF RenewalNext, Cron, Rotate
<1> QED BY <1>13 DEF Goal

LEMMA IssuedStep ==
  ASSUME BadgeInvariant, [RenewalNext]_renewalVars
  PROVE  IssuedIsABadge'
<1> SUFFICES ASSUME NEW c \in Claimer, claimer'[c].pc = "issued"
             PROVE  claimer'[c].new \in Badge /\ claimer'[c].new <= minted'
  BY DEF IssuedIsABadge
<1> USE DEF badgeVars, stopVars, retireVars
<1>0. claimer \in [Claimer -> ClaimerRow] /\ minted \in Nat /\ minted <= minted' /\ minted' \in Nat
  BY BadgesOnlyCome DEF BadgeInvariant, RenewalTypeOK
<1>1. CASE claimer'[c] = claimer[c]
  BY <1>0, <1>1 DEF BadgeInvariant, BadgesInOrder, IssuedIsABadge, Badge
<1>2. ASSUME NEW x \in Claimer, ClaimerStep(x), claimer'[c] # claimer[c]
      PROVE  claimer'[c].new = minted' /\ minted' \in Badge
  <2>1. x = c
    BY <1>0, <1>2 DEF ClaimerStep, ReadToClaim, ClaimRenewal, IssueBadge, IssueFails, ReleaseClaim, HandOver,
                AbortMinted, ClaimerDies
  <2>2. \A b \in Badge : ~ReadToClaim(c, b)
    BY <1>0 DEF ReadToClaim, ClaimerRow
  <2>3. ~(ClaimRenewal(c) \/ IssueFails(c) \/ ReleaseClaim(c) \/ HandOver(c) \/ AbortMinted(c)
          \/ ClaimerDies(c))
    BY <1>0 DEF ClaimRenewal, IssueFails, ReleaseClaim, HandOver, AbortMinted, ClaimerDies, ClaimerRow
  <2>4. IssueBadge(c)
    BY <1>2, <2>1, <2>2, <2>3 DEF ClaimerStep
  <2> QED BY <1>0, <2>4, RenewalConstants DEF IssueBadge, ClaimerRow, Badge, RenewalConstants
<1>3. ASSUME NEW p \in Proposal, ProposalStep(p) PROVE claimer' = claimer
  BY <1>3 DEF ProposalStep, Propose, InsertRenewal, ReuseRenewal, Decide, StartFulfilment, OpenWindow,
              FulfilmentFails
<1>4. ASSUME NEW b \in Badge,
             CloseStale(b) \/ Authenticate(b) \/ Cron(b) \/ CloseWindow(b) \/ CloseOverlap(b)
      PROVE  claimer' = claimer
  BY <1>4 DEF CloseStale, Authenticate, Cron, CronFindsRevoked, CronFindsUnused, CronFindsUsed,
              CloseWindow, CloseOverlap
<1>5. ASSUME NEW o \in Badge, NEW n \in Badge,
             CompleteSwitchover(o, n) \/ RetireUnused(o, n) \/ RetireFails(o, n)
      PROVE  claimer' = claimer
  BY <1>5 DEF CompleteSwitchover, RetireUnused, RetireFails
<1>6. StopEmployee \/ ReleaseEmployee \/ RotateBinding \/ Rotate \/ RotationDies
        \/ UNCHANGED renewalVars
        => claimer' = claimer
  BY DEF StopEmployee, ReleaseEmployee, RotateBinding, Rotate, InsertRotated, FinishRotation,
         RotationDies, renewalVars
<1> QED BY <1>0, <1>1, <1>2, <1>3, <1>4, <1>5, <1>6 DEF RenewalNext, Badge

LEMMA BadgeStep == BadgeInvariant /\ [RenewalNext]_renewalVars => BadgeInvariant'
<1> SUFFICES ASSUME BadgeInvariant, [RenewalNext]_renewalVars PROVE BadgeInvariant'
  OBVIOUS
<1>1. RenewalTypeOK'
  BY RenewalTypesStep DEF BadgeInvariant, BadgesInOrder
<1>2. \A b \in Badge : renewal'[b].new # NoBadge => b < renewal'[b].new
  <2> SUFFICES ASSUME NEW b \in Badge, renewal'[b].new # NoBadge PROVE b < renewal'[b].new
    OBVIOUS
  <2>1. CASE renewal'[b].new = renewal[b].new
    BY <2>1 DEF BadgeInvariant, BadgesInOrder
  <2>2. CASE renewal'[b].new # renewal[b].new
    <3>1. PICK c \in Claimer : IssueBadge(c) /\ b = claimer[c].old /\ renewal'[b].new = minted + 1
      BY <2>2, NewBadges DEF BadgeInvariant
    <3>2. b <= minted /\ minted \in Nat /\ b \in Nat
      BY <3>1 DEF IssueBadge, BadgeInvariant, BadgesInOrder, RenewalTypeOK, Badge
    <3> QED BY <3>1, <3>2
  <2> QED BY <2>1, <2>2
<1> QED BY <1>1, <1>2, BadgesOnlyCome, IssuedStep DEF BadgeInvariant, BadgesInOrder

LEMMA InitBadges == RenewalInit => BadgeInvariant
<1> SUFFICES ASSUME RenewalInit PROVE BadgeInvariant
  OBVIOUS
<1>1. RenewalTypeOK
  BY InitRenewalTypes
<1>2. \A b \in Badge : renewal[b].new = NoBadge
  BY DEF RenewalInit, NoRenewal
<1>3. \A c \in Claimer : claimer[c].pc = "idle"
  BY DEF RenewalInit
<1>4. bound <= minted /\ \A b \in Badge : cred[b] # "none" \/ b \in handed => b <= minted
  BY DEF RenewalInit
<1>5. used \subseteq handed /\ BindingNamesAHandedBadge
  BY DEF RenewalInit, BindingNamesAHandedBadge
<1>6. switching = {} /\ retiring = {}
  BY DEF RenewalInit
<1> QED BY <1>1, <1>2, <1>3, <1>4, <1>5, <1>6 DEF BadgeInvariant, BadgesInOrder, IssuedIsABadge

\* The inductive invariant about badges holds in every reachable state.
THEOREM BadgeInvariantHolds == RenewalSpec => []BadgeInvariant
BY InitBadges, BadgeStep, PTL DEF RenewalSpec

\* Every variable keeps to its values, for any number of actors and any bound.
THEOREM RenewalTypesHold == RenewalSpec => []RenewalTypeOK
<1>1. BadgeInvariant => RenewalTypeOK
  BY DEF BadgeInvariant
<1> QED BY <1>1, BadgeInvariantHolds, PTL

\* No renewal locks the employee out: the fingerprint of the binding is always that of a
\* badge that was handed out, unless a rotation is under way or died.
THEOREM BindingHolds == RenewalSpec => []BindingNamesAHandedBadge
<1>1. BadgeInvariant => BindingNamesAHandedBadge
  BY DEF BadgeInvariant, BadgesInOrder
<1> QED BY <1>1, BadgeInvariantHolds, PTL

\* The binding only moves to newer badges, and no older badge than the one it names is
\* accepted: a switchover, a cron or a rotation never brings a retired badge back.
THEOREM RetiredBadgeStaysOutHolds == RenewalSpec => RetiredBadgeStaysOut
<1>1. BadgeInvariant /\ [RenewalNext]_renewalVars
        => [bound' >= bound /\ \A b \in Badge : Accepted(b)' => b >= bound']_renewalVars
  <2> SUFFICES ASSUME BadgeInvariant, [RenewalNext]_renewalVars
               PROVE  bound' >= bound /\ \A b \in Badge : Accepted(b)' => b >= bound'
    OBVIOUS
  <2>0. BadgeInvariant'
    BY BadgeStep
  <2>1. bound <= bound' /\ bound \in Nat /\ bound' \in Nat
    <3>1. bound \in Badge /\ bound' \in Badge
      BY <2>0 DEF BadgeInvariant, RenewalTypeOK
    <3> QED BY <3>1, BadgesOnlyCome DEF Badge
  <2>2. ASSUME NEW b \in Badge, Accepted(b)' PROVE b >= bound'
    <3>1. bound' \in Badge /\ \A x \in Badge : renewal'[x].new # NoBadge => x < renewal'[x].new
      BY <2>0 DEF BadgeInvariant, BadgesInOrder, RenewalTypeOK
    <3>2. CASE b = bound'
      BY <2>1, <3>2
    <3>3. CASE renewal'[bound'].new = b
      BY <2>1, <3>1, <3>3 DEF Badge, NoBadge
    <3> QED BY <2>2, <3>2, <3>3 DEF Accepted
  <2> QED BY <2>1, <2>2
<1> QED BY <1>1, BadgeInvariantHolds, PTL DEF RenewalSpec, RetiredBadgeStaysOut

(***************************************************************************)
(* The stop                                                                *)
(***************************************************************************)
InTheWorks == {"claimable", "claimed"}
Filed(b) == renewal[b].state # "absent" \/ renewal[b].new # NoBadge
Reading(c, p) == claimer[c].pc = "read" /\ claimer[c].ticket = p

\* A row belongs to the proposal that wrote it last.
RowsFiled ==
  \A b \in Badge : Filed(b) =>
    /\ renewal[b].ticket \in Proposal
    /\ proposal[renewal[b].ticket].pc = "done" /\ proposal[renewal[b].ticket].old = b

\* What a ticket says about its proposal, and about its row.
TicketsFiled ==
  \A p \in Proposal :
    /\ proposal[p].pc = "idle" <=> ticket[p].status = "absent"
    /\ ticket[p].fulfilment # "none" => ticket[p].status = "approved"
    /\ ticket[p].fulfilment = "fulfilled" => proposal[p].pc = "done"
    /\ p \in stopped => proposal[p].pc = "done"

\* The row of a ticket that is fulfilled, or that a claim has read, waits no more.
NotWaiting(p) == \A b \in Badge : renewal[b].ticket = p => renewal[b].state # "pending_approval"
WaitIsOver ==
  /\ \A p \in Proposal : ticket[p].fulfilment = "fulfilled" => NotWaiting(p)
  /\ \A c \in Claimer : claimer[c].pc = "read" =>
       /\ claimer[c].ticket \in Proposal
       /\ proposal[claimer[c].ticket].pc = "done"
       /\ NotWaiting(claimer[c].ticket)

\* The row of a stopped ticket can only open with the tag on the ticket, and then no
\* claim has read it.
Closed ==
  \A b \in Badge, p \in stopped : renewal[b].ticket = p =>
    /\ renewal[b].state = "pending_approval" => ticket[p].tagged \/ ticket[p].status = "rejected"
    /\ renewal[b].state \in InTheWorks => ticket[p].tagged /\ \A c \in Claimer : ~Reading(c, p)

StopInvariant == RowsFiled /\ TicketsFiled /\ WaitIsOver /\ Closed

LEMMA InitStop == RenewalInit => StopInvariant
<1> SUFFICES ASSUME RenewalInit PROVE StopInvariant
  OBVIOUS
<1>1. \A b \in Badge : ~Filed(b)
  BY DEF RenewalInit, NoRenewal, Filed
<1>2. TicketsFiled
  BY DEF RenewalInit, TicketsFiled
<1>3. WaitIsOver
  BY DEF RenewalInit, WaitIsOver
<1>4. Closed
  BY DEF RenewalInit, Closed
<1> QED BY <1>1, <1>2, <1>3, <1>4 DEF StopInvariant, RowsFiled

\* What a step may do to the row of b that leaves the tickets and the proposals alone.
MovesOn(b) ==
  /\ renewal'[b].ticket = renewal[b].ticket
  /\ Filed(b)' => Filed(b)
  /\ \/ renewal'[b].state = renewal[b].state
     \/ renewal[b].state \in InTheWorks /\ renewal'[b].state \in InTheWorks
     \/ renewal'[b].state \notin InTheWorks \cup {"pending_approval"}

LEMMA RowsMoveOn ==
  ASSUME StopInvariant, UNCHANGED <<ticket, proposal, stopped>>, \A b \in Badge : MovesOn(b),
         \A c \in Claimer : claimer'[c].pc = "read" => claimer'[c] = claimer[c]
  PROVE  StopInvariant'
<1>1. RowsFiled'
  BY DEF StopInvariant, RowsFiled, MovesOn
<1>2. TicketsFiled'
  BY DEF StopInvariant, TicketsFiled
<1>3. \A p : NotWaiting(p) => NotWaiting(p)'
  BY DEF NotWaiting, MovesOn, InTheWorks
<1>4. WaitIsOver'
  BY <1>3 DEF StopInvariant, WaitIsOver
<1>5. Closed'
  <2> SUFFICES ASSUME NEW b \in Badge, NEW p \in stopped, renewal'[b].ticket = p
               PROVE  /\ renewal'[b].state = "pending_approval"
                           => ticket[p].tagged \/ ticket[p].status = "rejected"
                      /\ renewal'[b].state \in InTheWorks
                           => ticket[p].tagged /\ \A c \in Claimer : ~Reading(c, p)'
    BY DEF Closed
  <2>1. \A c \in Claimer : Reading(c, p)' => Reading(c, p)
    BY DEF Reading
  <2>2. renewal[b].ticket = p
    BY DEF MovesOn
  <2>3. /\ renewal'[b].state = "pending_approval" => renewal[b].state = "pending_approval"
        /\ renewal'[b].state \in InTheWorks => renewal[b].state \in InTheWorks
    BY DEF MovesOn, InTheWorks
  <2> QED BY <2>1, <2>2, <2>3 DEF StopInvariant, Closed
<1> QED BY <1>1, <1>2, <1>4, <1>5 DEF StopInvariant

\* Steps that leave the states of the rows alone, or close them.
LEMMA CloseRows ==
  ASSUME RenewalTypeOK, StopInvariant, NEW b \in Badge,
         CloseStale(b) \/ Authenticate(b) \/ Cron(b) \/ CloseWindow(b) \/ CloseOverlap(b)
  PROVE  StopInvariant'
<1> USE DEF badgeVars, stopVars, retireVars
<1>0. renewal \in [Badge -> RenewalRow]
  BY DEF RenewalTypeOK
<1>1. UNCHANGED <<ticket, proposal, stopped, claimer>>
  BY DEF CloseStale, Authenticate, Cron, CronFindsRevoked, CronFindsUnused, CronFindsUsed, CloseWindow,
         CloseOverlap
<1>2. ASSUME CloseStale(b) \/ CronFindsRevoked(b) PROVE \A x \in Badge : MovesOn(x)
  <2>1. renewal[b].state # "absent"
    BY <1>2 DEF CloseStale, CronFindsRevoked, Overdue
  <2>2. PICK s \in {"rejected", "expired"} : renewal' = [renewal EXCEPT ![b].state = s]
    BY <1>2 DEF CloseStale, CronFindsRevoked
  <2> QED BY <1>0, <2>1, <2>2 DEF MovesOn, Filed, RenewalRow, InTheWorks
<1>3. ASSUME CloseWindow(b) \/ CloseOverlap(b) PROVE \A x \in Badge : MovesOn(x)
  BY <1>0, <1>3 DEF CloseWindow, CloseOverlap, MovesOn, Filed, RenewalRow
<1>4. ASSUME Authenticate(b) \/ CronFindsUnused(b) \/ CronFindsUsed(b) PROVE \A x \in Badge : MovesOn(x)
  BY <1>4 DEF Authenticate, CronFindsUnused, CronFindsUsed, MovesOn, Filed
<1>5. \A x \in Badge : MovesOn(x)
  BY <1>2, <1>3, <1>4 DEF Cron
<1> QED BY <1>1, <1>5, RowsMoveOn

LEMMA RetireRows ==
  ASSUME RenewalTypeOK, StopInvariant, NEW o \in Badge, NEW n \in Badge,
         CompleteSwitchover(o, n) \/ RetireUnused(o, n) \/ RetireFails(o, n)
  PROVE  StopInvariant'
<1> USE DEF badgeVars, stopVars, retireVars
<1>0. renewal \in [Badge -> RenewalRow] /\ n # NoBadge
  BY DEF RenewalTypeOK, Badge, NoBadge
<1>1. UNCHANGED <<ticket, proposal, stopped, claimer>>
  BY DEF CompleteSwitchover, RetireUnused, RetireFails
<1>2. \/ renewal' = renewal
      \/ /\ renewal[o].new = n
         /\ \E s \in {"old_revoked", "expired"} : renewal' = [renewal EXCEPT ![o].state = s]
  BY DEF CompleteSwitchover, RetireUnused, RetireFails
<1>3. \A x \in Badge : MovesOn(x)
  BY <1>0, <1>2 DEF MovesOn, Filed, RenewalRow, InTheWorks
<1> QED BY <1>1, <1>3, RowsMoveOn

LEMMA OtherRows ==
  ASSUME StopInvariant,
         ReleaseEmployee \/ RotateBinding \/ Rotate \/ RotationDies \/ UNCHANGED renewalVars
  PROVE  StopInvariant'
<1>1. UNCHANGED <<ticket, proposal, stopped, claimer, renewal>>
  BY DEF ReleaseEmployee, RotateBinding, Rotate, InsertRotated, FinishRotation, RotationDies,
         renewalVars, badgeVars, stopVars, retireVars
<1>2. \A x \in Badge : MovesOn(x)
  BY <1>1 DEF MovesOn, Filed
<1> QED BY <1>1, <1>2, RowsMoveOn

LEMMA ClaimRows ==
  ASSUME RenewalTypeOK, StopInvariant, NEW c \in Claimer, ClaimerStep(c),
         \A b \in Badge : ~ReadToClaim(c, b)
  PROVE  StopInvariant'
<1> USE DEF badgeVars, stopVars, retireVars
<1>0. renewal \in [Badge -> RenewalRow] /\ claimer \in [Claimer -> ClaimerRow]
  BY DEF RenewalTypeOK
<1>1. UNCHANGED <<ticket, proposal, stopped>>
  BY DEF ClaimerStep, ClaimRenewal, IssueBadge, IssueFails, ReleaseClaim, HandOver, AbortMinted,
         ClaimerDies
<1>2. \A x \in Claimer : claimer'[x].pc = "read" => claimer'[x] = claimer[x]
  <2>1. \A x \in Claimer : x # c => claimer'[x] = claimer[x]
    BY <1>0 DEF ClaimerStep, ClaimRenewal, IssueBadge, IssueFails, ReleaseClaim, HandOver, AbortMinted,
                ClaimerDies
  <2>2. ClaimRenewal(c) \/ IssueBadge(c) \/ IssueFails(c) => claimer'[c].pc # "read"
    BY <1>0 DEF ClaimRenewal, IssueBadge, IssueFails, ClaimerRow
  <2>3. ReleaseClaim(c) \/ HandOver(c) \/ AbortMinted(c) \/ ClaimerDies(c) => claimer'[c].pc # "read"
    BY <1>0 DEF ReleaseClaim, HandOver, AbortMinted, ClaimerDies, ClaimerRow
  <2> QED BY <2>1, <2>2, <2>3 DEF ClaimerStep
<1>3. ClaimRenewal(c) \/ IssueBadge(c) => \A x \in Badge : MovesOn(x)
  BY <1>0 DEF ClaimRenewal, IssueBadge, MovesOn, Filed, RenewalRow, InTheWorks
<1>4. ReleaseClaim(c) \/ AbortMinted(c) => \A x \in Badge : MovesOn(x)
  <2> DEFINE b == claimer[c].old
  <2> SUFFICES ASSUME ReleaseClaim(c) \/ AbortMinted(c), NEW x \in Badge PROVE MovesOn(x)
    OBVIOUS
  <2>1. \/ renewal' = renewal
        \/ renewal[b].state = "claimed" /\ renewal' = [renewal EXCEPT ![b] = HandedBack(@)]
    BY DEF ReleaseClaim, AbortMinted
  <2>2. CASE renewal'[x] = renewal[x]
    BY <2>2 DEF MovesOn, Filed
  <2>3. CASE renewal'[x] # renewal[x]
    <3>1. x = b /\ renewal[x].state = "claimed" /\ renewal'[x] = HandedBack(renewal[x])
      BY <1>0, <2>1, <2>3
    <3>2. renewal'[x].ticket = renewal[x].ticket /\ renewal'[x].state \in {"held_blocked", "claimable"}
      BY <1>0, <3>1, HandedBackRow
    <3> QED BY <3>1, <3>2 DEF MovesOn, Filed, InTheWorks
  <2> QED BY <2>2, <2>3
<1>5. IssueFails(c) \/ HandOver(c) \/ ClaimerDies(c) => \A x \in Badge : MovesOn(x)
  BY DEF IssueFails, HandOver, ClaimerDies, MovesOn, Filed
<1>6. \A x \in Badge : MovesOn(x)
  BY <1>3, <1>4, <1>5 DEF ClaimerStep
<1> QED BY <1>1, <1>2, <1>6, RowsMoveOn

LEMMA ReadRows ==
  ASSUME RenewalTypeOK, StopInvariant, NEW c \in Claimer, NEW b \in Badge, ReadToClaim(c, b)
  PROVE  StopInvariant'
<1> DEFINE p == renewal[b].ticket
<1> USE DEF badgeVars, stopVars, retireVars
<1>0. /\ claimer \in [Claimer -> ClaimerRow]
      /\ UNCHANGED <<renewal, ticket, proposal, stopped>>
      /\ renewal[b].state = "claimable" /\ Untagged(p)
  BY DEF RenewalTypeOK, ReadToClaim
<1>1. /\ claimer'[c].pc = "read" /\ claimer'[c].ticket = p
      /\ \A x \in Claimer : x # c => claimer'[x] = claimer[x]
  BY <1>0 DEF ReadToClaim
<1>2. p \in Proposal /\ proposal[p].pc = "done" /\ proposal[p].old = b
  BY <1>0 DEF StopInvariant, RowsFiled, Filed
<1>3. NotWaiting(p)
  <2> SUFFICES ASSUME NEW x \in Badge, renewal[x].ticket = p, renewal[x].state = "pending_approval"
               PROVE  FALSE
    BY DEF NotWaiting
  <2>1. proposal[p].old = x
    BY DEF StopInvariant, RowsFiled, Filed
  <2> QED BY <1>0, <1>2, <2>1
<1>4. RowsFiled' /\ TicketsFiled'
  BY <1>0 DEF StopInvariant, RowsFiled, TicketsFiled, Filed
<1>5. WaitIsOver'
  <2>1. \A q : NotWaiting(q)' <=> NotWaiting(q)
    BY <1>0 DEF NotWaiting
  <2> QED BY <1>0, <1>1, <1>2, <1>3, <2>1 DEF StopInvariant, WaitIsOver
<1>6. Closed'
  <2> SUFFICES ASSUME NEW x \in Badge, NEW q \in stopped, renewal[x].ticket = q
               PROVE  /\ renewal[x].state = "pending_approval"
                           => ticket[q].tagged \/ ticket[q].status = "rejected"
                      /\ renewal[x].state \in InTheWorks
                           => ticket[q].tagged /\ \A d \in Claimer : ~Reading(d, q)'
    BY <1>0 DEF Closed
  <2>1. ASSUME renewal[x].state \in InTheWorks, NEW d \in Claimer, Reading(d, q)' PROVE FALSE
    <3>1. ticket[q].tagged /\ ~Reading(d, q)
      BY <2>1 DEF StopInvariant, Closed
    <3>2. d = c /\ q = p
      BY <1>1, <2>1, <3>1 DEF Reading
    <3> QED BY <1>0, <3>1, <3>2 DEF Untagged
  <2> QED BY <2>1 DEF StopInvariant, Closed
<1> QED BY <1>4, <1>5, <1>6 DEF StopInvariant

LEMMA StopRows ==
  ASSUME RenewalTypeOK, StopInvariant, StopEmployee
  PROVE  StopInvariant'
<1> USE DEF badgeVars, stopVars, retireVars
<1>0. /\ renewal \in [Badge -> RenewalRow] /\ ticket \in [Proposal -> TicketRow]
      /\ stopped \subseteq Proposal /\ UNCHANGED <<proposal, claimer>>
  BY DEF RenewalTypeOK, StopEmployee
<1>1. \A b \in Badge : /\ renewal'[b].ticket = renewal[b].ticket
                       /\ Filed(b)' => Filed(b)
                       /\ renewal'[b].state = IF renewal[b].state = "claimable"
                                              THEN "held_blocked" ELSE renewal[b].state
  BY <1>0 DEF StopEmployee, BlockClaimable, RenewalRow, Filed
<1>2. \A p \in Proposal :
        /\ ticket'[p].status = ticket[p].status /\ ticket'[p].fulfilment = ticket[p].fulfilment
        /\ ticket[p].tagged => ticket'[p].tagged
        /\ ticket[p].status \in {"pending", "approved"} /\ ticket[p].fulfilment # "fulfilled"
             => ticket'[p].tagged
  BY <1>0 DEF StopEmployee, TicketRow
<1>3. \A p \in stopped' : p \in Proposal /\ (p \in stopped \/ Waiting(p))
  BY <1>0 DEF StopEmployee
<1>4. RowsFiled'
  BY <1>0, <1>1 DEF StopInvariant, RowsFiled
<1>5. TicketsFiled'
  <2>1. ASSUME NEW p \in Proposal, Waiting(p) PROVE proposal[p].pc = "done"
    BY <2>1 DEF Waiting, StopInvariant, RowsFiled, Filed
  <2> QED BY <1>0, <1>2, <1>3, <2>1 DEF StopInvariant, TicketsFiled
<1>6. WaitIsOver'
  <2>1. \A p : NotWaiting(p) => NotWaiting(p)'
    BY <1>1 DEF NotWaiting
  <2> QED BY <1>0, <1>2, <2>1 DEF StopInvariant, WaitIsOver
<1>7. Closed'
  <2> SUFFICES ASSUME NEW b \in Badge, NEW p \in stopped', renewal[b].ticket = p
               PROVE  /\ renewal'[b].state = "pending_approval"
                           => ticket'[p].tagged \/ ticket'[p].status = "rejected"
                      /\ renewal'[b].state \in InTheWorks
                           => ticket'[p].tagged /\ \A c \in Claimer : ~Reading(c, p)'
    BY <1>1 DEF Closed
  <2>0. p \in Proposal
    BY <1>3
  <2>1. ASSUME renewal[b].state = "pending_approval"
        PROVE  ticket'[p].tagged \/ ticket'[p].status = "rejected"
    <3>1. ticket[p].fulfilment # "fulfilled"
      BY <2>0, <2>1 DEF StopInvariant, WaitIsOver, NotWaiting
    <3>2. proposal[p].pc = "done"
      BY <2>1 DEF StopInvariant, RowsFiled, Filed
    <3>3. ticket[p].status # "absent"
      BY <2>0, <3>2 DEF StopInvariant, TicketsFiled
    <3>4. ticket[p].status \in {"pending", "approved", "rejected"}
      BY <1>0, <2>0, <3>3 DEF TicketRow
    <3> QED BY <1>2, <2>0, <3>1, <3>4
  <2>2. ASSUME renewal'[b].state \in InTheWorks
        PROVE  ticket'[p].tagged /\ \A c \in Claimer : ~Reading(c, p)'
    <3>1. renewal[b].state = "claimed" /\ renewal[b].state \in InTheWorks
      BY <1>1, <2>2 DEF InTheWorks
    <3>2. ~Waiting(p)
      <4> SUFFICES ASSUME NEW x \in Badge, renewal[x].ticket = p,
                          renewal[x].state \in {"pending_approval", "claimable"}
                   PROVE  FALSE
        BY DEF Waiting
      <4>1. proposal[p].old = x /\ proposal[p].old = b
        BY <3>1 DEF StopInvariant, RowsFiled, Filed
      <4> QED BY <3>1, <4>1
    <3>3. p \in stopped
      BY <1>3, <3>2
    <3>4. ticket[p].tagged /\ \A c \in Claimer : ~Reading(c, p)
      BY <3>1, <3>3 DEF StopInvariant, Closed
    <3> QED BY <1>0, <1>2, <2>0, <3>4 DEF Reading
  <2> QED BY <1>1, <2>1, <2>2
<1> QED BY <1>4, <1>5, <1>6, <1>7 DEF StopInvariant

LEMMA ProposeRows ==
  ASSUME RenewalTypeOK, StopInvariant, NEW p \in Proposal, NEW b \in Badge, Propose(p, b)
  PROVE  StopInvariant'
<1> USE DEF badgeVars, stopVars, retireVars
<1>0. /\ ticket \in [Proposal -> TicketRow] /\ proposal \in [Proposal -> ProposalRow]
      /\ UNCHANGED <<renewal, claimer, stopped>> /\ proposal[p].pc = "idle"
  BY DEF RenewalTypeOK, Propose
<1>1. /\ \A q \in Proposal : q # p => ticket'[q] = ticket[q] /\ proposal'[q] = proposal[q]
      /\ ticket'[p].status = "pending" /\ ticket'[p].fulfilment = ticket[p].fulfilment
      /\ proposal'[p].pc = "filed"
  BY <1>0 DEF Propose, TicketRow
<1>2. ticket[p].fulfilment = "none" /\ p \notin stopped
  BY <1>0 DEF StopInvariant, TicketsFiled
<1>3. RowsFiled'
  BY <1>0, <1>1 DEF StopInvariant, RowsFiled, Filed
<1>4. TicketsFiled'
  BY <1>0, <1>1, <1>2 DEF StopInvariant, TicketsFiled
<1>5. WaitIsOver'
  <2>1. \A q : NotWaiting(q)' <=> NotWaiting(q)
    BY <1>0 DEF NotWaiting
  <2> QED BY <1>0, <1>1, <1>2, <2>1 DEF StopInvariant, WaitIsOver
<1>6. Closed'
  <2>1. \A q \in stopped : ticket'[q] = ticket[q]
    BY <1>1, <1>2 DEF RenewalTypeOK
  <2> QED BY <1>0, <2>1 DEF StopInvariant, Closed, Reading
<1> QED BY <1>3, <1>4, <1>5, <1>6 DEF StopInvariant

LEMMA InsertRows ==
  ASSUME RenewalTypeOK, StopInvariant, NEW p \in Proposal, InsertRenewal(p) \/ ReuseRenewal(p)
  PROVE  StopInvariant'
<1> DEFINE b == proposal[p].old
<1> USE DEF badgeVars, stopVars, retireVars
<1>0. /\ renewal \in [Badge -> RenewalRow] /\ proposal \in [Proposal -> ProposalRow]
      /\ UNCHANGED <<ticket, claimer, stopped>> /\ proposal[p].pc \in {"filed", "reusing"}
  BY DEF RenewalTypeOK, InsertRenewal, ReuseRenewal
<1>1. /\ \A q \in Proposal : proposal'[q].old = proposal[q].old
      /\ \A q \in Proposal : q # p => proposal'[q].pc = proposal[q].pc
      /\ proposal'[p].pc \in {"reusing", "done"}
  BY <1>0 DEF InsertRenewal, ReuseRenewal, ProposalRow
<1>2. p \notin stopped /\ ticket[p].fulfilment # "fulfilled"
      /\ \A c \in Claimer : claimer[c].pc = "read" => claimer[c].ticket # p
  BY <1>0 DEF StopInvariant, TicketsFiled, WaitIsOver
<1>3. ASSUME NEW x \in Badge, renewal'[x] # renewal[x]
      PROVE  /\ x = b /\ proposal'[p].pc = "done"
             /\ renewal'[x].ticket = p /\ renewal'[x].state = "pending_approval"
  <2> DEFINE row == [NoRenewal EXCEPT !.state = "pending_approval", !.ticket = p]
  <2>1. renewal' = renewal \/ (renewal' = [renewal EXCEPT ![b] = row] /\ proposal'[p].pc = "done")
    <3>1. CASE InsertRenewal(p)
      BY <1>0, <3>1 DEF InsertRenewal, ReusableStates, ProposalRow
    <3>2. CASE ReuseRenewal(p)
      BY <1>0, <3>2 DEF ReuseRenewal, ProposalRow
    <3> QED BY <3>1, <3>2
  <2>2. row.ticket = p /\ row.state = "pending_approval"
    BY WaitingRow
  <2> HIDE DEF row
  <2> QED BY <1>0, <1>3, <2>1, <2>2
<1>4. RowsFiled'
  <2> SUFFICES ASSUME NEW x \in Badge, Filed(x)'
               PROVE  LET q == renewal'[x].ticket
                      IN  q \in Proposal /\ proposal'[q].pc = "done" /\ proposal'[q].old = x
    BY DEF RowsFiled
  <2>1. CASE renewal'[x] = renewal[x]
    <3>1. Filed(x)
      BY <2>1 DEF Filed
    <3> QED BY <1>0, <1>1, <2>1, <3>1 DEF StopInvariant, RowsFiled
  <2>2. CASE renewal'[x] # renewal[x]
    BY <1>1, <1>3, <2>2
  <2> QED BY <2>1, <2>2
<1>5. TicketsFiled'
  BY <1>0, <1>1, <1>2 DEF StopInvariant, TicketsFiled
<1>6. WaitIsOver'
  <2>1. \A q : q # p /\ NotWaiting(q) => NotWaiting(q)'
    BY <1>3 DEF NotWaiting
  <2>2. \A q \in Proposal : ticket'[q].fulfilment = "fulfilled" => NotWaiting(q)'
    BY <1>0, <1>2, <2>1 DEF StopInvariant, WaitIsOver
  <2>3. ASSUME NEW c \in Claimer, claimer[c].pc = "read"
        PROVE  /\ claimer[c].ticket \in Proposal /\ proposal'[claimer[c].ticket].pc = "done"
               /\ \A x \in Badge : renewal'[x].ticket = claimer[c].ticket
                                     => renewal'[x].state # "pending_approval"
    <3>1. /\ claimer[c].ticket \in Proposal /\ claimer[c].ticket # p
          /\ proposal[claimer[c].ticket].pc = "done" /\ NotWaiting(claimer[c].ticket)
      BY <1>2, <2>3 DEF StopInvariant, WaitIsOver
    <3> QED BY <1>1, <1>3, <3>1 DEF NotWaiting
  <2> QED BY <1>0, <2>2, <2>3 DEF WaitIsOver, NotWaiting
<1>7. Closed'
  <2>1. \A x \in Badge : renewal'[x].ticket \in stopped => renewal'[x] = renewal[x]
    BY <1>2, <1>3
  <2> QED BY <1>0, <2>1 DEF StopInvariant, Closed, Reading
<1> QED BY <1>4, <1>5, <1>6, <1>7 DEF StopInvariant

LEMMA DecideRows ==
  ASSUME RenewalTypeOK, StopInvariant, NEW p \in Proposal,
         (\E s \in {"approved", "rejected"} : Decide(p, s)) \/ StartFulfilment(p) \/ FulfilmentFails(p)
  PROVE  StopInvariant'
<1> USE DEF badgeVars, stopVars, retireVars
<1>0. /\ ticket \in [Proposal -> TicketRow] /\ stopped \subseteq Proposal
      /\ UNCHANGED <<renewal, proposal, claimer, stopped>>
  BY DEF RenewalTypeOK, Decide, StartFulfilment, FulfilmentFails
<1>1. \A q \in Proposal :
        /\ ticket'[q].tagged = ticket[q].tagged
        /\ ticket'[q].status = "absent" <=> ticket[q].status = "absent"
        /\ ticket'[q].fulfilment # "none" => ticket'[q].status = "approved"
        /\ ticket'[q].fulfilment = "fulfilled" => ticket[q].fulfilment = "fulfilled"
        /\ ticket[q].status = "rejected" => ticket'[q].status = "rejected"
  <2>1. ASSUME NEW s \in {"approved", "rejected"}, Decide(p, s), NEW q \in Proposal
        PROVE  /\ ticket'[q].tagged = ticket[q].tagged
               /\ ticket'[q].status = "absent" <=> ticket[q].status = "absent"
               /\ ticket'[q].fulfilment # "none" => ticket'[q].status = "approved"
               /\ ticket'[q].fulfilment = "fulfilled" => ticket[q].fulfilment = "fulfilled"
               /\ ticket[q].status = "rejected" => ticket'[q].status = "rejected"
    <3>1. ticket[q].fulfilment # "none" => ticket[q].status = "approved"
      BY DEF StopInvariant, TicketsFiled
    <3> QED BY <1>0, <2>1, <3>1 DEF Decide, TicketRow
  <2>2. ASSUME StartFulfilment(p) \/ FulfilmentFails(p), NEW q \in Proposal
        PROVE  /\ ticket'[q].tagged = ticket[q].tagged
               /\ ticket'[q].status = "absent" <=> ticket[q].status = "absent"
               /\ ticket'[q].fulfilment # "none" => ticket'[q].status = "approved"
               /\ ticket'[q].fulfilment = "fulfilled" => ticket[q].fulfilment = "fulfilled"
               /\ ticket[q].status = "rejected" => ticket'[q].status = "rejected"
    <3>1. ticket[q].fulfilment # "none" => ticket[q].status = "approved"
      BY DEF StopInvariant, TicketsFiled
    <3> QED BY <1>0, <2>2, <3>1 DEF StartFulfilment, FulfilmentFails, TicketRow
  <2> QED BY <2>1, <2>2
<1>2. RowsFiled'
  BY <1>0 DEF StopInvariant, RowsFiled, Filed
<1>3. TicketsFiled'
  BY <1>0, <1>1 DEF StopInvariant, TicketsFiled
<1>4. WaitIsOver'
  <2>1. \A q : NotWaiting(q)' <=> NotWaiting(q)
    BY <1>0 DEF NotWaiting
  <2> QED BY <1>0, <1>1, <2>1 DEF StopInvariant, WaitIsOver
<1>5. Closed'
  BY <1>0, <1>1 DEF StopInvariant, Closed, Reading
<1> QED BY <1>2, <1>3, <1>4, <1>5 DEF StopInvariant

LEMMA OpenRows ==
  ASSUME RenewalTypeOK, StopInvariant, NEW p \in Proposal, OpenWindow(p)
  PROVE  StopInvariant'
<1> USE DEF badgeVars, stopVars, retireVars
<1>0. /\ renewal \in [Badge -> RenewalRow] /\ ticket \in [Proposal -> TicketRow]
      /\ stopped \subseteq Proposal
      /\ UNCHANGED <<proposal, claimer, stopped>> /\ ticket[p].fulfilment = "fulfilling"
  BY DEF RenewalTypeOK, OpenWindow
<1>1. PICK b \in Badge :
        /\ renewal[b].ticket = p /\ renewal[b].state = "pending_approval"
        /\ renewal' = [renewal EXCEPT ![b].state = "claimable", ![b].window = TRUE]
  BY DEF OpenWindow
<1>2. /\ \A x \in Badge : x # b => renewal'[x] = renewal[x]
      /\ renewal'[b].ticket = p /\ renewal'[b].state = "claimable" /\ Filed(b)
  BY <1>0, <1>1 DEF RenewalRow, Filed
<1>3. \A q \in Proposal : /\ ticket'[q].tagged = ticket[q].tagged
                          /\ ticket'[q].status = ticket[q].status
                          /\ q # p => ticket'[q].fulfilment = ticket[q].fulfilment
  BY <1>0 DEF OpenWindow, TicketRow
<1>4. ticket[p].status = "approved" /\ proposal[p].pc = "done" /\ proposal[p].old = b
  BY <1>0, <1>1, <1>2 DEF StopInvariant, TicketsFiled, RowsFiled
<1>5. \A q : NotWaiting(q) => NotWaiting(q)'
  BY <1>2 DEF NotWaiting
<1>6. NotWaiting(p)'
  <2> SUFFICES ASSUME NEW x \in Badge, renewal'[x].ticket = p,
                      renewal'[x].state = "pending_approval"
               PROVE  FALSE
    BY DEF NotWaiting
  <2>1. x # b /\ renewal'[x] = renewal[x]
    BY <1>2
  <2>2. proposal[p].old = x
    BY <2>1 DEF StopInvariant, RowsFiled, Filed
  <2> QED BY <1>4, <2>1, <2>2
<1>7. RowsFiled'
  BY <1>0, <1>1, <1>2 DEF StopInvariant, RowsFiled, Filed
<1>8. TicketsFiled'
  BY <1>0, <1>3, <1>4 DEF StopInvariant, TicketsFiled
<1>9. WaitIsOver'
  BY <1>0, <1>3, <1>5, <1>6 DEF StopInvariant, WaitIsOver
<1>10. Closed'
  <2>1. ASSUME p \in stopped PROVE ticket[p].tagged
    BY <1>1, <1>4, <2>1 DEF StopInvariant, Closed
  <2>2. \A c \in Claimer : ~Reading(c, p)
    BY <1>1 DEF StopInvariant, WaitIsOver, NotWaiting, Reading
  <2> SUFFICES ASSUME NEW x \in Badge, NEW q \in stopped, renewal'[x].ticket = q
               PROVE  /\ renewal'[x].state = "pending_approval"
                           => ticket'[q].tagged \/ ticket'[q].status = "rejected"
                      /\ renewal'[x].state \in InTheWorks
                           => ticket'[q].tagged /\ \A c \in Claimer : ~Reading(c, q)
    BY <1>0 DEF Closed, Reading
  <2>3. CASE x = b
    BY <1>0, <1>2, <1>3, <2>1, <2>2, <2>3
  <2>4. CASE x # b
    BY <1>0, <1>2, <1>3, <2>4 DEF StopInvariant, Closed
  <2> QED BY <2>3, <2>4
<1> QED BY <1>7, <1>8, <1>9, <1>10 DEF StopInvariant

LEMMA StopStep ==
  ASSUME RenewalTypeOK, StopInvariant, [RenewalNext]_renewalVars
  PROVE  StopInvariant'
<1>1. ASSUME NEW p \in Proposal, ProposalStep(p) PROVE StopInvariant'
  BY <1>1, ProposeRows, InsertRows, DecideRows, OpenRows DEF ProposalStep
<1>2. ASSUME NEW c \in Claimer, ClaimerStep(c) PROVE StopInvariant'
  BY <1>2, ReadRows, ClaimRows
<1> QED BY <1>1, <1>2, StopRows, CloseRows, RetireRows, OtherRows DEF RenewalNext

\* What StopClosesTheWindow rests on: a row belongs to the proposal that wrote it last, it no
\* longer waits once its ticket is fulfilled or a claim has read it, and the row of a ticket
\* that a stop caught is open again only with the stop's tag on the ticket, and then no claim
\* has read it.
THEOREM StopInvariantHolds == RenewalSpec => [](BadgeInvariant /\ StopInvariant)
<1>1. RenewalInit => BadgeInvariant /\ StopInvariant
  BY InitBadges, InitStop
<1>2. BadgeInvariant /\ StopInvariant /\ [RenewalNext]_renewalVars => (BadgeInvariant /\ StopInvariant)'
  BY BadgeStep, StopStep DEF BadgeInvariant
<1> QED BY <1>1, <1>2, PTL DEF RenewalSpec

\* Only the claim of a call turns a claimable row into a claimed one.
LEMMA OnlyClaimsClaim ==
  ASSUME RenewalTypeOK, [RenewalNext]_renewalVars, NEW b \in Badge,
         renewal[b].state = "claimable", renewal'[b].state = "claimed"
  PROVE  \E c \in Claimer : ClaimRenewal(c) /\ renewal'[b].token = c
<1> USE DEF badgeVars, stopVars, retireVars
<1>0. renewal \in [Badge -> RenewalRow] /\ renewal' # renewal
  BY DEF RenewalTypeOK
<1>1. ~StopEmployee
  BY <1>0 DEF StopEmployee, BlockClaimable, RenewalRow
<1>2. ASSUME NEW p \in Proposal, ProposalStep(p) PROVE FALSE
  <2>1. ~OpenWindow(p)
    BY <1>0 DEF OpenWindow, RenewalRow
  <2>2. ~InsertRenewal(p) /\ ~ReuseRenewal(p)
    <3>1. LET row == [NoRenewal EXCEPT !.state = "pending_approval", !.ticket = p]
          IN  row.state = "pending_approval"
      BY WaitingRow
    <3> QED BY <1>0, <3>1 DEF InsertRenewal, ReuseRenewal
  <2> QED BY <1>0, <1>2, <2>1, <2>2 DEF ProposalStep, Propose, Decide, StartFulfilment, FulfilmentFails
<1>3. ASSUME NEW c \in Claimer, ClaimerStep(c), ~ClaimRenewal(c) PROVE FALSE
  <2>1. ~IssueBadge(c)
    BY <1>0 DEF IssueBadge, RenewalRow
  <2>2. ~ReleaseClaim(c) /\ ~AbortMinted(c)
    BY <1>0, HandedBackRow DEF ReleaseClaim, AbortMinted
  <2> QED BY <1>0, <1>3, <2>1, <2>2 DEF ClaimerStep, ReadToClaim, IssueFails, HandOver, ClaimerDies
<1>4. ASSUME NEW c \in Claimer, ClaimRenewal(c) PROVE renewal'[b].token = c
  BY <1>0, <1>4 DEF ClaimRenewal, RenewalRow
<1>5. ASSUME NEW x \in Badge,
             CloseStale(x) \/ Authenticate(x) \/ Cron(x) \/ CloseWindow(x) \/ CloseOverlap(x)
      PROVE  FALSE
  <2>1. ~CloseStale(x) /\ ~CronFindsRevoked(x)
    BY <1>0 DEF CloseStale, CronFindsRevoked, RenewalRow
  <2>2. ~CloseWindow(x) /\ ~CloseOverlap(x)
    BY <1>0 DEF CloseWindow, CloseOverlap, RenewalRow
  <2> QED BY <1>0, <1>5, <2>1, <2>2 DEF Cron, Authenticate, CronFindsUnused, CronFindsUsed
<1>6. ASSUME NEW o \in Badge, NEW n \in Badge,
             CompleteSwitchover(o, n) \/ RetireUnused(o, n) \/ RetireFails(o, n)
      PROVE  FALSE
  BY <1>0, <1>6 DEF CompleteSwitchover, RetireUnused, RetireFails, RenewalRow
<1>7. ~(ReleaseEmployee \/ RotateBinding \/ Rotate \/ RotationDies \/ UNCHANGED renewalVars)
  BY <1>0 DEF ReleaseEmployee, RotateBinding, Rotate, InsertRotated, FinishRotation, RotationDies,
              renewalVars
<1> QED BY <1>1, <1>2, <1>3, <1>4, <1>5, <1>6, <1>7 DEF RenewalNext

\* The emergency stop closes what it found waiting or claimable: no call that read the
\* ticket claims it, during the stop or after it, however slow it was.
THEOREM StopClosesTheWindowHolds == RenewalSpec => StopClosesTheWindow
<1>1. BadgeInvariant /\ StopInvariant /\ [RenewalNext]_renewalVars
        => [\A b \in Badge, c \in Claimer :
              /\ renewal[b].state = "claimable" /\ renewal'[b].state = "claimed"
              /\ renewal'[b].token = c /\ claimer[c].ticket = renewal[b].ticket
              => renewal[b].ticket \notin stopped]_renewalVars
  <2> SUFFICES ASSUME BadgeInvariant, StopInvariant, [RenewalNext]_renewalVars,
                      NEW b \in Badge, NEW c \in Claimer,
                      renewal[b].state = "claimable", renewal'[b].state = "claimed",
                      renewal'[b].token = c, claimer[c].ticket = renewal[b].ticket,
                      renewal[b].ticket \in stopped
               PROVE  FALSE
    OBVIOUS
  <2>1. ClaimRenewal(c)
    BY OnlyClaimsClaim DEF BadgeInvariant
  <2>2. Reading(c, renewal[b].ticket)
    BY <2>1 DEF ClaimRenewal, Reading
  <2> QED BY <2>2 DEF StopInvariant, Closed, InTheWorks
<1> QED BY <1>1, StopInvariantHolds, PTL DEF RenewalSpec, StopClosesTheWindow

(***************************************************************************)
(* The overlap                                                             *)
(***************************************************************************)
Early == {"absent", "pending_approval", "claimable"}
AtTheClaim == {"read", "claimed"}

\* A row that waits has no new badge.
EarlyRows == \A b \in Badge : renewal[b].state \in Early => renewal[b].new = NoBadge

\* Nobody proposes to renew the new badge of a renewal that is not over.
NotProposed ==
  \A o \in Badge, p \in Proposal :
    renewal[o].state = "claimed" /\ renewal[o].new # NoBadge => proposal[p].old # renewal[o].new

\* What a claim is about was minted, and is the bound badge as long as it is valid.
Claims ==
  \A c \in Claimer : claimer[c].pc \in AtTheClaim =>
    /\ claimer[c].old \in Badge /\ claimer[c].old <= minted
    /\ rotation = "idle" /\ cred[claimer[c].old] = "live" => claimer[c].old = bound

ProposedWasMinted == \A p \in Proposal : proposal[p].old <= minted
NewWasIssued == \A o \in Badge : renewal[o].new # NoBadge => cred[renewal[o].new] # "none"

OverlapInvariant ==
  EarlyRows /\ NotProposed /\ Claims /\ ProposedWasMinted /\ NewWasIssued /\ OverlapCanEnd

LEMMA InitOverlap == RenewalInit => OverlapInvariant
<1> SUFFICES ASSUME RenewalInit PROVE OverlapInvariant
  OBVIOUS
<1>1. \A b \in Badge : renewal[b].new = NoBadge
  BY DEF RenewalInit, NoRenewal
<1>2. Claims
  BY DEF RenewalInit, Claims, AtTheClaim
<1>3. ProposedWasMinted
  BY DEF RenewalInit, ProposedWasMinted, NoBadge
<1> QED BY <1>1, <1>2, <1>3 DEF OverlapInvariant, EarlyRows, NotProposed, NewWasIssued, OverlapCanEnd

\* What a step may do to the state and the new badge of a row.
Same(x) == renewal'[x].state = renewal[x].state /\ renewal'[x].new = renewal[x].new
Reset(x) == renewal'[x].state # "claimed" /\ renewal'[x].new = NoBadge
Over(x) == renewal'[x].state \notin Early \cup {"claimed"} /\ renewal'[x].new = renewal[x].new
Opened(x) ==
  /\ renewal[x].state = "pending_approval" /\ renewal'[x].state = "claimable"
  /\ renewal'[x].new = renewal[x].new
ClaimedNow(x) ==
  /\ renewal[x].state = "claimable" /\ renewal'[x].state = "claimed"
  /\ renewal'[x].new = renewal[x].new
IssuedBy(c, x) ==
  /\ IssueBadge(c) /\ x = claimer[c].old
  /\ renewal'[x].state = "claimed" /\ renewal'[x].new = minted + 1
Fate(x) ==
  Same(x) \/ Reset(x) \/ Over(x) \/ Opened(x) \/ ClaimedNow(x) \/ \E c \in Claimer : IssuedBy(c, x)

LEMMA RowFate ==
  ASSUME RenewalTypeOK, [RenewalNext]_renewalVars, NEW x \in Badge
  PROVE  Fate(x)
<1> USE DEF badgeVars, stopVars, retireVars
<1>0. renewal \in [Badge -> RenewalRow]
  BY DEF RenewalTypeOK
<1>s. StopEmployee => Same(x) \/ Over(x)
  BY <1>0 DEF StopEmployee, BlockClaimable, RenewalRow, Same, Over, Early
<1>1. ASSUME NEW p \in Proposal, ProposalStep(p) PROVE Same(x) \/ Reset(x) \/ Opened(x)
  <2>1. ~OpenWindow(p) /\ ~InsertRenewal(p) /\ ~ReuseRenewal(p) => Same(x)
    BY <1>1 DEF ProposalStep, Propose, Decide, StartFulfilment, FulfilmentFails, Same
  <2>2. OpenWindow(p) => Same(x) \/ Opened(x)
    BY <1>0 DEF OpenWindow, RenewalRow, Same, Opened
  <2>3. InsertRenewal(p) \/ ReuseRenewal(p) => Same(x) \/ Reset(x)
    <3>1. LET row == [NoRenewal EXCEPT !.state = "pending_approval", !.ticket = p]
          IN  row.new = NoBadge /\ row.state = "pending_approval"
      BY WaitingRow
    <3> QED BY <1>0, <3>1 DEF InsertRenewal, ReuseRenewal, Same, Reset
  <2> QED BY <2>1, <2>2, <2>3
<1>2. ASSUME NEW c \in Claimer, ClaimerStep(c) PROVE Same(x) \/ Reset(x) \/ ClaimedNow(x) \/ IssuedBy(c, x)
  <2>1. ClaimRenewal(c) => Same(x) \/ ClaimedNow(x)
    BY <1>0 DEF ClaimRenewal, RenewalRow, Same, ClaimedNow
  <2>2. ReleaseClaim(c) \/ AbortMinted(c) => Same(x) \/ Reset(x)
    BY <1>0, HandedBackRow DEF ReleaseClaim, AbortMinted, Same, Reset
  <2>3. IssueBadge(c) => Same(x) \/ IssuedBy(c, x)
    <3>1. IssueBadge(c) /\ x # claimer[c].old => renewal'[x] = renewal[x]
      BY <1>0 DEF IssueBadge
    <3>2. IssueBadge(c) /\ x = claimer[c].old
            => renewal'[x].state = "claimed" /\ renewal'[x].new = minted + 1
      BY <1>0 DEF IssueBadge, RenewalRow
    <3> QED BY <3>1, <3>2 DEF Same, IssuedBy
  <2>4. ~ClaimRenewal(c) /\ ~ReleaseClaim(c) /\ ~AbortMinted(c) /\ ~IssueBadge(c) => Same(x)
    BY <1>2 DEF ClaimerStep, ReadToClaim, IssueFails, HandOver, ClaimerDies, Same
  <2> QED BY <2>1, <2>2, <2>3, <2>4
<1>3. ASSUME NEW b \in Badge,
             CloseStale(b) \/ Authenticate(b) \/ Cron(b) \/ CloseWindow(b) \/ CloseOverlap(b)
      PROVE  Same(x) \/ Over(x)
  <2>1. CloseStale(b) \/ CronFindsRevoked(b) => Same(x) \/ Over(x)
    BY <1>0 DEF CloseStale, CronFindsRevoked, RenewalRow, Same, Over, Early
  <2>2. CloseWindow(b) \/ CloseOverlap(b) => Same(x)
    BY <1>0 DEF CloseWindow, CloseOverlap, RenewalRow, Same
  <2>3. Authenticate(b) \/ CronFindsUnused(b) \/ CronFindsUsed(b) => Same(x)
    BY DEF Authenticate, CronFindsUnused, CronFindsUsed, Same
  <2> QED BY <1>3, <2>1, <2>2, <2>3 DEF Cron
<1>4. ASSUME NEW o \in Badge, NEW n \in Badge,
             CompleteSwitchover(o, n) \/ RetireUnused(o, n) \/ RetireFails(o, n)
      PROVE  Same(x) \/ Over(x)
  BY <1>0, <1>4 DEF CompleteSwitchover, RetireUnused, RetireFails, RenewalRow, Same, Over, Early
<1>5. ReleaseEmployee \/ RotateBinding \/ Rotate \/ RotationDies \/ UNCHANGED renewalVars => Same(x)
  BY DEF ReleaseEmployee, RotateBinding, Rotate, InsertRotated, FinishRotation, RotationDies,
         renewalVars, Same
<1> QED BY <1>s, <1>1, <1>2, <1>3, <1>4, <1>5 DEF RenewalNext, Fate

\* A proposal is about the badge it was made for.
LEMMA ProposalFate ==
  ASSUME RenewalTypeOK, [RenewalNext]_renewalVars, NEW p \in Proposal,
         proposal'[p].old # proposal[p].old
  PROVE  \E b \in Badge : Propose(p, b) /\ proposal'[p].old = b
<1>0. proposal \in [Proposal -> ProposalRow]
  BY DEF RenewalTypeOK
<1>1. ASSUME NEW q \in Proposal, NEW b \in Badge, Propose(q, b)
      PROVE  q = p /\ proposal'[p].old = b
  BY <1>0, <1>1 DEF Propose
<1>2. ASSUME NEW q \in Proposal, InsertRenewal(q) \/ ReuseRenewal(q) PROVE FALSE
  BY <1>0, <1>2 DEF InsertRenewal, ReuseRenewal, ProposalRow
<1>3. ASSUME proposal' = proposal PROVE FALSE
  BY <1>3
<1>4. ASSUME NEW c \in Claimer, ClaimerStep(c) PROVE proposal' = proposal
  BY <1>4 DEF ClaimerStep, ReadToClaim, ClaimRenewal, IssueBadge, IssueFails, ReleaseClaim, HandOver,
              AbortMinted, ClaimerDies
<1>5. ASSUME NEW b \in Badge,
             CloseStale(b) \/ Authenticate(b) \/ Cron(b) \/ CloseWindow(b) \/ CloseOverlap(b)
      PROVE  proposal' = proposal
  BY <1>5 DEF CloseStale, Authenticate, Cron, CronFindsRevoked, CronFindsUnused, CronFindsUsed,
              CloseWindow, CloseOverlap
<1>6. ASSUME NEW o \in Badge, NEW n \in Badge,
             CompleteSwitchover(o, n) \/ RetireUnused(o, n) \/ RetireFails(o, n)
      PROVE  proposal' = proposal
  BY <1>6 DEF CompleteSwitchover, RetireUnused, RetireFails
<1>7. StopEmployee \/ ReleaseEmployee \/ RotateBinding \/ Rotate \/ RotationDies
        \/ UNCHANGED renewalVars
        => proposal' = proposal
  BY DEF StopEmployee, ReleaseEmployee, RotateBinding, Rotate, InsertRotated, FinishRotation,
         RotationDies, renewalVars
<1>8. ASSUME NEW q \in Proposal, ProposalStep(q)
      PROVE  proposal' = proposal \/ InsertRenewal(q) \/ ReuseRenewal(q)
             \/ \E b \in Badge : Propose(q, b)
  BY <1>8 DEF ProposalStep, Decide, StartFulfilment, OpenWindow, FulfilmentFails
<1> QED BY <1>1, <1>2, <1>3, <1>4, <1>5, <1>6, <1>7, <1>8 DEF RenewalNext

\* A claim is about the badge whose row it read.
LEMMA ClaimFate ==
  ASSUME RenewalTypeOK, [RenewalNext]_renewalVars, NEW c \in Claimer,
         claimer'[c].pc \in AtTheClaim
  PROVE  \/ claimer[c].pc \in AtTheClaim /\ claimer'[c].old = claimer[c].old
         \/ \E b \in Badge : ReadToClaim(c, b) /\ claimer'[c].old = b
<1>0. claimer \in [Claimer -> ClaimerRow] /\ claimer[c] \in ClaimerRow
  BY DEF RenewalTypeOK
<1> DEFINE Kept == claimer[c].pc \in AtTheClaim /\ claimer'[c].old = claimer[c].old
           Read == \E b \in Badge : ReadToClaim(c, b) /\ claimer'[c].old = b
<1>1. claimer'[c] = claimer[c] => Kept
  OBVIOUS
<1>2. ASSUME NEW x \in Claimer, ClaimerStep(x), x # c PROVE claimer'[c] = claimer[c]
  BY <1>0, <1>2 DEF ClaimerStep, ReadToClaim, ClaimRenewal, IssueBadge, IssueFails, ReleaseClaim,
                    HandOver, AbortMinted, ClaimerDies
<1>3. ASSUME NEW b \in Badge, ReadToClaim(c, b) PROVE Read
  <2>1. claimer'[c].old = b
    BY <1>0, <1>3 DEF ReadToClaim
  <2> QED BY <1>3, <2>1
<1>4. ClaimRenewal(c) => Kept
  BY <1>0 DEF ClaimRenewal, ClaimerRow, AtTheClaim
<1>5. ~(IssueBadge(c) \/ IssueFails(c) \/ ReleaseClaim(c) \/ HandOver(c) \/ AbortMinted(c)
        \/ ClaimerDies(c))
  <2>1. ~IssueBadge(c)
    BY <1>0 DEF IssueBadge, ClaimerRow, AtTheClaim
  <2>2. ~(IssueFails(c) \/ ReleaseClaim(c) \/ HandOver(c) \/ AbortMinted(c) \/ ClaimerDies(c))
    BY <1>0 DEF IssueFails, ReleaseClaim, HandOver, AbortMinted, ClaimerDies, ClaimerRow, AtTheClaim
  <2> QED BY <2>1, <2>2
<1>6. ASSUME NEW p \in Proposal, ProposalStep(p) PROVE claimer' = claimer
  BY <1>6 DEF ProposalStep, Propose, InsertRenewal, ReuseRenewal, Decide, StartFulfilment, OpenWindow,
              FulfilmentFails
<1>7. ASSUME NEW b \in Badge,
             CloseStale(b) \/ Authenticate(b) \/ Cron(b) \/ CloseWindow(b) \/ CloseOverlap(b)
      PROVE  claimer' = claimer
  BY <1>7 DEF CloseStale, Authenticate, Cron, CronFindsRevoked, CronFindsUnused, CronFindsUsed,
              CloseWindow, CloseOverlap
<1>8. ASSUME NEW o \in Badge, NEW n \in Badge,
             CompleteSwitchover(o, n) \/ RetireUnused(o, n) \/ RetireFails(o, n)
      PROVE  claimer' = claimer
  BY <1>8 DEF CompleteSwitchover, RetireUnused, RetireFails
<1>9. StopEmployee \/ ReleaseEmployee \/ RotateBinding \/ Rotate \/ RotationDies
        \/ UNCHANGED renewalVars
        => claimer' = claimer
  BY DEF StopEmployee, ReleaseEmployee, RotateBinding, Rotate, InsertRotated, FinishRotation,
         RotationDies, renewalVars
<1>10. ASSUME ClaimerStep(c) PROVE Kept \/ Read
  BY <1>3, <1>4, <1>5, <1>10 DEF ClaimerStep
<1> HIDE DEF Kept, Read
<1>11. Kept \/ Read
  <2>1. claimer' = claimer => Kept
    BY <1>1
  <2> QED BY <1>1, <1>2, <1>6, <1>7, <1>8, <1>9, <1>10, <2>1 DEF RenewalNext
<1> QED BY <1>11 DEF Kept, Read

\* While no rotation is under way a badge becomes valid only when it is issued, and the
\* binding moves only by a switchover, which retires the old badge and ends its row.
LEMMA BadgeFate ==
  ASSUME RenewalTypeOK, [RenewalNext]_renewalVars, rotation = "idle", rotation' = "idle"
  PROVE  /\ \A b \in Badge : cred'[b] = "live" =>
              cred[b] = "live" \/ \E c \in Claimer : IssueBadge(c) /\ b = minted + 1
         /\ \/ bound' = bound
            \/ \E o, n \in Badge :
                 /\ <<o, n>> \in switching /\ renewal[o].new = n /\ bound \in {o, n} /\ bound' = n
                 /\ cred'[o] = "revoked" /\ renewal'[o].state = "old_revoked"
                 /\ \A c \in Claimer : ~IssueBadge(c)
<1> USE DEF badgeVars, stopVars, retireVars
<1>0. cred \in [Badge -> CredState] /\ renewal \in [Badge -> RenewalRow] /\ bound \in Nat
      /\ minted \in Nat
  BY DEF RenewalTypeOK, CredState, Badge
<1> DEFINE Lives == \A b \in Badge : cred'[b] = "live" =>
                      cred[b] = "live" \/ \E c \in Claimer : IssueBadge(c) /\ b = minted + 1
           Moved == \E o, n \in Badge :
                 /\ <<o, n>> \in switching /\ renewal[o].new = n /\ bound \in {o, n} /\ bound' = n
                 /\ cred'[o] = "revoked" /\ renewal'[o].state = "old_revoked"
                 /\ \A c \in Claimer : ~IssueBadge(c)
           Goal == Lives /\ (bound' = bound \/ Moved)
<1>1. cred' = cred /\ bound' = bound => Goal
  OBVIOUS
<1>2. ASSUME NEW c \in Claimer, IssueBadge(c) PROVE Goal
  <2>1. bound' = bound /\ \A b \in Badge : cred'[b] = cred[b] \/ b = minted + 1
    BY <1>0, <1>2 DEF IssueBadge
  <2> QED BY <1>2, <2>1
<1>3. ASSUME NEW c \in Claimer, AbortMinted(c) PROVE Goal
  BY <1>0, <1>3 DEF AbortMinted, CredState
<1>4. ASSUME NEW o \in Badge, NEW n \in Badge, CompleteSwitchover(o, n) PROVE Goal
  <2>1. Lives
    BY <1>0, <1>4 DEF CompleteSwitchover, CredState
  <2>2. CASE renewal[o].new = n /\ bound \in {o, n}
    <3>1. <<o, n>> \in switching /\ bound' = n /\ cred'[o] = "revoked"
          /\ renewal'[o].state = "old_revoked" /\ switching' # switching
      BY <1>0, <1>4, <2>2 DEF CompleteSwitchover, MovesFrom, RenewalRow
    <3>2. \A c \in Claimer : ~IssueBadge(c)
      BY <3>1 DEF IssueBadge
    <3> QED BY <2>1, <2>2, <3>1, <3>2
  <2>3. CASE ~(renewal[o].new = n /\ bound \in {o, n})
    BY <1>4, <2>1, <2>3 DEF CompleteSwitchover, MovesFrom
  <2> QED BY <2>2, <2>3
<1>5. ASSUME NEW o \in Badge, NEW n \in Badge, RetireUnused(o, n) PROVE Goal
  BY <1>0, <1>5 DEF RetireUnused, CredState
<1>6. ~RotateBinding /\ ~InsertRotated /\ ~FinishRotation /\ ~RotationDies
  BY DEF RotateBinding, InsertRotated, FinishRotation, RotationDies
<1> HIDE DEF Goal
<1>7. ASSUME NEW p \in Proposal, ProposalStep(p) PROVE Goal
  BY <1>1, <1>7 DEF ProposalStep, Propose, InsertRenewal, ReuseRenewal, Decide, StartFulfilment,
                    OpenWindow, FulfilmentFails
<1>8. ASSUME NEW c \in Claimer, ClaimerStep(c) PROVE Goal
  BY <1>1, <1>2, <1>3, <1>8 DEF ClaimerStep, ReadToClaim, ClaimRenewal, IssueFails, ReleaseClaim,
                                HandOver, ClaimerDies
<1>9. ASSUME NEW b \in Badge,
             CloseStale(b) \/ Authenticate(b) \/ Cron(b) \/ CloseWindow(b) \/ CloseOverlap(b)
      PROVE  Goal
  BY <1>1, <1>9 DEF CloseStale, Authenticate, Cron, CronFindsRevoked, CronFindsUnused,
                    CronFindsUsed, CloseWindow, CloseOverlap
<1>10. ASSUME NEW o \in Badge, NEW n \in Badge, RetireFails(o, n) PROVE Goal
  BY <1>1, <1>10 DEF RetireFails
<1>11. StopEmployee \/ ReleaseEmployee \/ UNCHANGED renewalVars => Goal
  BY <1>1 DEF StopEmployee, ReleaseEmployee, renewalVars
<1>12. Goal
  BY <1>4, <1>5, <1>6, <1>7, <1>8, <1>9, <1>10, <1>11 DEF RenewalNext, Rotate
<1> QED BY <1>12 DEF Goal

\* A badge that exists stays in the credentials.
LEMMA BadgesStay ==
  ASSUME RenewalTypeOK, [RenewalNext]_renewalVars, NEW b \in Badge, cred[b] # "none"
  PROVE  cred'[b] # "none"
<1> USE DEF badgeVars, stopVars, retireVars
<1>0. cred \in [Badge -> CredState]
  BY DEF RenewalTypeOK, CredState
<1>1. ASSUME NEW c \in Claimer, ClaimerStep(c) PROVE cred'[b] # "none"
  BY <1>0, <1>1 DEF ClaimerStep, ReadToClaim, ClaimRenewal, IssueBadge, IssueFails, ReleaseClaim,
                    HandOver, AbortMinted, ClaimerDies
<1>2. ASSUME NEW o \in Badge, NEW n \in Badge,
             CompleteSwitchover(o, n) \/ RetireUnused(o, n) \/ RetireFails(o, n)
      PROVE  cred'[b] # "none"
  BY <1>0, <1>2 DEF CompleteSwitchover, RetireUnused, RetireFails
<1>3. ASSUME RotateBinding \/ Rotate \/ RotationDies PROVE cred'[b] # "none"
  BY <1>0, <1>3 DEF RotateBinding, Rotate, InsertRotated, FinishRotation, Replaced, RotationDies
<1>4. ASSUME NEW p \in Proposal, ProposalStep(p) PROVE cred' = cred
  BY <1>4 DEF ProposalStep, Propose, InsertRenewal, ReuseRenewal, Decide, StartFulfilment,
              OpenWindow, FulfilmentFails
<1>5. ASSUME NEW x \in Badge,
             CloseStale(x) \/ Authenticate(x) \/ Cron(x) \/ CloseWindow(x) \/ CloseOverlap(x)
      PROVE  cred' = cred
  BY <1>5 DEF CloseStale, Authenticate, Cron, CronFindsRevoked, CronFindsUnused, CronFindsUsed,
              CloseWindow, CloseOverlap
<1>6. StopEmployee \/ ReleaseEmployee \/ UNCHANGED renewalVars => cred' = cred
  BY DEF StopEmployee, ReleaseEmployee, renewalVars
<1> QED BY <1>1, <1>2, <1>3, <1>4, <1>5, <1>6 DEF RenewalNext

\* A rotation comes to its end only by revoking every badge but the bound one.
LEMMA RotationEnds ==
  ASSUME RenewalTypeOK, [RenewalNext]_renewalVars, rotation # "idle", rotation' = "idle"
  PROVE  /\ UNCHANGED <<bound, renewal, claimer>>
         /\ \A b \in Badge : cred'[b] = "live" => b = bound
<1> USE DEF badgeVars, stopVars, retireVars
<1>1. FinishRotation
  BY DEF RenewalNext, renewalVars, StopEmployee, ReleaseEmployee, ProposalStep, Propose,
         InsertRenewal, ReuseRenewal, Decide, StartFulfilment, OpenWindow, FulfilmentFails,
         ClaimerStep, ReadToClaim, ClaimRenewal, IssueBadge, IssueFails, ReleaseClaim, HandOver,
         AbortMinted, ClaimerDies, CloseStale, Authenticate, Cron, CronFindsRevoked,
         CronFindsUnused, CronFindsUsed, CloseWindow, CloseOverlap, CompleteSwitchover,
         RetireUnused, RetireFails, RotateBinding, Rotate, InsertRotated, RotationDies
<1> QED BY <1>1 DEF FinishRotation, Replaced, RenewalTypeOK

\* A row that is not absent, or has a new badge, was written for a proposal about its badge.
LEMMA RowsWereProposed ==
  ASSUME StopInvariant, NEW b \in Badge, Filed(b)
  PROVE  \E p \in Proposal : proposal[p].old = b
BY DEF StopInvariant, RowsFiled

\* The new badge of a claimed renewal has no row of its own: nobody could propose it.
LEMMA NewHasNoRow ==
  ASSUME StopInvariant, OverlapInvariant, NEW o \in Badge, NEW b \in Badge,
         renewal[o].state = "claimed", renewal[o].new = b
  PROVE  ~Filed(b)
<1>1. b # NoBadge
  BY DEF Badge, NoBadge
<1>2. \A p \in Proposal : proposal[p].old # b
  BY <1>1 DEF OverlapInvariant, NotProposed
<1> QED BY <1>2, RowsWereProposed

LEMMA ClaimsKept ==
  ASSUME BadgeInvariant, StopInvariant, OverlapInvariant, [RenewalNext]_renewalVars
  PROVE  Claims'
<1> SUFFICES ASSUME NEW c \in Claimer, claimer'[c].pc \in AtTheClaim
             PROVE  /\ claimer'[c].old \in Badge /\ claimer'[c].old <= minted'
                    /\ rotation' = "idle" /\ cred'[claimer'[c].old] = "live"
                         => claimer'[c].old = bound'
  BY DEF Claims
<1>0. RenewalTypeOK /\ minted \in Nat /\ minted' \in Nat /\ minted <= minted'
  BY BadgesOnlyCome DEF BadgeInvariant
<1>1. claimer'[c].old \in Badge /\ claimer'[c].old <= minted
  <2>1. CASE claimer[c].pc \in AtTheClaim /\ claimer'[c].old = claimer[c].old
    BY <2>1 DEF OverlapInvariant, Claims
  <2>2. ASSUME NEW b \in Badge, ReadToClaim(c, b), claimer'[c].old = b
        PROVE  claimer'[c].old \in Badge /\ claimer'[c].old <= minted
    BY <2>2 DEF ReadToClaim, BadgeInvariant, BadgesInOrder
  <2> QED BY <1>0, <2>1, <2>2, ClaimFate
<1>2. ASSUME rotation' = "idle", cred'[claimer'[c].old] = "live" PROVE claimer'[c].old = bound'
  <2>1. CASE rotation # "idle"
    BY <1>0, <1>1, <1>2, <2>1, RotationEnds
  <2>2. CASE rotation = "idle"
    <3> DEFINE old == claimer'[c].old
    <3>1. cred[old] = "live"
      <4>1. old # minted + 1
        BY <1>0, <1>1 DEF Badge
      <4> QED BY <1>0, <1>1, <1>2, <2>2, <4>1, BadgeFate
    <3>2. old = bound
      <4>1. CASE claimer[c].pc \in AtTheClaim /\ claimer'[c].old = claimer[c].old
        BY <2>2, <3>1, <4>1 DEF OverlapInvariant, Claims
      <4>2. ASSUME NEW b \in Badge, ReadToClaim(c, b), old = b PROVE b = bound
        <5>1. Accepted(b) /\ Filed(b)
          BY <4>2 DEF ReadToClaim, Filed
        <5>2. CASE renewal[bound].state = "claimed" /\ renewal[bound].new = b
          BY <1>0, <5>1, <5>2, NewHasNoRow DEF RenewalTypeOK
        <5> QED BY <5>1, <5>2 DEF Accepted
      <4> QED BY <1>0, <4>1, <4>2, ClaimFate
    <3>3. CASE bound' = bound
      BY <3>2, <3>3
    <3>4. ASSUME NEW o \in Badge, NEW n \in Badge, bound \in {o, n}, bound' = n,
                 cred'[o] = "revoked"
          PROVE  old = bound'
      BY <1>2, <3>2, <3>4
    <3> QED BY <1>0, <1>2, <2>2, <3>3, <3>4, BadgeFate
  <2> QED BY <2>1, <2>2
<1> QED BY <1>0, <1>1, <1>2 DEF Badge

LEMMA NewIsABadge ==
  ASSUME BadgeInvariant, [RenewalNext]_renewalVars, NEW o \in Badge, renewal'[o].new # NoBadge
  PROVE  renewal'[o].new \in Badge
<1>1. BadgeInvariant'
  BY BadgeStep
<1>2. renewal'[o] \in RenewalRow
  BY <1>1 DEF BadgeInvariant, RenewalTypeOK
<1>3. renewal'[o].new \in 0..BadgeLimit
  BY <1>2 DEF RenewalRow
<1> QED BY <1>3, RenewalConstants DEF Badge, NoBadge, RenewalConstants

LEMMA OverlapKept ==
  ASSUME BadgeInvariant, StopInvariant, OverlapInvariant, [RenewalNext]_renewalVars, NewWasIssued'
  PROVE  OverlapCanEnd'
<1> SUFFICES ASSUME NEW o \in Badge, renewal'[o].state = "claimed", renewal'[o].new # NoBadge,
                    rotation' = "idle", cred'[renewal'[o].new] = "live"
             PROVE  bound' \in {o, renewal'[o].new}
  BY DEF OverlapCanEnd, NewWasIssued
<1> DEFINE new == renewal'[o].new
<1>0. RenewalTypeOK /\ minted \in Nat
  BY BadgesOnlyCome DEF BadgeInvariant
<1>1. new \in Badge
  BY NewIsABadge
<1>2. CASE rotation # "idle"
  BY <1>0, <1>1, <1>2, RotationEnds
<1>3. CASE rotation = "idle"
  <2>1. Same(o) \/ \E c \in Claimer : IssuedBy(c, o)
    BY <1>0, RowFate DEF Fate, Reset, Over, Opened, ClaimedNow, OverlapInvariant, EarlyRows, Early
  <2>2. CASE Same(o)
    <3>1. renewal[o].state = "claimed" /\ renewal[o].new = new
      BY <2>2 DEF Same
    <3>2. cred[new] # "none" /\ new <= minted /\ new # minted + 1
      BY <1>0, <1>1, <3>1 DEF OverlapInvariant, NewWasIssued, BadgeInvariant, BadgesInOrder, Badge
    <3>3. cred[new] = "live"
      BY <1>0, <1>1, <1>3, <3>2, BadgeFate
    <3>4. bound \in {o, new}
      BY <1>3, <3>1, <3>3 DEF OverlapInvariant, OverlapCanEnd
    <3>5. ASSUME NEW x \in Badge, NEW n \in Badge, renewal[x].new = n, bound \in {x, n},
                 bound' = n, renewal'[x].state = "old_revoked"
          PROVE  bound' \in {o, new}
      <4>1. x # o /\ Filed(x)
        BY <3>5 DEF Filed, Badge, NoBadge
      <4>2. x # new
        BY <3>1, <4>1, NewHasNoRow
      <4> QED BY <3>4, <3>5, <4>1, <4>2
    <3> QED BY <1>0, <1>3, <3>4, <3>5, BadgeFate
  <2>3. ASSUME NEW c \in Claimer, IssuedBy(c, o) PROVE bound' = o
    <3>1. bound' = bound /\ claimer[c].pc = "claimed" /\ cred[claimer[c].old] = "live"
          /\ o = claimer[c].old
      BY <2>3 DEF IssuedBy, IssueBadge
    <3> QED BY <1>3, <3>1 DEF OverlapInvariant, Claims, AtTheClaim
  <2> QED BY <2>1, <2>2, <2>3
<1> QED BY <1>2, <1>3

LEMMA OverlapStep ==
  ASSUME BadgeInvariant, StopInvariant, OverlapInvariant, [RenewalNext]_renewalVars
  PROVE  OverlapInvariant'
<1>0. /\ RenewalTypeOK /\ minted \in Nat /\ minted' \in Nat /\ minted <= minted'
      /\ cred \in [Badge -> CredState]
  BY BadgesOnlyCome DEF BadgeInvariant, RenewalTypeOK, CredState
<1>1. EarlyRows'
  <2> SUFFICES ASSUME NEW b \in Badge, renewal'[b].state \in Early
               PROVE  renewal'[b].new = NoBadge
    BY DEF EarlyRows
  <2> QED BY <1>0, RowFate DEF Fate, Same, Reset, Over, Opened, ClaimedNow, IssuedBy,
                               OverlapInvariant, EarlyRows, Early
<1>2. NotProposed'
  <2> SUFFICES ASSUME NEW o \in Badge, NEW p \in Proposal, renewal'[o].state = "claimed",
                      renewal'[o].new # NoBadge
               PROVE  proposal'[p].old # renewal'[o].new
    BY DEF NotProposed
  <2>1. Same(o) \/ \E c \in Claimer : IssuedBy(c, o)
    BY <1>0, RowFate DEF Fate, Reset, Over, Opened, ClaimedNow, OverlapInvariant, EarlyRows, Early
  <2>2. CASE Same(o)
    <3>1. proposal'[p].old = proposal[p].old
      <4>1. \A b \in Badge : ~Propose(p, b)
        BY <2>2 DEF Propose, Same, OpenStates
      <4> QED BY <1>0, <4>1, ProposalFate
    <3> QED BY <2>2, <3>1 DEF Same, OverlapInvariant, NotProposed
  <2>3. ASSUME NEW c \in Claimer, IssuedBy(c, o) PROVE proposal'[p].old # renewal'[o].new
    <3>1. proposal' = proposal /\ renewal'[o].new = minted + 1
      BY <2>3 DEF IssuedBy, IssueBadge
    <3>2. proposal[p].old <= minted /\ proposal[p].old \in Nat
      BY <1>0 DEF OverlapInvariant, ProposedWasMinted, RenewalTypeOK, ProposalRow
    <3> QED BY <1>0, <3>1, <3>2
  <2> QED BY <2>1, <2>2, <2>3
<1>3. ProposedWasMinted'
  <2> SUFFICES ASSUME NEW p \in Proposal PROVE proposal'[p].old <= minted'
    BY DEF ProposedWasMinted
  <2>1. CASE proposal'[p].old = proposal[p].old
    BY <1>0, <2>1 DEF OverlapInvariant, ProposedWasMinted, RenewalTypeOK, ProposalRow
  <2>2. ASSUME NEW b \in Badge, Propose(p, b), proposal'[p].old = b PROVE b <= minted'
    <3>1. b <= minted /\ b \in Nat
      BY <2>2 DEF Propose, IsNewest, BadgeInvariant, BadgesInOrder, Badge
    <3> QED BY <1>0, <3>1
  <2> QED BY <1>0, <2>1, <2>2, ProposalFate
<1>4. NewWasIssued'
  <2> SUFFICES ASSUME NEW o \in Badge, renewal'[o].new # NoBadge
               PROVE  cred'[renewal'[o].new] # "none"
    BY DEF NewWasIssued
  <2>1. renewal'[o].new \in Badge
    BY NewIsABadge
  <2>2. CASE renewal'[o].new = renewal[o].new
    BY <1>0, <2>1, <2>2, BadgesStay DEF OverlapInvariant, NewWasIssued
  <2>3. CASE renewal'[o].new # renewal[o].new
    <3>1. PICK c \in Claimer : IssueBadge(c) /\ renewal'[o].new = minted + 1
      BY <1>0, <2>3, NewBadges
    <3> QED BY <1>0, <2>1, <3>1 DEF IssueBadge
  <2> QED BY <2>2, <2>3
<1>5. Claims' /\ OverlapCanEnd'
  BY <1>4, ClaimsKept, OverlapKept
<1> QED BY <1>1, <1>2, <1>3, <1>4, <1>5 DEF OverlapInvariant

\* The safety half of OverlapEnds: while the two badges of a renewal are valid the binding
\* names one of them, so that a switchover can end their overlap, for any number of proposals,
\* claims, badges and stops.
THEOREM OverlapCanEndHolds == RenewalSpec => []OverlapCanEnd
<1>1. RenewalInit => OverlapInvariant
  BY InitOverlap
<1>2. /\ BadgeInvariant /\ StopInvariant /\ OverlapInvariant
      /\ [RenewalNext]_renewalVars
      => OverlapInvariant'
  BY OverlapStep
<1>3. OverlapInvariant => OverlapCanEnd
  BY DEF OverlapInvariant
<1> QED BY <1>1, <1>2, <1>3, StopInvariantHolds, PTL DEF RenewalSpec
=============================================================================
