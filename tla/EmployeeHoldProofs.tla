------------------------- MODULE EmployeeHoldProofs -------------------------
(***************************************************************************)
(* Proofs about EmployeeHold, for any number of scopes, members, requests, *)
(* clicks, holds and team changes.                                         *)
(***************************************************************************)
EXTENDS EmployeeHold, FiniteSetTheorems, TLAPS

\* What the properties rest on besides the types: rows are used in order, a pointer
\* names a row of its own scope, a call knows the rows it works on, and a row names a
\* request that has been filed for it.
Shape ==
  /\ \A h \in HoldId : hold[h].state = "unused" <=> h > issued
  /\ \A h \in HoldId : hold[h].state = "unused" => hold[h].ticket = NoRequest
  /\ \A s \in Scope : current[s] # 0 => hold[current[s]].scope = s
  /\ \A r \in Request :
       /\ requestPc[r] # "idle" => ticket[r].hold \in HoldId /\ ticket[r].requestedBy \in Member
       /\ requestPc[r] \in {"idle", "read"} => ticket[r].status = "absent"
  /\ \A h \in HoldId : hold[h].ticket # NoRequest =>
       /\ requestPc[hold[h].ticket] \in {"expiring", "done"}
       /\ hold[h].requestedBy = ticket[hold[h].ticket].requestedBy
  /\ \A c \in Click : clickPc[c] # "idle" =>
       click[c].hold \in HoldId /\ click[c].ticket \in Request /\ click[c].member \in Member

HoldInvariant == TypeOK /\ Shape /\ PointerIsOpenHold /\ OpenTagNamesOpenHold

LEMMA InitHold == Init => HoldInvariant
<1> SUFFICES ASSUME Init PROVE HoldInvariant
  OBVIOUS
<1> USE HoldConstants DEF HoldConstants, Init, HoldId
<1>1. hold \in [HoldId -> HoldRow] /\ current \in [Scope -> 0..HoldLimit]
  BY DEF HoldRow, Class, HoldState
<1>2. issued \in 0..HoldLimit /\ changes \in 0..TeamLimit
  OBVIOUS
<1>3. NoTicket \in ReleaseTicket /\ NothingSeen \in Seen
  BY DEF NoTicket, NothingSeen, ReleaseTicket, Seen, TicketStatus
<1>4. ticket \in [Request -> ReleaseTicket] /\ click \in [Click -> Seen]
  BY <1>3
<1>5. requestPc \in [Request -> RequestPc] /\ clickPc \in [Click -> ClickPc]
  BY DEF RequestPc, ClickPc
<1>6. work \in [Work -> WorkState] /\ tag \in [Work -> 0..HoldLimit] /\ closedTag \in [Work -> BOOLEAN]
  BY DEF WorkState
<1>7. TypeOK
  BY <1>1, <1>2, <1>4, <1>5, <1>6 DEF TypeOK
<1>8. Shape
  BY DEF Shape, NoTicket
<1>9. PointerIsOpenHold /\ OpenTagNamesOpenHold
  BY DEF PointerIsOpenHold, OpenTagNamesOpenHold
<1> QED BY <1>7, <1>8, <1>9 DEF HoldInvariant

\* Steps that touch neither the rows nor the pointers nor the marks.
LEMMA WorkAndTeamStep ==
  ASSUME HoldInvariant,
         (\E w \in Work : WorkStep(w)) \/ (\E m \in Member : TeamStep(m))
  PROVE  HoldInvariant'
<1> USE HoldConstants DEF HoldConstants, HoldInvariant, holdVars, teamVars, requestVars, clickVars, workVars
<1>1. ASSUME NEW w \in Work, WorkStep(w) PROVE HoldInvariant'
  <2>1. TypeOK'
    BY <1>1 DEF WorkStep, FileWork, FinishWork, TypeOK, WorkState
  <2>2. Shape' /\ PointerIsOpenHold' /\ OpenTagNamesOpenHold'
    BY <1>1 DEF WorkStep, FileWork, FinishWork, Shape, PointerIsOpenHold, OpenTagNamesOpenHold
  <2> QED BY <2>1, <2>2
<1>2. ASSUME NEW m \in Member, TeamStep(m) PROVE HoldInvariant'
  <2>1. TypeOK'
    BY <1>2 DEF TeamStep, ChangeRole, Deactivate, TypeOK
  <2>2. Shape' /\ PointerIsOpenHold' /\ OpenTagNamesOpenHold'
    BY <1>2 DEF TeamStep, ChangeRole, Deactivate, Shape, PointerIsOpenHold, OpenTagNamesOpenHold
  <2> QED BY <2>1, <2>2
<1> QED BY <1>1, <1>2

LEMMA StartStep ==
  ASSUME HoldInvariant, NEW s \in Scope, NEW k \in Class, StartHold(s, k)
  PROVE  HoldInvariant'
<1> USE HoldConstants DEF HoldConstants, HoldId
<1>1. TypeOK /\ Shape /\ PointerIsOpenHold /\ OpenTagNamesOpenHold
  BY DEF HoldInvariant
<1>new. PICK new \in HoldId : new = issued + 1
  BY <1>1 DEF StartHold, TypeOK
<1>prev. PICK prev \in 0..HoldLimit : prev = current[s]
  BY <1>1 DEF TypeOK
<1>2. prev # new
  <2>1. prev # 0 => hold[prev].scope = s
    BY <1>1, <1>prev DEF Shape
  <2>2. prev # 0 => hold[prev].state = "open"
    BY <1>1, <1>prev, <2>1 DEF PointerIsOpenHold
  <2>3. hold[new].state = "unused"
    BY <1>1, <1>new DEF Shape, TypeOK
  <2> QED BY <2>2, <2>3
<1>3. hold' = HistoryAfterStart(s, k) /\ current' = [current EXCEPT ![s] = new] /\ issued' = new
  BY <1>new DEF StartHold
<1>4. OpenRow(s, k) \in HoldRow
  BY DEF OpenRow, HoldRow, HoldState
<1>5. hold' \in [HoldId -> HoldRow]
  BY <1>1, <1>2, <1>3, <1>4, <1>new, <1>prev DEF HistoryAfterStart, TypeOK, HoldRow, HoldState
<1>6. \A h \in HoldId : hold'[h] = IF h = new THEN OpenRow(s, k)
                                   ELSE IF h = prev THEN [hold[h] EXCEPT !.state = "superseded"]
                                   ELSE hold[h]
  BY <1>3, <1>new, <1>prev DEF HistoryAfterStart
<1>7. \A h \in HoldId \ {new} : /\ hold'[h].ticket = hold[h].ticket
                                /\ hold'[h].requestedBy = hold[h].requestedBy
                                /\ hold'[h].releasedBy = hold[h].releasedBy
                                /\ hold'[h].scope = hold[h].scope
                                /\ hold'[h].class = hold[h].class
                                /\ h # prev => hold'[h].state = hold[h].state
                                /\ h = prev => hold'[h].state = "superseded"
  <2> TAKE h \in HoldId \ {new}
  <2>1. hold[h] \in HoldRow
    BY <1>1 DEF TypeOK
  <2>2. CASE h = prev
    <3>1. hold'[h] = [hold[h] EXCEPT !.state = "superseded"]
      BY <1>6, <2>2
    <3> QED BY <2>1, <2>2, <3>1 DEF HoldRow
  <2>3. CASE h # prev
    <3>1. hold'[h] = hold[h]
      BY <1>6, <2>3
    <3> QED BY <2>3, <3>1
  <2> QED BY <2>2, <2>3
<1>8. hold'[new].state = "open" /\ hold'[new].scope = s /\ hold'[new].ticket = NoRequest
  <2>1. hold'[new] = OpenRow(s, k)
    BY <1>6
  <2> QED BY <2>1 DEF OpenRow
<1>9. TypeOK'
  <2>1. \A h \in HoldId : hold'[h].state = "released" =>
          hold'[h].releasedBy # NoMember /\ hold'[h].requestedBy # NoMember /\ hold'[h].ticket # NoRequest
    BY <1>1, <1>7, <1>8 DEF TypeOK
  <2>2. tag' \in [Work -> 0..HoldLimit] /\ closedTag' \in [Work -> BOOLEAN]
    BY <1>1, <1>new DEF StartHold, TypeOK
  <2> QED
    BY <1>1, <1>2, <1>3, <1>5, <1>new, <2>1, <2>2
    DEF TypeOK, StartHold, teamVars, requestVars, clickVars
<1>10. Shape'
  <2>1. \A h \in HoldId : hold'[h].state = "unused" <=> h > issued'
    <3> TAKE h \in HoldId
    <3>0. issued \in Nat /\ h \in Nat /\ (hold[h].state = "unused" <=> h > issued)
      BY <1>1 DEF TypeOK, Shape
    <3>1. CASE h = new
      BY <1>3, <1>8, <1>new, <3>0, <3>1
    <3>2. CASE h = prev
      <4>1. hold[h].scope = s
        BY <1>1, <1>prev, <3>2 DEF Shape
      <4>2. hold[h].state = "open"
        BY <1>1, <1>prev, <3>2, <4>1 DEF PointerIsOpenHold
      <4>3. hold'[h].state = "superseded"
        BY <1>2, <1>7, <3>2
      <4> QED BY <1>3, <1>new, <3>0, <4>2, <4>3
    <3>3. CASE h # new /\ h # prev
      <4>1. hold'[h].state = hold[h].state
        BY <1>7, <3>3
      <4> QED BY <1>3, <1>new, <3>0, <3>3, <4>1
    <3> QED BY <3>1, <3>2, <3>3
  <2>unused. \A h \in HoldId : hold'[h].state = "unused" => hold'[h].ticket = NoRequest
    BY <1>1, <1>7, <1>8 DEF Shape
  <2>2. \A u \in Scope : current'[u] # 0 => hold'[current'[u]].scope = u
    <3> SUFFICES ASSUME NEW u \in Scope, u # s, current[u] # 0 PROVE hold'[current[u]].scope = u
      BY <1>1, <1>3, <1>8 DEF TypeOK
    <3>1. current[u] \in HoldId /\ hold[current[u]].scope = u
      BY <1>1 DEF TypeOK, Shape
    <3>2. hold[current[u]].state = "open"
      BY <1>1, <3>1 DEF PointerIsOpenHold
    <3>3. current[u] # new
      BY <1>1, <1>new, <3>1, <3>2 DEF Shape, TypeOK
    <3> QED BY <1>7, <3>1, <3>3
  <2>3. UNCHANGED <<ticket, requestPc, clickPc, click>>
    BY DEF StartHold, requestVars, clickVars
  <2>4. \A h \in HoldId : hold'[h].ticket # NoRequest =>
          hold[h].ticket = hold'[h].ticket /\ hold[h].requestedBy = hold'[h].requestedBy
    BY <1>7, <1>8
  <2> QED BY <1>1, <2>1, <2>unused, <2>2, <2>3, <2>4 DEF Shape
<1>11. PointerIsOpenHold'
  <2> SUFFICES ASSUME NEW h \in HoldId
               PROVE  hold'[h].state = "open" <=> \E u \in Scope : current'[u] = h /\ hold'[h].scope = u
    BY DEF PointerIsOpenHold
  <2>0. \A u \in Scope : current'[u] = IF u = s THEN new ELSE current[u]
    BY <1>1, <1>3 DEF TypeOK
  <2>1. hold[h].state = "open" <=> \E u \in Scope : current[u] = h /\ hold[h].scope = u
    BY <1>1 DEF PointerIsOpenHold
  <2>2. CASE h = new
    BY <1>8, <2>0, <2>2
  <2>3. CASE h = prev
    <3>1. hold[h].scope = s
      BY <1>1, <1>prev, <2>3 DEF Shape
    <3>2. hold'[h].state = "superseded" /\ hold'[h].scope = s
      BY <1>2, <1>7, <2>3, <3>1
    <3> QED BY <1>2, <2>0, <2>3, <3>2
  <2>4. CASE h # new /\ h # prev
    <3>1. hold'[h].state = hold[h].state /\ hold'[h].scope = hold[h].scope
      BY <1>7, <2>4
    <3> QED BY <1>prev, <2>0, <2>1, <2>4, <3>1
  <2> QED BY <2>2, <2>3, <2>4
<1>12. OpenTagNamesOpenHold'
  <2> SUFFICES ASSUME NEW w \in Work, tag'[w] # 0, ~closedTag'[w]
               PROVE  hold'[tag'[w]].state = "open"
    BY DEF OpenTagNamesOpenHold
  <2>1. tag'[w] = (IF w \in Tagged(prev) THEN new ELSE tag[w]) /\ closedTag'[w] = (closedTag[w] /\ work[w] # "open")
    BY <1>new, <1>prev DEF StartHold
  <2>2. CASE w \in Tagged(prev)
    BY <1>8, <2>1, <2>2
  <2>3. CASE w \notin Tagged(prev)
    <3>1. tag'[w] = tag[w] /\ work[w] # "open" /\ (prev # 0 => tag[w] # prev) /\ ~closedTag[w]
      BY <2>1, <2>3 DEF Tagged
    <3>2. tag[w] \in HoldId /\ hold[tag[w]].state = "open"
      BY <1>1, <3>1 DEF OpenTagNamesOpenHold, TypeOK
    <3>3. tag[w] # new /\ tag[w] # prev
      BY <1>1, <1>new, <1>prev, <3>1, <3>2 DEF Shape, TypeOK
    <3> QED BY <1>7, <3>1, <3>2, <3>3
  <2> QED BY <2>2, <2>3
<1> QED BY <1>9, <1>10, <1>11, <1>12 DEF HoldInvariant

\* Steps that leave the rows, the pointers and the marks alone.
LEMMA QuietHistory ==
  ASSUME HoldInvariant, UNCHANGED <<holdVars, workVars>>
  PROVE  PointerIsOpenHold' /\ OpenTagNamesOpenHold'
BY DEF HoldInvariant, holdVars, workVars, PointerIsOpenHold, OpenTagNamesOpenHold

\* A step that writes one release ticket and one call's place, and leaves the rows, the
\* pointers and the marks alone.
LEMMA TicketWrite ==
  ASSUME HoldInvariant, NEW r \in Request, NEW t \in ReleaseTicket, NEW p \in RequestPc,
         ticket' = [ticket EXCEPT ![r] = t],
         requestPc' = [requestPc EXCEPT ![r] = p],
         UNCHANGED <<holdVars, teamVars, workVars, click>>,
         clickPc' \in [Click -> ClickPc],
         \A c \in Click : clickPc'[c] # "idle" => clickPc[c] # "idle",
         p # "idle" => t.hold \in HoldId /\ t.requestedBy \in Member,
         p \in {"idle", "read"} => t.status = "absent",
         requestPc[r] \in {"expiring", "done"} =>
           p \in {"expiring", "done"} /\ t.requestedBy = ticket[r].requestedBy
  PROVE  HoldInvariant'
<1>1. TypeOK /\ Shape
  BY DEF HoldInvariant
<1>2. \A q \in Request : /\ ticket'[q] = IF q = r THEN t ELSE ticket[q]
                         /\ requestPc'[q] = IF q = r THEN p ELSE requestPc[q]
  BY <1>1 DEF TypeOK
<1>3. TypeOK'
  <2>1. ticket' \in [Request -> ReleaseTicket] /\ requestPc' \in [Request -> RequestPc]
    BY <1>1 DEF TypeOK
  <2> QED BY <1>1, <2>1 DEF TypeOK, holdVars, teamVars, workVars
<1>4. Shape'
  <2>1. \A q \in Request :
          /\ requestPc'[q] # "idle" => ticket'[q].hold \in HoldId /\ ticket'[q].requestedBy \in Member
          /\ requestPc'[q] \in {"idle", "read"} => ticket'[q].status = "absent"
    <3> TAKE q \in Request
    <3>1. CASE q = r
      BY <1>2, <3>1
    <3>2. CASE q # r
      BY <1>1, <1>2, <3>2 DEF Shape
    <3> QED BY <3>1, <3>2
  <2>2. \A h \in HoldId : hold[h].ticket # NoRequest =>
          /\ requestPc'[hold[h].ticket] \in {"expiring", "done"}
          /\ hold[h].requestedBy = ticket'[hold[h].ticket].requestedBy
    <3> SUFFICES ASSUME NEW h \in HoldId, hold[h].ticket # NoRequest
                 PROVE  /\ requestPc'[hold[h].ticket] \in {"expiring", "done"}
                        /\ hold[h].requestedBy = ticket'[hold[h].ticket].requestedBy
      OBVIOUS
    <3>1. PICK q \in Request : q = hold[h].ticket
      BY <1>1 DEF TypeOK, HoldRow
    <3>2. requestPc[q] \in {"expiring", "done"} /\ hold[h].requestedBy = ticket[q].requestedBy
      BY <1>1, <3>1 DEF Shape
    <3>3. requestPc'[q] \in {"expiring", "done"} /\ hold[h].requestedBy = ticket'[q].requestedBy
      BY <1>2, <3>2
    <3> QED BY <3>1, <3>3
  <2> QED BY <1>1, <2>1, <2>2 DEF Shape, holdVars
<1> QED BY <1>3, <1>4, QuietHistory DEF HoldInvariant

\* The steps of the release request that write the ticket only.
LEMMA RequestTicketStep ==
  ASSUME HoldInvariant, NEW r \in Request,
         \/ \E m \in Member, h \in HoldId : ReadHold(r, m, h)
         \/ FileTicket(r) \/ RequestFails(r) \/ ExpireTicket(r) \/ RejectTicket(r)
  PROVE  HoldInvariant'
<1>1. TypeOK /\ Shape
  BY DEF HoldInvariant
<1>2. UNCHANGED <<holdVars, teamVars, workVars, click>> /\ UNCHANGED clickPc
  BY DEF ReadHold, FileTicket, RequestFails, ExpireTicket, RejectTicket, clickVars
<1>3. clickPc' \in [Click -> ClickPc] /\ \A c \in Click : clickPc'[c] # "idle" => clickPc[c] # "idle"
  BY <1>1, <1>2 DEF TypeOK
<1>4. PICK old \in ReleaseTicket : old = ticket[r]
  BY <1>1 DEF TypeOK
<1>5. requestPc[r] \in RequestPc /\ ticket = [ticket EXCEPT ![r] = old]
      /\ requestPc = [requestPc EXCEPT ![r] = requestPc[r]]
  BY <1>1, <1>4 DEF TypeOK
<1>6. /\ requestPc[r] # "idle" => old.hold \in HoldId /\ old.requestedBy \in Member
      /\ requestPc[r] \in {"idle", "read"} => old.status = "absent"
  BY <1>1, <1>4 DEF Shape
<1>7. CASE \E m \in Member, h \in HoldId : ReadHold(r, m, h)
  <2>1. PICK m \in Member, h \in HoldId : ReadHold(r, m, h)
    BY <1>7
  <2>2. PICK t : t = [old EXCEPT !.hold = h, !.requestedBy = m]
    OBVIOUS
  <2>3. h \in 0..HoldLimit
    BY HoldConstants DEF HoldConstants, HoldId
  <2>4. t \in ReleaseTicket /\ t.hold = h /\ t.requestedBy = m /\ t.status = old.status
    BY <2>2, <2>3 DEF ReleaseTicket
  <2>5. ticket' = [ticket EXCEPT ![r] = t]
    BY <1>1, <1>4, <2>1, <2>2 DEF ReadHold, TypeOK
  <2>6. requestPc[r] = "idle" /\ requestPc' = [requestPc EXCEPT ![r] = "read"] /\ "read" \in RequestPc
    BY <2>1 DEF ReadHold, RequestPc
  <2> QED BY <1>2, <1>3, <1>6, <2>4, <2>5, <2>6, TicketWrite
<1>8. CASE FileTicket(r)
  <2>1. PICK alone \in BOOLEAN :
          alone = (Eligible = {ticket[r].requestedBy} /\ hold[ticket[r].hold].class # "detector")
    OBVIOUS
  <2>2. PICK t : t = [old EXCEPT !.status = "pending", !.single = alone]
    OBVIOUS
  <2>3. t \in ReleaseTicket /\ t.hold = old.hold /\ t.requestedBy = old.requestedBy /\ t.status = "pending"
    BY <2>2 DEF ReleaseTicket, TicketStatus
  <2>4. ticket' = [ticket EXCEPT ![r] = t]
    BY <1>1, <1>4, <1>8, <2>1, <2>2 DEF FileTicket, TypeOK
  <2>5. requestPc[r] = "read" /\ requestPc' = [requestPc EXCEPT ![r] = "filed"] /\ "filed" \in RequestPc
    BY <1>8 DEF FileTicket, RequestPc
  <2> QED BY <1>2, <1>3, <1>6, <2>3, <2>4, <2>5, TicketWrite
<1>9. CASE RequestFails(r)
  <2>1. requestPc[r] = "filed" /\ requestPc' = [requestPc EXCEPT ![r] = "expiring"]
        /\ "expiring" \in RequestPc /\ UNCHANGED ticket
    BY <1>9 DEF RequestFails, RequestPc
  <2> QED BY <1>2, <1>3, <1>4, <1>5, <1>6, <2>1, TicketWrite
<1>10. CASE ExpireTicket(r)
  <2>1. requestPc[r] = "expiring" /\ requestPc' = [requestPc EXCEPT ![r] = "done"] /\ "done" \in RequestPc
    BY <1>10 DEF ExpireTicket, RequestPc
  <2>2. CASE UNCHANGED ticket
    BY <1>2, <1>3, <1>4, <1>5, <1>6, <2>1, <2>2, TicketWrite
  <2>3. CASE ticket' = [ticket EXCEPT ![r].status = "expired"]
    <3>1. PICK t : t = [old EXCEPT !.status = "expired"]
      OBVIOUS
    <3>2. t \in ReleaseTicket /\ t.hold = old.hold /\ t.requestedBy = old.requestedBy
      BY <3>1 DEF ReleaseTicket, TicketStatus
    <3>3. ticket' = [ticket EXCEPT ![r] = t]
      BY <1>1, <1>4, <2>3, <3>1 DEF TypeOK
    <3> QED BY <1>2, <1>3, <1>4, <1>6, <2>1, <3>2, <3>3, TicketWrite
  <2> QED BY <1>10, <2>2, <2>3 DEF ExpireTicket
<1>11. CASE RejectTicket(r)
  <2>1. old.status = "pending" /\ UNCHANGED requestPc /\ ticket' = [ticket EXCEPT ![r].status = "rejected"]
    BY <1>4, <1>11 DEF RejectTicket
  <2>2. PICK t : t = [old EXCEPT !.status = "rejected"]
    OBVIOUS
  <2>3. t \in ReleaseTicket /\ t.hold = old.hold /\ t.requestedBy = old.requestedBy
    BY <2>2 DEF ReleaseTicket, TicketStatus
  <2>4. ticket' = [ticket EXCEPT ![r] = t]
    BY <1>1, <1>4, <2>1, <2>2 DEF TypeOK
  <2> QED BY <1>2, <1>3, <1>4, <1>5, <1>6, <2>1, <2>3, <2>4, TicketWrite
<1> QED BY <1>7, <1>8, <1>9, <1>10, <1>11

LEMMA RequestReleaseStep ==
  ASSUME HoldInvariant, NEW r \in Request, RequestRelease(r)
  PROVE  HoldInvariant'
<1>1. TypeOK /\ Shape /\ PointerIsOpenHold /\ OpenTagNamesOpenHold
  BY DEF HoldInvariant
<1>2. PICK h \in HoldId : h = ticket[r].hold
  BY <1>1 DEF RequestRelease, Shape
<1>nil. \A x \in 0..HoldLimit : x # 0 => x \in HoldId
  BY HoldConstants DEF HoldConstants, HoldId
<1>3. hold[h].state = "open" /\ hold[h] \in HoldRow /\ ticket[r].requestedBy \in Member
  BY <1>1, <1>2 DEF RequestRelease, MayRequest, Shape, TypeOK
<1> DEFINE new == [hold[h] EXCEPT !.requestedBy = ticket[r].requestedBy, !.ticket = r]
<1>4. hold' = [hold EXCEPT ![h] = new]
  BY <1>1, <1>2, <1>3 DEF RequestRelease, TypeOK, HoldRow
<1>5. new \in HoldRow /\ new.state = "open" /\ new.scope = hold[h].scope /\ new.ticket = r
      /\ new.requestedBy = ticket[r].requestedBy
  BY <1>3 DEF HoldRow
<1> HIDE DEF new
<1>6. requestPc' \in [Request -> RequestPc] /\ requestPc'[r] \in {"done", "expiring"}
      /\ \A q \in Request : q # r => requestPc'[q] = requestPc[q]
  BY <1>1 DEF RequestRelease, TypeOK, RequestPc
<1>7. UNCHANGED <<issued, current, teamVars, ticket, clickVars, workVars>>
  BY DEF RequestRelease
<1>8. TypeOK'
  BY <1>1, <1>3, <1>4, <1>5, <1>6, <1>7 DEF TypeOK, teamVars, clickVars, workVars
<1>9. \A g \in HoldId : hold'[g].state = hold[g].state /\ hold'[g].scope = hold[g].scope
  BY <1>1, <1>3, <1>4, <1>5 DEF TypeOK
<1>10. PointerIsOpenHold' /\ OpenTagNamesOpenHold'
  <2>1. PointerIsOpenHold'
    BY <1>1, <1>7, <1>9 DEF PointerIsOpenHold
  <2>2. UNCHANGED <<work, tag, closedTag>> /\ \A w \in Work : tag[w] \in 0..HoldLimit
    BY <1>1, <1>7 DEF TypeOK, workVars
  <2>3. OpenTagNamesOpenHold'
    BY <1>1, <1>9, <1>nil, <2>2 DEF OpenTagNamesOpenHold
  <2> QED BY <2>1, <2>3
<1>11. Shape'
  <2>1. \A s \in Scope : current'[s] # 0 => hold'[current'[s]].scope = s
    <3>1. UNCHANGED current /\ \A s \in Scope : current[s] \in 0..HoldLimit
      BY <1>1, <1>7 DEF TypeOK
    <3> QED BY <1>1, <1>9, <1>nil, <3>1 DEF Shape
  <2>2. \A g \in HoldId : hold'[g].ticket # NoRequest =>
       /\ requestPc'[hold'[g].ticket] \in {"expiring", "done"}
       /\ hold'[g].requestedBy = ticket'[hold'[g].ticket].requestedBy
    <3> TAKE g \in HoldId
    <3>1. CASE g = h
      BY <1>1, <1>4, <1>5, <1>6, <1>7, <3>1 DEF TypeOK
    <3>2. CASE g # h
      <4>1. hold'[g] = hold[g] /\ hold[g].ticket \in Request \cup {NoRequest}
        BY <1>1, <1>4, <3>2 DEF TypeOK, HoldRow
      <4> QED BY <1>1, <1>6, <1>7, <4>1 DEF Shape
    <3> QED BY <3>1, <3>2
  <2>unused. \A g \in HoldId : hold'[g].state = "unused" => hold'[g].ticket = NoRequest
    BY <1>1, <1>3, <1>4, <1>5, <1>9 DEF Shape, TypeOK
  <2>3. \A q \in Request : requestPc'[q] \in {"idle", "read"} => requestPc[q] \in {"idle", "read"}
    BY <1>6
  <2>4. \A q \in Request : requestPc'[q] # "idle" => requestPc[q] # "idle"
    BY <1>6 DEF RequestRelease
  <2> QED BY <1>1, <1>7, <1>9, <2>1, <2>unused, <2>2, <2>3, <2>4 DEF Shape, clickVars
<1> QED BY <1>8, <1>10, <1>11 DEF HoldInvariant

\* A step that only moves clicks along.
LEMMA ClickOnly ==
  ASSUME HoldInvariant, UNCHANGED <<holdVars, teamVars, requestVars, workVars>>,
         clickPc' \in [Click -> ClickPc], click' \in [Click -> Seen],
         \A c \in Click : clickPc'[c] # "idle" =>
           click'[c].hold \in HoldId /\ click'[c].ticket \in Request /\ click'[c].member \in Member
  PROVE  HoldInvariant'
<1>1. TypeOK'
  BY DEF HoldInvariant, TypeOK, holdVars, teamVars, requestVars, workVars
<1>2. Shape'
  BY DEF HoldInvariant, Shape, holdVars, requestVars
<1> QED BY <1>1, <1>2, QuietHistory DEF HoldInvariant

\* The steps of a click that write neither a ticket nor a hold.
LEMMA ClickMoveStep ==
  ASSUME HoldInvariant, NEW c \in Click,
         \/ \E m \in Member, h \in HoldId : ReadHoldToRelease(c, m, h)
         \/ ReadTicket(c) \/ CheckApprover(c) \/ DecideFails(c) \/ ReleaseFails(c)
         \/ RereadHold(c) \/ RevertFails(c) \/ CrashClick(c)
  PROVE  HoldInvariant'
<1>1. TypeOK /\ Shape
  BY DEF HoldInvariant
<1>2. UNCHANGED <<holdVars, teamVars, requestVars, workVars>>
  BY DEF ReadHoldToRelease, ReadTicket, CheckApprover, DecideFails, ReleaseFails, RereadHold,
         RevertFails, CrashClick
<1>3. click[c] \in Seen
  BY <1>1 DEF TypeOK
<1>4. CASE \E m \in Member, h \in HoldId : ReadHoldToRelease(c, m, h)
  <2>1. PICK m \in Member, h \in HoldId : ReadHoldToRelease(c, m, h)
    BY <1>4
  <2>2. hold[h].ticket \in Request /\ h \in 0..HoldLimit
    <3>1. hold[h] \in HoldRow /\ hold[h].ticket # NoRequest
      BY <1>1, <2>1 DEF ReadHoldToRelease, TypeOK
    <3>2. h \in 0..HoldLimit
      BY HoldConstants DEF HoldConstants, HoldId
    <3> QED BY <3>1, <3>2 DEF HoldRow
  <2>3. PICK seen : seen = [NothingSeen EXCEPT !.member = m, !.hold = h, !.ticket = hold[h].ticket]
    OBVIOUS
  <2>4. seen \in Seen /\ seen.hold = h /\ seen.ticket = hold[h].ticket /\ seen.member = m
    BY <2>2, <2>3 DEF NothingSeen, Seen, TicketStatus
  <2>5. click' = [click EXCEPT ![c] = seen] /\ clickPc' = [clickPc EXCEPT ![c] = "holdRead"]
    BY <2>1, <2>3 DEF ReadHoldToRelease
  <2>6. click' \in [Click -> Seen] /\ clickPc' \in [Click -> ClickPc]
    BY <1>1, <2>4, <2>5 DEF TypeOK, ClickPc
  <2>7. \A d \in Click : clickPc'[d] # "idle" =>
          click'[d].hold \in HoldId /\ click'[d].ticket \in Request /\ click'[d].member \in Member
    BY <1>1, <2>2, <2>4, <2>5 DEF TypeOK, Shape
  <2> QED BY <1>2, <2>6, <2>7, ClickOnly
<1>5. CASE ReadTicket(c)
  <2>1. PICK q \in Request : q = click[c].ticket
    BY <1>1, <1>5 DEF ReadTicket, Shape
  <2>2. ticket[q] \in ReleaseTicket
    BY <1>1 DEF TypeOK
  <2>3. PICK seen : seen = [click[c] EXCEPT !.status = ticket[q].status, !.resolvedBy = ticket[q].resolvedBy]
    OBVIOUS
  <2>4. seen \in Seen /\ seen.hold = click[c].hold /\ seen.ticket = click[c].ticket /\ seen.member = click[c].member
    BY <1>3, <2>2, <2>3 DEF Seen, ReleaseTicket
  <2>5. click' = [click EXCEPT ![c] = seen] /\ clickPc' = [clickPc EXCEPT ![c] = "ticketRead"]
    BY <1>1, <1>5, <2>1, <2>3 DEF ReadTicket, TypeOK
  <2>6. clickPc[c] = "holdRead"
    BY <1>5 DEF ReadTicket
  <2>7. click' \in [Click -> Seen] /\ clickPc' \in [Click -> ClickPc]
    BY <1>1, <2>4, <2>5 DEF TypeOK, ClickPc
  <2>8. \A d \in Click : clickPc'[d] # "idle" =>
          click'[d].hold \in HoldId /\ click'[d].ticket \in Request /\ click'[d].member \in Member
    BY <1>1, <2>4, <2>5, <2>6 DEF TypeOK, Shape
  <2> QED BY <1>2, <2>7, <2>8, ClickOnly
<1>6. CASE CheckApprover(c) \/ DecideFails(c) \/ ReleaseFails(c) \/ RereadHold(c) \/ RevertFails(c)
           \/ CrashClick(c)
  <2>1. UNCHANGED click /\ clickPc[c] # "idle"
    BY <1>6 DEF CheckApprover, DecideFails, ReleaseFails, RereadHold, RevertFails, CrashClick
  <2>2. \E p \in ClickPc : clickPc' = [clickPc EXCEPT ![c] = p]
    BY <1>6 DEF CheckApprover, DecideFails, ReleaseFails, RereadHold, RevertFails, CrashClick, ClickPc
  <2>3. click' \in [Click -> Seen] /\ clickPc' \in [Click -> ClickPc]
    BY <1>1, <2>1, <2>2 DEF TypeOK
  <2>4. \A d \in Click : clickPc'[d] # "idle" => clickPc[d] # "idle"
    BY <1>1, <2>1, <2>2 DEF TypeOK
  <2> QED BY <1>1, <1>2, <2>1, <2>3, <2>4, ClickOnly DEF Shape
<1> QED BY <1>4, <1>5, <1>6

\* The decision of the ticket and its undoing.
LEMMA ClickTicketStep ==
  ASSUME HoldInvariant, NEW c \in Click, DecideTicket(c) \/ RevertTicket(c)
  PROVE  HoldInvariant'
<1>1. TypeOK /\ Shape
  BY DEF HoldInvariant
<1>2. clickPc[c] # "idle" /\ UNCHANGED <<holdVars, teamVars, workVars, click, requestPc>>
  BY DEF DecideTicket, RevertTicket
<1>3. \E p \in ClickPc : clickPc' = [clickPc EXCEPT ![c] = p]
  BY DEF DecideTicket, RevertTicket, ClickPc
<1>4. clickPc' \in [Click -> ClickPc] /\ \A d \in Click : clickPc'[d] # "idle" => clickPc[d] # "idle"
  BY <1>1, <1>2, <1>3 DEF TypeOK
<1>5. PICK r \in Request : r = click[c].ticket
  BY <1>1, <1>2 DEF Shape
<1>6. PICK old \in ReleaseTicket : old = ticket[r]
  BY <1>1 DEF TypeOK
<1>7. requestPc[r] \in RequestPc /\ ticket = [ticket EXCEPT ![r] = old]
      /\ requestPc = [requestPc EXCEPT ![r] = requestPc[r]]
  BY <1>1, <1>6 DEF TypeOK
<1>8. /\ requestPc[r] # "idle" => old.hold \in HoldId /\ old.requestedBy \in Member
      /\ requestPc[r] \in {"idle", "read"} => old.status = "absent"
  BY <1>1, <1>6 DEF Shape
<1>9. click[c].member \in Member
  BY <1>1, <1>2 DEF Shape
<1>10. CASE UNCHANGED ticket
  BY <1>2, <1>4, <1>6, <1>7, <1>8, <1>10, TicketWrite
<1>11. ASSUME old.status # "absent", NEW s \in TicketStatus, NEW m \in Member \cup {NoMember},
              ticket' = [ticket EXCEPT ![r].status = s, ![r].resolvedBy = m]
       PROVE  HoldInvariant'
  <2>1. PICK t : t = [old EXCEPT !.status = s, !.resolvedBy = m]
    OBVIOUS
  <2>2. t \in ReleaseTicket /\ t.hold = old.hold /\ t.requestedBy = old.requestedBy
    BY <1>11, <2>1 DEF ReleaseTicket
  <2>3. ticket' = [ticket EXCEPT ![r] = t]
    BY <1>1, <1>6, <1>11, <2>1 DEF TypeOK
  <2>4. requestPc[r] \notin {"idle", "read"}
        /\ t.hold \in HoldId /\ t.requestedBy \in Member /\ t.requestedBy = ticket[r].requestedBy
    BY <1>6, <1>8, <1>11, <2>2
  <2>5. requestPc' = [requestPc EXCEPT ![r] = requestPc[r]] /\ requestPc[r] \in RequestPc
        /\ UNCHANGED <<holdVars, teamVars, workVars, click>>
    BY <1>2, <1>7
  <2> QED BY <1>4, <2>2, <2>3, <2>4, <2>5, TicketWrite
<1>12. CASE DecideTicket(c)
  <2>1. old.status = "pending" /\ ticket' = [ticket EXCEPT ![r].status = "approved", ![r].resolvedBy = click[c].member]
    BY <1>5, <1>6, <1>12 DEF DecideTicket, StillPending
  <2> QED BY <1>9, <1>11, <2>1 DEF TicketStatus
<1>13. CASE RevertTicket(c)
  <2>1. UNCHANGED ticket \/ (old.status = "approved" /\
          ticket' = [ticket EXCEPT ![r].status = "pending", ![r].resolvedBy = NoMember])
    BY <1>5, <1>6, <1>13 DEF RevertTicket
  <2>2. "pending" \in TicketStatus /\ NoMember \in Member \cup {NoMember} /\ "approved" # "absent"
    BY DEF TicketStatus
  <2> QED BY <1>10, <1>11, <2>1, <2>2
<1> QED BY <1>12, <1>13

\* The release: the row closes, its pointer is cleared and its tickets are closed with it.
LEMMA ReleaseStep ==
  ASSUME HoldInvariant, NEW c \in Click, ReleaseHold(c)
  PROVE  HoldInvariant'
<1>1. TypeOK /\ Shape /\ PointerIsOpenHold /\ OpenTagNamesOpenHold
  BY DEF HoldInvariant
<1>2. PICK h \in HoldId : h = click[c].hold
  BY <1>1 DEF ReleaseHold, Shape
<1>3. MayRelease(h) /\ hold[h].state = "open" /\ hold[h].ticket # NoRequest
  BY <1>2 DEF ReleaseHold, MayRelease
<1>4. PICK s \in Scope : current[s] = h /\ hold[h].scope = s
  BY <1>1, <1>3 DEF PointerIsOpenHold
<1>5. hold[h] \in HoldRow
  BY <1>1 DEF TypeOK
<1>6. PICK q \in Request : q = hold[h].ticket
  BY <1>3, <1>5 DEF HoldRow
<1>7. ticket[q].resolvedBy \in Member /\ hold[h].requestedBy \in Member
  <2>1. ticket[q].resolvedBy \in Eligible /\ ticket[q].requestedBy \in active
    BY <1>3, <1>6 DEF MayRelease
  <2>2. hold[h].requestedBy = ticket[q].requestedBy
    BY <1>1, <1>3, <1>6 DEF Shape
  <2> QED BY <1>1, <2>1, <2>2 DEF TypeOK, Eligible
<1>8. PICK row : row = ReleasedRow(h)
  OBVIOUS
<1>9. row \in HoldRow /\ row.state = "released" /\ row.scope = s /\ row.ticket = hold[h].ticket
      /\ row.requestedBy = hold[h].requestedBy /\ row.releasedBy = ticket[q].resolvedBy
  <2>1. row = [hold[h] EXCEPT !.state = "released", !.releasedBy = ticket[q].resolvedBy]
    BY <1>6, <1>8 DEF ReleasedRow
  <2> QED BY <1>4, <1>5, <1>7, <2>1 DEF HoldRow, HoldState
<1>10. hold' = [hold EXCEPT ![h] = row] /\ current' = [current EXCEPT ![s] = 0]
  BY <1>2, <1>4, <1>8 DEF ReleaseHold
<1>11. \A g \in HoldId : hold'[g] = IF g = h THEN row ELSE hold[g]
  BY <1>1, <1>10 DEF TypeOK
<1>12. \A u \in Scope : current'[u] = IF u = s THEN 0 ELSE current[u]
  BY <1>1, <1>10 DEF TypeOK
<1>13. UNCHANGED <<issued, role, active, changes, ticket, requestPc, click, work, tag>>
  BY DEF ReleaseHold, teamVars, requestVars
<1>14. clickPc' \in [Click -> ClickPc] /\ \A d \in Click : clickPc'[d] # "idle" => clickPc[d] # "idle"
  BY <1>1 DEF ReleaseHold, TypeOK, ClickPc
<1>15. TypeOK'
  <2>1. hold' \in [HoldId -> HoldRow] /\ current' \in [Scope -> 0..HoldLimit]
    BY <1>1, <1>9, <1>10, HoldConstants DEF TypeOK, HoldConstants
  <2>2. \A g \in HoldId : hold'[g].state = "released" =>
          hold'[g].releasedBy # NoMember /\ hold'[g].requestedBy # NoMember /\ hold'[g].ticket # NoRequest
    BY <1>1, <1>3, <1>7, <1>9, <1>11, HoldConstants DEF TypeOK, HoldConstants
  <2>3. closedTag' \in [Work -> BOOLEAN]
    <3>1. closedTag' = [w \in Work |-> closedTag[w] \/ tag[w] = h] /\ closedTag \in [Work -> BOOLEAN]
      BY <1>1, <1>2 DEF ReleaseHold, TypeOK
    <3> QED BY <3>1
  <2> QED BY <1>1, <1>13, <1>14, <2>1, <2>2, <2>3 DEF TypeOK
<1>16. Shape'
  <2>1. \A g \in HoldId : /\ hold'[g].ticket = hold[g].ticket
                          /\ hold'[g].requestedBy = hold[g].requestedBy
                          /\ hold'[g].scope = hold[g].scope
                          /\ hold'[g].state = "unused" <=> hold[g].state = "unused"
    BY <1>3, <1>4, <1>9, <1>11
  <2>2. \A u \in Scope : current'[u] # 0 => hold'[current'[u]].scope = u
    <3> SUFFICES ASSUME NEW u \in Scope, current'[u] # 0 PROVE hold'[current'[u]].scope = u
      OBVIOUS
    <3>1. current'[u] = current[u] /\ current[u] \in 0..HoldLimit
      BY <1>1, <1>12 DEF TypeOK
    <3>2. current[u] \in HoldId
      BY <3>1, HoldConstants DEF HoldConstants, HoldId
    <3> QED BY <1>1, <2>1, <3>1, <3>2 DEF Shape
  <2> QED BY <1>1, <1>13, <1>14, <2>1, <2>2 DEF Shape
<1>17. PointerIsOpenHold'
  <2> SUFFICES ASSUME NEW g \in HoldId
               PROVE  hold'[g].state = "open" <=> \E u \in Scope : current'[u] = g /\ hold'[g].scope = u
    BY DEF PointerIsOpenHold
  <2>1. hold[g].state = "open" <=> \E u \in Scope : current[u] = g /\ hold[g].scope = u
    BY <1>1 DEF PointerIsOpenHold
  <2>2. g # 0
    BY HoldConstants DEF HoldConstants, HoldId
  <2>3. CASE g = h
    <3>1. hold'[g].state = "released" /\ hold'[g].scope = s
      BY <1>9, <1>11, <2>3
    <3> QED BY <1>12, <2>2, <3>1
  <2>4. CASE g # h
    <3>1. hold'[g] = hold[g]
      BY <1>11, <2>4
    <3> QED BY <1>4, <1>12, <2>1, <2>2, <2>4, <3>1
  <2> QED BY <2>3, <2>4
<1>18. OpenTagNamesOpenHold'
  <2> SUFFICES ASSUME NEW w \in Work, tag'[w] # 0, ~closedTag'[w]
               PROVE  hold'[tag'[w]].state = "open"
    BY DEF OpenTagNamesOpenHold
  <2>1. tag'[w] = tag[w] /\ tag[w] \in 0..HoldLimit /\ ~closedTag[w] /\ tag[w] # h
    BY <1>1, <1>2, <1>13 DEF ReleaseHold, TypeOK
  <2>2. tag[w] \in HoldId
    BY <2>1, HoldConstants DEF HoldConstants, HoldId
  <2>3. hold[tag[w]].state = "open"
    BY <1>1, <2>1 DEF OpenTagNamesOpenHold
  <2> QED BY <1>11, <2>1, <2>2, <2>3
<1> QED BY <1>15, <1>16, <1>17, <1>18 DEF HoldInvariant

\* Every step keeps the invariant.
LEMMA NextInvariant == HoldInvariant /\ [Next]_vars => HoldInvariant'
<1> SUFFICES ASSUME HoldInvariant, [Next]_vars PROVE HoldInvariant'
  OBVIOUS
<1>1. CASE UNCHANGED vars
  BY <1>1 DEF vars, holdVars, teamVars, requestVars, clickVars, workVars, HoldInvariant, TypeOK, Shape,
              Eligible, PointerIsOpenHold, OpenTagNamesOpenHold
<1>2. CASE (\E w \in Work : WorkStep(w)) \/ (\E m \in Member : TeamStep(m))
  BY <1>2, WorkAndTeamStep
<1>3. ASSUME NEW s \in Scope, NEW k \in Class, StartHold(s, k) PROVE HoldInvariant'
  BY <1>3, StartStep
<1>4. ASSUME NEW r \in Request,
             (\E m \in Member, h \in HoldId : ReadHold(r, m, h)) \/ RequestStep(r) \/ RejectTicket(r)
      PROVE  HoldInvariant'
  BY <1>4, RequestTicketStep, RequestReleaseStep DEF RequestStep
<1>5. ASSUME NEW c \in Click,
             (\E m \in Member, h \in HoldId : ReadHoldToRelease(c, m, h)) \/ ClickStep(c) \/ CrashClick(c)
      PROVE  HoldInvariant'
  BY <1>5, ClickMoveStep, ClickTicketStep, ReleaseStep DEF ClickStep
<1> QED BY <1>1, <1>2, <1>3, <1>4, <1>5 DEF Next

\* The inductive invariant holds in every reachable state.
THEOREM HoldInvariantHolds == Spec => []HoldInvariant
<1> QED BY InitHold, NextInvariant, PTL DEF Spec

\* Rows, pointers, tickets and calls keep their shape, a released row its three names
\* (employee_holds_release_shape).
THEOREM TypeCorrect == Spec => []TypeOK
<1>1. HoldInvariant => TypeOK
  BY DEF HoldInvariant
<1> QED BY <1>1, HoldInvariantHolds, PTL

\* start_employee_hold and release_employee_hold keep the history and the pointers of
\* employees and orgs in agreement.
THEOREM PointersAreOpenHolds == Spec => []PointerIsOpenHold
<1>1. HoldInvariant => PointerIsOpenHold
  BY DEF HoldInvariant
<1> QED BY <1>1, HoldInvariantHolds, PTL

\* No ticket stays held by a hold that is no longer in force.
THEOREM OpenTagsNameOpenHolds == Spec => []OpenTagNamesOpenHold
<1>1. HoldInvariant => OpenTagNamesOpenHold
  BY DEF HoldInvariant
<1> QED BY <1>1, HoldInvariantHolds, PTL

(***************************************************************************)
(* What a step may do                                                      *)
(***************************************************************************)
\* Only a new stop, a request and a release write the rows and the pointers.
LEMMA HoldWriters ==
  ASSUME [Next]_vars
  PROVE  \/ UNCHANGED holdVars
         \/ \E s \in Scope, k \in Class : StartHold(s, k)
         \/ \E r \in Request : RequestRelease(r)
         \/ \E c \in Click : ReleaseHold(c)
<1>1. CASE UNCHANGED vars
  BY <1>1 DEF vars
<1>2. CASE (\E w \in Work : WorkStep(w)) \/ (\E m \in Member : TeamStep(m))
  BY <1>2 DEF WorkStep, TeamStep, FileWork, FinishWork, ChangeRole, Deactivate
<1>3. ASSUME NEW r \in Request,
             (\E m \in Member, h \in HoldId : ReadHold(r, m, h)) \/ RequestStep(r) \/ RejectTicket(r)
      PROVE  UNCHANGED holdVars \/ RequestRelease(r)
  BY <1>3 DEF RequestStep, ReadHold, FileTicket, RequestFails, ExpireTicket, RejectTicket
<1>4. ASSUME NEW c \in Click,
             (\E m \in Member, h \in HoldId : ReadHoldToRelease(c, m, h)) \/ ClickStep(c) \/ CrashClick(c)
      PROVE  UNCHANGED holdVars \/ ReleaseHold(c)
  BY <1>4 DEF ClickStep, ReadHoldToRelease, ReadTicket, CheckApprover, DecideTicket, DecideFails,
              ReleaseFails, RereadHold, RevertTicket, RevertFails, CrashClick
<1> QED BY <1>1, <1>2, <1>3, <1>4 DEF Next

\* What a new stop does to the rows: the new one is unused before, the one it replaces
\* closes as superseded.
LEMMA StartRows ==
  ASSUME HoldInvariant, NEW s \in Scope, NEW k \in Class, StartHold(s, k)
  PROVE  /\ issued + 1 \in HoldId
         /\ hold[issued + 1].state = "unused" /\ hold[issued + 1].ticket = NoRequest
         /\ hold'[issued + 1] = OpenRow(s, k) /\ hold'[issued + 1].class = k
         /\ \A h \in HoldId : hold'[h].state = "released" => hold[h].state = "released"
         /\ \A h \in HoldId : h # issued + 1 =>
              /\ hold'[h].ticket = hold[h].ticket /\ hold'[h].class = hold[h].class
              /\ hold'[h].requestedBy = hold[h].requestedBy
              /\ hold'[h].releasedBy = hold[h].releasedBy
              /\ hold'[h].state # hold[h].state =>
                   hold[h].state = "open" /\ hold'[h].state = "superseded"
<1>1. TypeOK /\ Shape
  BY DEF HoldInvariant
<1>2. PICK new \in HoldId : new = issued + 1
  BY <1>1, HoldConstants DEF StartHold, TypeOK, HoldId, HoldConstants
<1>3. hold[new].state = "unused" /\ hold[new].ticket = NoRequest
  BY <1>1, <1>2 DEF Shape, TypeOK
<1>4. \A h \in HoldId : hold'[h] = IF h = new THEN OpenRow(s, k)
                                   ELSE IF h = current[s] THEN [hold[h] EXCEPT !.state = "superseded"]
                                   ELSE hold[h]
  BY <1>2 DEF StartHold, HistoryAfterStart
<1>5. hold'[new] = OpenRow(s, k)
  BY <1>4
<1>6. \A h \in HoldId : h # new =>
        /\ hold'[h].ticket = hold[h].ticket /\ hold'[h].class = hold[h].class
        /\ hold'[h].requestedBy = hold[h].requestedBy /\ hold'[h].releasedBy = hold[h].releasedBy
        /\ hold'[h].state = hold[h].state \/ (hold'[h].state = "superseded" /\ h = current[s])
  <2> SUFFICES ASSUME NEW h \in HoldId, h # new
               PROVE  /\ hold'[h].ticket = hold[h].ticket /\ hold'[h].class = hold[h].class
                      /\ hold'[h].requestedBy = hold[h].requestedBy
                      /\ hold'[h].releasedBy = hold[h].releasedBy
                      /\ \/ hold'[h].state = hold[h].state
                         \/ hold'[h].state = "superseded" /\ h = current[s]
    OBVIOUS
  <2>1. hold[h] \in HoldRow
    BY <1>1 DEF TypeOK
  <2>2. \/ hold'[h] = [hold[h] EXCEPT !.state = "superseded"] /\ h = current[s]
        \/ hold'[h] = hold[h]
    BY <1>4
  <2> QED BY <2>1, <2>2 DEF HoldRow
<1>7. \A h \in HoldId : h = current[s] => hold[h].state = "open"
  BY <1>1 DEF HoldInvariant, PointerIsOpenHold, Shape, HoldId
<1>8. hold'[new].state = "open" /\ hold'[new].class = k
  BY <1>5 DEF OpenRow
<1> QED BY <1>2, <1>3, <1>5, <1>6, <1>7, <1>8

\* What a release request does to the rows.
LEMMA RequestRows ==
  ASSUME HoldInvariant, NEW r \in Request, RequestRelease(r)
  PROVE  /\ \A h \in HoldId : hold'[h].state = hold[h].state
         /\ \A h \in HoldId : h # ticket[r].hold => hold'[h] = hold[h]
         /\ \A h \in HoldId : hold'[h].class = hold[h].class /\ hold'[h].releasedBy = hold[h].releasedBy
         /\ \A h \in HoldId : h = ticket[r].hold => hold'[h].requestedBy = ticket[r].requestedBy
         /\ UNCHANGED <<current, ticket>> /\ MayRequest(r)
<1>1. TypeOK
  BY DEF HoldInvariant
<1>2. \A h \in HoldId : /\ hold'[h].state = hold[h].state /\ hold'[h].class = hold[h].class
                        /\ hold'[h].releasedBy = hold[h].releasedBy
                        /\ h # ticket[r].hold => hold'[h] = hold[h]
                        /\ h = ticket[r].hold => hold'[h].requestedBy = ticket[r].requestedBy
  <2> TAKE h \in HoldId
  <2>1. hold[h] \in HoldRow
    BY <1>1 DEF TypeOK
  <2>2. CASE h # ticket[r].hold
    BY <1>1, <2>2 DEF RequestRelease, TypeOK
  <2>3. CASE h = ticket[r].hold
    <3>1. hold'[h] = [hold[h] EXCEPT !.requestedBy = ticket[r].requestedBy, !.ticket = r]
      BY <1>1, <2>3 DEF RequestRelease, TypeOK
    <3> QED BY <2>1, <2>3, <3>1 DEF HoldRow
  <2> QED BY <2>2, <2>3
<1> QED BY <1>2 DEF RequestRelease

\* What a release does: one open row closes, decided by an approver who is not the
\* requester or has nobody else to ask.
LEMMA ReleaseRows ==
  ASSUME HoldInvariant, NEW c \in Click, ReleaseHold(c)
  PROVE  \E h \in HoldId :
           LET by == hold'[h].releasedBy IN
           /\ hold[h].state = "open" /\ hold[h].class # "ops" /\ hold'[h].state = "released"
           /\ hold'[h].ticket = hold[h].ticket
           /\ \A g \in HoldId : g # h => hold'[g] = hold[g]
           /\ \A s \in Scope : current'[s] = IF current[s] = h THEN 0 ELSE current[s]
           /\ by \in Eligible /\ hold[h].requestedBy \in active
           /\ by # hold[h].requestedBy \/ (Eligible = {by} /\ hold[h].class # "detector")
<1>1. TypeOK /\ Shape /\ PointerIsOpenHold
  BY DEF HoldInvariant
<1>2. PICK h \in HoldId : h = click[c].hold
  BY <1>1 DEF ReleaseHold, Shape
<1>3. MayRelease(h) /\ hold[h].state = "open" /\ hold[h].ticket # NoRequest /\ hold[h].class # "ops"
  BY <1>2 DEF ReleaseHold, MayRelease
<1>4. PICK s \in Scope : current[s] = h /\ hold[h].scope = s
  BY <1>1, <1>3 DEF PointerIsOpenHold
<1>5. hold[h] \in HoldRow
  BY <1>1 DEF TypeOK
<1>6. PICK q \in Request : q = hold[h].ticket
  BY <1>3, <1>5 DEF HoldRow
<1>7. PICK by : by = ticket[q].resolvedBy
  OBVIOUS
<1>8. /\ by \in Eligible /\ ticket[q].requestedBy \in active
      /\ by = ticket[q].requestedBy => Cardinality(Eligible) = 1 /\ hold[h].class # "detector"
  BY <1>3, <1>6, <1>7 DEF MayRelease
<1>9. hold[h].requestedBy = ticket[q].requestedBy
  BY <1>1, <1>3, <1>6 DEF Shape
<1>10. hold'[h] = [hold[h] EXCEPT !.state = "released", !.releasedBy = by]
  BY <1>1, <1>2, <1>6, <1>7 DEF ReleaseHold, ReleasedRow, TypeOK
<1>11. hold'[h].state = "released" /\ hold'[h].releasedBy = by /\ hold'[h].ticket = hold[h].ticket
  BY <1>5, <1>10 DEF HoldRow
<1>12. Cardinality(Eligible) = 1 => Eligible = {by}
  <2>1. Eligible \subseteq Member /\ IsFiniteSet(Member)
    BY <1>1, HoldConstants DEF Eligible, TypeOK, HoldConstants
  <2>2. IsFiniteSet(Eligible)
    BY <2>1, FS_Subset
  <2>3. Cardinality(Eligible) = 1 => \E x : Eligible = {x}
    BY <2>2, FS_Singleton
  <2> QED BY <1>8, <2>3
<1>13. \A g \in HoldId : g # h => hold'[g] = hold[g]
  BY <1>1, <1>2 DEF ReleaseHold, TypeOK
<1>14. \A u \in Scope : current'[u] = IF current[u] = h THEN 0 ELSE current[u]
  <2>1. current' = [current EXCEPT ![s] = 0]
    BY <1>2, <1>4 DEF ReleaseHold
  <2>2. \A u \in Scope : current[u] = h => u = s
    <3> SUFFICES ASSUME NEW u \in Scope, current[u] = h PROVE u = s
      OBVIOUS
    <3>1. h # 0
      BY HoldConstants DEF HoldConstants, HoldId
    <3> QED BY <1>1, <1>4, <3>1 DEF Shape
  <2> QED BY <1>1, <1>4, <2>1, <2>2 DEF TypeOK
<1>15. hold'[h].releasedBy = by
  BY <1>11
<1> QED BY <1>3, <1>8, <1>9, <1>11, <1>12, <1>13, <1>14

\* Two people release a stop, whatever races: the approver is eligible at that moment and
\* is not the requester, unless alone and no detector made the stop.
THEOREM TwoPeopleAlwaysRelease == Spec => TwoPeopleRelease
<1>1. HoldInvariant /\ [Next]_vars =>
        [\A h \in HoldId :
           hold[h].state # "released" /\ hold'[h].state = "released" =>
             LET by == hold'[h].releasedBy IN
             /\ by \in Eligible
             /\ by # hold[h].requestedBy \/ (Eligible = {by} /\ hold[h].class # "detector")]_vars
  <2> SUFFICES ASSUME HoldInvariant, [Next]_vars, NEW h \in HoldId,
                      hold[h].state # "released", hold'[h].state = "released"
               PROVE  LET by == hold'[h].releasedBy IN
                      /\ by \in Eligible
                      /\ by # hold[h].requestedBy \/ (Eligible = {by} /\ hold[h].class # "detector")
    OBVIOUS
  <2>1. ~ UNCHANGED holdVars
    BY DEF holdVars
  <2>2. ~ \E s \in Scope, k \in Class : StartHold(s, k)
    BY StartRows
  <2>3. ~ \E r \in Request : RequestRelease(r)
    BY RequestRows
  <2>4. PICK c \in Click : ReleaseHold(c)
    BY <2>1, <2>2, <2>3, HoldWriters
  <2> QED BY <2>4, ReleaseRows
<1> QED BY <1>1, HoldInvariantHolds, PTL DEF Spec, TwoPeopleRelease

\* A stop in force only gets stronger until it is released; an ops stop is never released
\* by the organisation.
THEOREM StopsNeverWeaken == Spec => StopNeverWeakens
<1>1. HoldInvariant /\ [Next]_vars =>
        [\A s \in Scope : current[s] # 0 =>
           \/ current'[s] = current[s]
           \/ current'[s] = 0 /\ hold[current[s]].class # "ops" /\ hold'[current[s]].state = "released"
           \/ current'[s] # 0 /\ Rank(hold'[current'[s]].class) > Rank(hold[current[s]].class)]_vars
  <2> SUFFICES ASSUME HoldInvariant, [Next]_vars, NEW s \in Scope, current[s] # 0
               PROVE  \/ current'[s] = current[s]
                      \/ current'[s] = 0 /\ hold[current[s]].class # "ops" /\ hold'[current[s]].state = "released"
                      \/ current'[s] # 0 /\ Rank(hold'[current'[s]].class) > Rank(hold[current[s]].class)
    OBVIOUS
  <2>0. current \in [Scope -> 0..HoldLimit]
    BY DEF HoldInvariant, TypeOK
  <2>1. CASE UNCHANGED holdVars
    BY <2>1 DEF holdVars
  <2>2. CASE \E u \in Scope, k \in Class : StartHold(u, k)
    <3>1. PICK u \in Scope, k \in Class : StartHold(u, k)
      BY <2>2
    <3>2. current' = [current EXCEPT ![u] = issued + 1] /\ Outranks(u, k)
      BY <3>1 DEF StartHold
    <3>3. hold'[issued + 1].class = k /\ issued + 1 # 0
      BY <3>1, StartRows, HoldConstants DEF HoldConstants, HoldId
    <3>4. CASE s = u
      BY <2>0, <3>2, <3>3, <3>4 DEF Outranks
    <3>5. CASE s # u
      BY <2>0, <3>2, <3>5
    <3> QED BY <3>4, <3>5
  <2>3. CASE \E r \in Request : RequestRelease(r)
    BY <2>3, RequestRows
  <2>4. CASE \E c \in Click : ReleaseHold(c)
    BY <2>4, ReleaseRows
  <2> QED BY <2>1, <2>2, <2>3, <2>4, HoldWriters
<1> QED BY <1>1, HoldInvariantHolds, PTL DEF Spec, StopNeverWeakens

\* A request that is pending or approved keeps its place in the hold row
\* (release_already_requested).
THEOREM RequestsAreNotReplaced == Spec => RequestNotReplaced
<1>1. HoldInvariant /\ [Next]_vars =>
        [\A h \in HoldId :
           hold[h].ticket # NoRequest /\ ticket[hold[h].ticket].status \in {"pending", "approved"}
           => hold'[h].ticket = hold[h].ticket]_vars
  <2> SUFFICES ASSUME HoldInvariant, [Next]_vars, NEW h \in HoldId, hold[h].ticket # NoRequest,
                      ticket[hold[h].ticket].status \in {"pending", "approved"}
               PROVE  hold'[h].ticket = hold[h].ticket
    OBVIOUS
  <2>1. CASE UNCHANGED holdVars
    BY <2>1 DEF holdVars
  <2>2. CASE \E u \in Scope, k \in Class : StartHold(u, k)
    BY <2>2, StartRows
  <2>3. CASE \E r \in Request : RequestRelease(r)
    BY <2>3, RequestRows DEF MayRequest
  <2>4. CASE \E c \in Click : ReleaseHold(c)
    BY <2>4, ReleaseRows
  <2> QED BY <2>1, <2>2, <2>3, <2>4, HoldWriters
<1> QED BY <1>1, HoldInvariantHolds, PTL DEF Spec, RequestNotReplaced

\* A rejected or expired request stays so: a click that read it as pending does not
\* revive it.
THEOREM RefusalsStand == Spec => RefusalStands
<1>1. HoldInvariant /\ [Next]_vars =>
        [\A r \in Request :
           ticket[r].status \in {"rejected", "expired"} => ticket'[r].status = ticket[r].status]_vars
  <2> SUFFICES ASSUME HoldInvariant, [Next]_vars, NEW q \in Request,
                      ticket[q].status \in {"rejected", "expired"}
               PROVE  ticket'[q].status = ticket[q].status
    OBVIOUS
  <2>1. TypeOK /\ Shape
    BY DEF HoldInvariant
  <2>2. requestPc[q] \notin {"idle", "read"}
    BY <2>1 DEF Shape
  <2>3. CASE UNCHANGED vars
    BY <2>3 DEF vars, requestVars
  <2>4. CASE (\E w \in Work : WorkStep(w)) \/ (\E m \in Member : TeamStep(m))
             \/ \E s \in Scope, k \in Class : StartHold(s, k)
    BY <2>4 DEF WorkStep, TeamStep, FileWork, FinishWork, ChangeRole, Deactivate, StartHold, requestVars
  <2>5. ASSUME NEW r \in Request,
               (\E m \in Member, h \in HoldId : ReadHold(r, m, h)) \/ RequestStep(r) \/ RejectTicket(r)
        PROVE  ticket'[q].status = ticket[q].status
    <3>1. CASE \E m \in Member, h \in HoldId : ReadHold(r, m, h)
      BY <2>1, <2>2, <3>1 DEF ReadHold, TypeOK
    <3>2. CASE FileTicket(r)
      BY <2>1, <2>2, <3>2 DEF FileTicket, TypeOK
    <3>3. CASE RequestRelease(r) \/ RequestFails(r)
      BY <3>3 DEF RequestRelease, RequestFails
    <3>4. CASE ExpireTicket(r)
      BY <2>1, <3>4 DEF ExpireTicket, TypeOK
    <3>5. CASE RejectTicket(r)
      BY <2>1, <3>5 DEF RejectTicket, TypeOK
    <3> QED BY <2>5, <3>1, <3>2, <3>3, <3>4, <3>5 DEF RequestStep
  <2>6. ASSUME NEW c \in Click,
               (\E m \in Member, h \in HoldId : ReadHoldToRelease(c, m, h)) \/ ClickStep(c) \/ CrashClick(c)
        PROVE  ticket'[q].status = ticket[q].status
    <3>1. CASE DecideTicket(c)
      BY <2>1, <3>1 DEF DecideTicket, StillPending, TypeOK
    <3>2. CASE RevertTicket(c)
      BY <2>1, <3>2 DEF RevertTicket, TypeOK
    <3>3. CASE UNCHANGED ticket
      BY <3>3
    <3> QED BY <2>6, <3>1, <3>2, <3>3
        DEF ClickStep, ReadHoldToRelease, ReadTicket, CheckApprover, DecideFails, ReleaseHold, ReleaseFails,
            RereadHold, RevertFails, CrashClick, requestVars
  <2> QED BY <2>3, <2>4, <2>5, <2>6 DEF Next
<1> QED BY <1>1, HoldInvariantHolds, PTL DEF Spec, RefusalStands

(***************************************************************************)
(* The stop of two people                                                  *)
(***************************************************************************)
\* What the refinement needs beside HoldInvariant: nobody has signed for a row that is not
\* released, and an active owner remains.
Unsigned == \A h \in HoldId : hold[h].state # "released" => hold[h].releasedBy = NoMember
OwnerStays == active \subseteq Member /\ \E o \in active : role[o] = "owner"

StopInvariant == HoldInvariant /\ Unsigned /\ OwnerStays

\* The steps as far as TwoPersonStop looks at them.
LEMMA StopWriters ==
  ASSUME [Next]_vars
  PROVE  \/ UNCHANGED <<holdVars, teamVars>>
         \/ UNCHANGED holdVars /\ \E m \in Member : TeamStep(m)
         \/ UNCHANGED teamVars /\ \E s \in Scope, k \in Class : StartHold(s, k)
         \/ UNCHANGED teamVars /\ \E r \in Request : RequestRelease(r)
         \/ UNCHANGED teamVars /\ \E c \in Click : ReleaseHold(c)
<1>1. CASE UNCHANGED vars
  BY <1>1 DEF vars
<1>2. CASE \E w \in Work : WorkStep(w)
  BY <1>2 DEF WorkStep, FileWork, FinishWork
<1>3. CASE \E m \in Member : TeamStep(m)
  BY <1>3 DEF TeamStep, ChangeRole, Deactivate
<1>4. CASE \E s \in Scope, k \in Class : StartHold(s, k)
  BY <1>4 DEF StartHold
<1>5. ASSUME NEW r \in Request,
             (\E m \in Member, h \in HoldId : ReadHold(r, m, h)) \/ RequestStep(r) \/ RejectTicket(r)
      PROVE  UNCHANGED <<holdVars, teamVars>> \/ (UNCHANGED teamVars /\ RequestRelease(r))
  BY <1>5 DEF RequestStep, ReadHold, FileTicket, RequestRelease, RequestFails, ExpireTicket, RejectTicket
<1>6. ASSUME NEW c \in Click,
             (\E m \in Member, h \in HoldId : ReadHoldToRelease(c, m, h)) \/ ClickStep(c) \/ CrashClick(c)
      PROVE  UNCHANGED <<holdVars, teamVars>> \/ (UNCHANGED teamVars /\ ReleaseHold(c))
  BY <1>6 DEF ClickStep, ReadHoldToRelease, ReadTicket, CheckApprover, DecideTicket, DecideFails,
              ReleaseHold, ReleaseFails, RereadHold, RevertTicket, RevertFails, CrashClick
<1> QED BY <1>1, <1>2, <1>3, <1>4, <1>5, <1>6 DEF Next

\* The last active owner neither loses the role nor leaves (org_members_keep_last_owner).
LEMMA TeamKeepsOwner ==
  ASSUME TypeOK, OwnerStays, NEW m \in Member, TeamStep(m)
  PROVE  OwnerStays'
<1>1. CASE \E x \in Role : ChangeRole(m, x)
  <2>1. PICK x \in Role : ChangeRole(m, x)
    BY <1>1
  <2>2. active' = active /\ role' = [role EXCEPT ![m] = x] /\ (x # "owner" => OwnerRemains(m))
    BY <2>1 DEF ChangeRole
  <2>3. CASE x = "owner"
    BY <2>2, <2>3 DEF OwnerStays, TypeOK
  <2>4. CASE x # "owner"
    BY <2>2, <2>4 DEF OwnerStays, OwnerRemains, TypeOK
  <2> QED BY <2>3, <2>4
<1>2. CASE Deactivate(m)
  BY <1>2 DEF Deactivate, OwnerStays, OwnerRemains, TypeOK
<1> QED BY <1>1, <1>2 DEF TeamStep

LEMMA InitStop == Init => StopInvariant
<1> SUFFICES ASSUME Init PROVE StopInvariant
  OBVIOUS
<1>1. Unsigned
  BY DEF Init, Unsigned
<1>2. OwnerStays
  BY DEF Init, OwnerStays
<1> QED BY <1>1, <1>2, InitHold DEF StopInvariant

LEMMA StepStop == StopInvariant /\ [Next]_vars => StopInvariant'
<1> SUFFICES ASSUME StopInvariant, [Next]_vars PROVE StopInvariant'
  OBVIOUS
<1>1. HoldInvariant /\ HoldInvariant' /\ TypeOK
  BY NextInvariant DEF StopInvariant, HoldInvariant
<1>2. CASE UNCHANGED <<holdVars, teamVars>>
  BY <1>1, <1>2 DEF StopInvariant, Unsigned, OwnerStays, holdVars, teamVars
<1>3. CASE UNCHANGED holdVars /\ \E m \in Member : TeamStep(m)
  <2>1. Unsigned'
    BY <1>3 DEF StopInvariant, Unsigned, holdVars
  <2> QED BY <1>1, <1>3, <2>1, TeamKeepsOwner DEF StopInvariant
<1>4. CASE UNCHANGED teamVars /\ \E s \in Scope, k \in Class : StartHold(s, k)
  <2>1. PICK s \in Scope, k \in Class : StartHold(s, k)
    BY <1>4
  <2>2. hold'[issued + 1].releasedBy = NoMember
    <3>1. hold'[issued + 1] = OpenRow(s, k)
      BY <1>1, <2>1, StartRows
    <3> QED BY <3>1 DEF OpenRow
  <2>3. \A h \in HoldId : h # issued + 1 =>
          hold'[h].releasedBy = hold[h].releasedBy
          /\ (hold[h].state = "released" => hold'[h].state = "released")
    BY <1>1, <2>1, StartRows
  <2>4. Unsigned'
    BY <2>2, <2>3 DEF StopInvariant, Unsigned
  <2> QED BY <1>1, <1>4, <2>4 DEF StopInvariant, OwnerStays, teamVars
<1>5. CASE UNCHANGED teamVars /\ \E r \in Request : RequestRelease(r)
  <2>1. \A h \in HoldId : hold'[h].state = hold[h].state /\ hold'[h].releasedBy = hold[h].releasedBy
    BY <1>1, <1>5, RequestRows
  <2>2. Unsigned'
    BY <2>1 DEF StopInvariant, Unsigned
  <2> QED BY <1>1, <1>5, <2>2 DEF StopInvariant, OwnerStays, teamVars
<1>6. CASE UNCHANGED teamVars /\ \E c \in Click : ReleaseHold(c)
  <2>1. PICK h \in HoldId : hold'[h].state = "released" /\ \A g \in HoldId : g # h => hold'[g] = hold[g]
    BY <1>1, <1>6, ReleaseRows
  <2>2. Unsigned'
    BY <2>1 DEF StopInvariant, Unsigned
  <2> QED BY <1>1, <1>6, <2>2 DEF StopInvariant, OwnerStays, teamVars
<1> QED BY <1>2, <1>3, <1>4, <1>5, <1>6, StopWriters

LEMMA RankFacts ==
  \A c \in Class : Rank(c) \in 1..4 /\ (c # "ops" => Rank(c) \in 1..3) /\ (Rank(c) = 3 <=> c = "detector")
BY DEF Class, Rank

\* A pointer names a row that has been made, with a class of its own.
LEMMA PointedRow ==
  ASSUME HoldInvariant, NEW s \in Scope, current[s] # 0
  PROVE  /\ current[s] \in HoldId /\ hold[current[s]].state = "open"
         /\ hold[current[s]].class \in Class
         /\ \A u \in Scope : current[u] = current[s] => u = s
<1>1. TypeOK /\ Shape /\ PointerIsOpenHold
  BY DEF HoldInvariant
<1>2. current[s] \in HoldId
  BY <1>1, HoldConstants DEF TypeOK, HoldId, HoldConstants
<1>3. hold[current[s]].scope = s
  BY <1>1 DEF Shape
<1>4. hold[current[s]].state = "open"
  BY <1>1, <1>2, <1>3 DEF PointerIsOpenHold
<1>5. \A u \in Scope : current[u] = current[s] => u = s
  BY <1>1, <1>3 DEF Shape
<1> QED BY <1>1, <1>2, <1>4, <1>5 DEF TypeOK, HoldRow

\* An active owner may grant releases.
LEMMA OwnerApproves == OwnerStays => active \in SUBSET Member /\ Eligible \in (SUBSET active) \ {{}}
<1> SUFFICES ASSUME OwnerStays PROVE active \in SUBSET Member /\ Eligible \in (SUBSET active) \ {{}}
  OBVIOUS
<1>1. PICK o \in active : role[o] = "owner"
  BY DEF OwnerStays
<1>2. o \in Eligible
  BY <1>1 DEF Eligible
<1> QED BY <1>2 DEF OwnerStays, Eligible

LEMMA InitTwoPerson == Init => TwoPerson!Init
<1> SUFFICES ASSUME Init PROVE TwoPerson!Init
  OBVIOUS
<1>1. Strength = [s \in Scope |-> 0] /\ Asked = [s \in Scope |-> NoMember]
  BY DEF Init, Strength, Asked
<1>2. Signed = [h \in HoldId |-> NoMember]
  BY DEF Init, Signed
<1>3. active \in SUBSET Member /\ Eligible \in (SUBSET active) \ {{}}
  BY InitStop, OwnerApproves DEF StopInvariant
<1> QED BY <1>1, <1>2, <1>3 DEF TwoPerson!Init

LEMMA StartStops ==
  ASSUME StopInvariant, NEW s \in Scope, NEW k \in Class, StartHold(s, k), UNCHANGED teamVars
  PROVE  TwoPerson!Stop(s, Rank(k))
<1>0. HoldInvariant
  BY DEF StopInvariant
<1>1. current \in [Scope -> 0..HoldLimit] /\ issued \in Nat
  BY <1>0 DEF HoldInvariant, TypeOK
<1>2. current' = [current EXCEPT ![s] = issued + 1] /\ Outranks(s, k)
  BY DEF StartHold
<1>3. /\ issued + 1 \in HoldId /\ hold[issued + 1].state = "unused"
      /\ hold'[issued + 1] = OpenRow(s, k)
      /\ \A h \in HoldId : h # issued + 1 =>
           /\ hold'[h].class = hold[h].class /\ hold'[h].requestedBy = hold[h].requestedBy
           /\ hold'[h].releasedBy = hold[h].releasedBy
  BY <1>0, StartRows
<1>4. hold'[issued + 1].class = k /\ hold'[issued + 1].requestedBy = NoMember
      /\ hold'[issued + 1].releasedBy = NoMember
  BY <1>3 DEF OpenRow
<1>5. Rank(k) > Strength[s]
  BY <1>2, RankFacts DEF Outranks, Strength
<1>6. \A u \in Scope : u # s => current'[u] = current[u]
        /\ (current[u] # 0 => current[u] \in HoldId /\ current[u] # issued + 1)
  BY <1>0, <1>1, <1>2, <1>3, PointedRow
<1>7. Strength' = [Strength EXCEPT ![s] = Rank(k)]
  <2>1. \A u \in Scope : (IF current'[u] = 0 THEN 0 ELSE Rank(hold'[current'[u]].class))
                         = IF u = s THEN Rank(k) ELSE Strength[u]
    BY <1>1, <1>2, <1>3, <1>4, <1>6 DEF Strength
  <2> QED BY <2>1 DEF Strength
<1>8. Asked' = [Asked EXCEPT ![s] = NoMember]
  <2>1. \A u \in Scope : (IF current'[u] = 0 THEN NoMember ELSE hold'[current'[u]].requestedBy)
                         = IF u = s THEN NoMember ELSE Asked[u]
    BY <1>1, <1>2, <1>3, <1>4, <1>6 DEF Asked
  <2> QED BY <2>1 DEF Asked
<1>9. Signed' = Signed
  <2>1. \A h \in HoldId : hold'[h].releasedBy = hold[h].releasedBy
    BY <1>3, <1>4 DEF StopInvariant, Unsigned
  <2> QED BY <2>1 DEF Signed
<1>10. UNCHANGED <<active, Eligible>>
  BY DEF teamVars, Eligible
<1> QED BY <1>5, <1>7, <1>8, <1>9, <1>10 DEF TwoPerson!Stop

LEMMA AskAsks ==
  ASSUME StopInvariant, NEW r \in Request, RequestRelease(r), UNCHANGED teamVars
  PROVE  \E s \in Scope, m \in Member : TwoPerson!Ask(s, m)
<1>1. TypeOK /\ Shape /\ PointerIsOpenHold /\ HoldInvariant
  BY DEF StopInvariant, HoldInvariant
<1>2. ticket[r].hold \in HoldId /\ ticket[r].requestedBy \in Member
  BY <1>1 DEF Shape, RequestRelease
<1>3. PICK h \in HoldId, m \in Member : h = ticket[r].hold /\ m = ticket[r].requestedBy
  BY <1>2
<1>4. hold[h].state = "open" /\ hold[h].class # "ops" /\ m \in active
  BY <1>3 DEF RequestRelease, MayRequest
<1>5. PICK s \in Scope : current[s] = h
  BY <1>1, <1>4 DEF PointerIsOpenHold
<1>6. current[s] # 0
  BY <1>5, HoldConstants DEF HoldId, HoldConstants
<1>7. \A u \in Scope : current[u] = h => u = s
  BY <1>1, <1>5, <1>6, PointedRow
<1>8. Strength[s] \in 1..3
  BY <1>1, <1>4, <1>5, <1>6, RankFacts, PointedRow DEF Strength
<1>9. /\ current' = current
      /\ \A g \in HoldId : hold'[g].class = hold[g].class /\ hold'[g].releasedBy = hold[g].releasedBy
      /\ \A g \in HoldId : g # h => hold'[g] = hold[g]
      /\ hold'[h].requestedBy = m
  BY <1>1, <1>3, RequestRows
<1>10. \A u \in Scope : current[u] # 0 => current[u] \in HoldId
  BY <1>1, PointedRow
<1>11. Strength' = Strength
  BY <1>9, <1>10 DEF Strength
<1>12. Asked' = [Asked EXCEPT ![s] = m]
  <2>1. \A u \in Scope : (IF current'[u] = 0 THEN NoMember ELSE hold'[current'[u]].requestedBy)
                         = IF u = s THEN m ELSE Asked[u]
    BY <1>5, <1>6, <1>7, <1>9, <1>10 DEF Asked
  <2> QED BY <2>1 DEF Asked
<1>13. Signed' = Signed
  BY <1>9 DEF Signed
<1>14. UNCHANGED <<active, Eligible>>
  BY DEF teamVars, Eligible
<1>15. TwoPerson!Ask(s, m)
  BY <1>4, <1>8, <1>11, <1>12, <1>13, <1>14 DEF TwoPerson!Ask, TwoPerson!Detector
<1> QED BY <1>15

LEMMA ReleaseReleases ==
  ASSUME StopInvariant, NEW c \in Click, ReleaseHold(c), UNCHANGED teamVars
  PROVE  \E s \in Scope, m \in Member, e \in HoldId : TwoPerson!Release(s, m, e)
<1>1. TypeOK /\ Shape /\ PointerIsOpenHold /\ HoldInvariant
  BY DEF StopInvariant, HoldInvariant
<1>2. PICK h \in HoldId :
        LET by == hold'[h].releasedBy IN
        /\ hold[h].state = "open" /\ hold[h].class # "ops" /\ hold'[h].state = "released"
        /\ hold'[h].ticket = hold[h].ticket
        /\ \A g \in HoldId : g # h => hold'[g] = hold[g]
        /\ \A s \in Scope : current'[s] = IF current[s] = h THEN 0 ELSE current[s]
        /\ by \in Eligible /\ hold[h].requestedBy \in active
        /\ by # hold[h].requestedBy \/ (Eligible = {by} /\ hold[h].class # "detector")
  BY <1>1, ReleaseRows
<1>3. PICK m : m = hold'[h].releasedBy
  OBVIOUS
<1>4. m \in Eligible /\ m \in Member
  BY <1>1, <1>2, <1>3 DEF Eligible, TypeOK
<1>5. PICK s \in Scope : current[s] = h
  BY <1>1, <1>2 DEF PointerIsOpenHold
<1>6. current[s] # 0
  BY <1>5, HoldConstants DEF HoldId, HoldConstants
<1>7. \A u \in Scope : current[u] = h => u = s
  BY <1>1, <1>5, <1>6, PointedRow
<1>8. /\ Strength[s] = Rank(hold[h].class) /\ Asked[s] = hold[h].requestedBy
      /\ hold[h].class \in Class
  BY <1>1, <1>5, <1>6, PointedRow DEF Strength, Asked
<1>9. Strength[s] \in 1..3 /\ (Strength[s] = 3 <=> hold[h].class = "detector")
  BY <1>2, <1>8, RankFacts
<1>10. \A u \in Scope : u # s => current'[u] = current[u]
         /\ (current[u] # 0 => hold'[current[u]] = hold[current[u]])
  BY <1>1, <1>2, <1>7, PointedRow
<1>11. current'[s] = 0
  BY <1>2, <1>5
<1>12. Strength' = [Strength EXCEPT ![s] = 0]
  <2>1. \A u \in Scope : (IF current'[u] = 0 THEN 0 ELSE Rank(hold'[current'[u]].class))
                         = IF u = s THEN 0 ELSE Strength[u]
    BY <1>10, <1>11 DEF Strength
  <2> QED BY <2>1 DEF Strength
<1>13. Asked' = [Asked EXCEPT ![s] = NoMember]
  <2>1. \A u \in Scope : (IF current'[u] = 0 THEN NoMember ELSE hold'[current'[u]].requestedBy)
                         = IF u = s THEN NoMember ELSE Asked[u]
    BY <1>10, <1>11 DEF Asked
  <2> QED BY <2>1 DEF Asked
<1>14. Signed' = [Signed EXCEPT ![h] = m]
  <2>1. \A g \in HoldId : g # h => hold'[g].releasedBy = hold[g].releasedBy
    BY <1>2
  <2> QED BY <1>3, <2>1 DEF Signed
<1>15. Signed[h] = NoMember
  BY <1>2 DEF StopInvariant, Unsigned, Signed
<1>16. m = Asked[s] => Eligible = {m} /\ Strength[s] # 3
  BY <1>2, <1>3, <1>8, <1>9
<1>17. UNCHANGED <<active, Eligible>>
  BY DEF teamVars, Eligible
<1>18. Asked[s] \in active
  BY <1>2, <1>8
<1>19. TwoPerson!Release(s, m, h)
  BY <1>4, <1>9, <1>12, <1>13, <1>14, <1>15, <1>16, <1>17, <1>18
  DEF TwoPerson!Release, TwoPerson!Detector
<1> QED BY <1>4, <1>19

LEMMA StepTwoPerson == StopInvariant /\ StopInvariant' /\ [Next]_vars => [TwoPerson!Next]_(TwoPerson!vars)
<1> SUFFICES ASSUME StopInvariant, StopInvariant', [Next]_vars
             PROVE  TwoPerson!Next \/ UNCHANGED TwoPerson!vars
  OBVIOUS
<1>1. HoldInvariant
  BY DEF StopInvariant
<1>2. UNCHANGED holdVars => UNCHANGED <<Strength, Asked, Signed>>
  BY DEF holdVars, Strength, Asked, Signed
<1>3. CASE UNCHANGED <<holdVars, teamVars>>
  <2>1. UNCHANGED <<active, Eligible>>
    BY <1>3 DEF teamVars, Eligible
  <2> QED BY <1>2, <1>3, <2>1 DEF TwoPerson!vars
<1>4. CASE UNCHANGED holdVars /\ \E m \in Member : TeamStep(m)
  <2>1. active' \in SUBSET Member /\ Eligible' \in (SUBSET active') \ {{}}
    <3>1. PICK o \in active' : role'[o] = "owner"
      BY DEF StopInvariant, OwnerStays
    <3>2. o \in Eligible'
      BY <3>1 DEF Eligible
    <3> QED BY <3>2 DEF StopInvariant, OwnerStays, Eligible
  <2> QED BY <1>2, <1>4, <2>1 DEF TwoPerson!Next, TwoPerson!ChangeTeam
<1>5. CASE UNCHANGED teamVars /\ \E s \in Scope, k \in Class : StartHold(s, k)
  <2>1. PICK s \in Scope, k \in Class : TwoPerson!Stop(s, Rank(k))
    BY <1>5, StartStops
  <2>2. Rank(k) \in 1..4
    BY RankFacts
  <2> QED BY <2>1, <2>2 DEF TwoPerson!Next, TwoPerson!Ops
<1>6. CASE UNCHANGED teamVars /\ \E r \in Request : RequestRelease(r)
  BY <1>6, AskAsks DEF TwoPerson!Next
<1>7. CASE UNCHANGED teamVars /\ \E c \in Click : ReleaseHold(c)
  BY <1>7, ReleaseReleases DEF TwoPerson!Next
<1> QED BY <1>3, <1>4, <1>5, <1>6, <1>7, StopWriters

\* The tables, tickets and calls of the emergency stop implement the stop of two people for
\* any number of scopes, members, requests and clicks: start_employee_hold,
\* request_employee_hold_release and release_employee_hold with the trigger that keeps an
\* owner.
THEOREM StopTakesTwoPeople == Spec => ImplementsTwoPersonStop
<1>1. Spec => []StopInvariant
  BY InitStop, StepStop, PTL DEF Spec
<1>2. Spec => TwoPerson!Spec
  BY <1>1, InitTwoPerson, StepTwoPerson, PTL DEF Spec, TwoPerson!Spec
<1> QED BY <1>2 DEF ImplementsTwoPersonStop

(***************************************************************************)
(* No approved release without a call                                      *)
(***************************************************************************)
\* A click works on the hold of its ticket, which the request has filed; a row's ticket is
\* about that row; a request is about a row that has been made.
TicketsKnowHolds ==
  /\ \A c \in Click : clickPc[c] # "idle" =>
       /\ requestPc[click[c].ticket] \in {"expiring", "done"}
       /\ ticket[click[c].ticket].hold = click[c].hold
  /\ \A h \in HoldId : hold[h].ticket # NoRequest => ticket[hold[h].ticket].hold = h
  /\ \A r \in Request : requestPc[r] # "idle" => hold[ticket[r].hold].state # "unused"

SettleInvariant == HoldInvariant /\ TicketsKnowHolds /\ ReleaseHasItsCall

\* A step that leaves requests and clicks alone and makes or closes rows.
LEMMA RowsOnly ==
  ASSUME SettleInvariant, UNCHANGED <<requestVars, clickVars>>,
         \A h \in HoldId : /\ hold'[h].ticket = hold[h].ticket
                           /\ hold[h].state # "unused" =>
                                hold'[h].state # "unused"
                                /\ (hold'[h].state = "open" => hold[h].state = "open")
  PROVE  TicketsKnowHolds' /\ ReleaseHasItsCall'
<1>1. TypeOK /\ Shape /\ TicketsKnowHolds /\ ReleaseHasItsCall
  BY DEF SettleInvariant, HoldInvariant
<1>2. ticket' = ticket /\ requestPc' = requestPc /\ clickPc' = clickPc /\ click' = click
  BY DEF requestVars, clickVars
<1>3. \A r \in Request : requestPc[r] # "idle" =>
        ticket[r].hold \in HoldId /\ hold[ticket[r].hold].state # "unused"
  BY <1>1 DEF Shape, TicketsKnowHolds
<1>4. TicketsKnowHolds'
  BY <1>1, <1>2, <1>3 DEF TicketsKnowHolds
<1>5. \A r \in Request : ticket[r].status = "approved" => requestPc[r] # "idle"
  BY <1>1 DEF Shape
<1>6. ReleaseHasItsCall'
  BY <1>1, <1>2, <1>3, <1>5 DEF ReleaseHasItsCall
<1> QED BY <1>4, <1>6

\* A step of requests and tickets that approves none.
LEMMA RequestsOnly ==
  ASSUME SettleInvariant, UNCHANGED <<holdVars, clickVars>>,
         \A q \in Request :
           /\ requestPc[q] # "idle" => requestPc'[q] # "idle" /\ ticket'[q].hold = ticket[q].hold
           /\ requestPc[q] \in {"expiring", "done"} => requestPc'[q] \in {"expiring", "done"}
           /\ ticket'[q].status = "approved" =>
                ticket[q].status = "approved" /\ ticket'[q].resolvedBy = ticket[q].resolvedBy
           /\ requestPc[q] = "idle" /\ requestPc'[q] # "idle" =>
                hold[ticket'[q].hold].state # "unused"
  PROVE  TicketsKnowHolds' /\ ReleaseHasItsCall'
<1>1. TypeOK /\ Shape /\ TicketsKnowHolds /\ ReleaseHasItsCall
  BY DEF SettleInvariant, HoldInvariant
<1>2. hold' = hold /\ clickPc' = clickPc /\ click' = click
  BY DEF holdVars, clickVars
<1>3. \A c \in Click : clickPc[c] # "idle" =>
        /\ requestPc'[click[c].ticket] \in {"expiring", "done"}
        /\ ticket'[click[c].ticket].hold = click[c].hold
  <2> SUFFICES ASSUME NEW c \in Click, clickPc[c] # "idle"
               PROVE  /\ requestPc'[click[c].ticket] \in {"expiring", "done"}
                      /\ ticket'[click[c].ticket].hold = click[c].hold
    OBVIOUS
  <2>1. PICK q \in Request : q = click[c].ticket
    BY <1>1 DEF Shape
  <2>2. requestPc[q] \in {"expiring", "done"} /\ ticket[q].hold = click[c].hold
    BY <1>1, <2>1 DEF TicketsKnowHolds
  <2> QED BY <2>1, <2>2
<1>4. \A h \in HoldId : hold[h].ticket # NoRequest => ticket'[hold[h].ticket].hold = h
  <2> SUFFICES ASSUME NEW h \in HoldId, hold[h].ticket # NoRequest
               PROVE  ticket'[hold[h].ticket].hold = h
    OBVIOUS
  <2>1. PICK q \in Request : q = hold[h].ticket
    BY <1>1 DEF TypeOK, HoldRow
  <2>2. requestPc[q] \in {"expiring", "done"} /\ ticket[q].hold = h
    BY <1>1, <2>1 DEF Shape, TicketsKnowHolds
  <2> QED BY <2>1, <2>2
<1>5. \A r \in Request : requestPc'[r] # "idle" => hold[ticket'[r].hold].state # "unused"
  BY <1>1 DEF TicketsKnowHolds
<1>6. \A r \in Request : ticket[r].status = "approved" => requestPc[r] # "idle"
  BY <1>1 DEF Shape
<1>7. TicketsKnowHolds'
  BY <1>2, <1>3, <1>4, <1>5 DEF TicketsKnowHolds
<1>8. ReleaseHasItsCall'
  BY <1>1, <1>2, <1>6 DEF ReleaseHasItsCall
<1> QED BY <1>7, <1>8

\* A step of one click that leaves rows and tickets alone and, once at work on an approved
\* ticket, stays so or dies.
LEMMA ClicksOnly ==
  ASSUME SettleInvariant, NEW c \in Click, UNCHANGED <<holdVars, requestVars>>,
         \A d \in Click : d # c => clickPc'[d] = clickPc[d] /\ click'[d] = click[d],
         clickPc[c] \in UnderWay =>
           /\ clickPc'[c] \in UnderWay
           /\ click'[c].ticket = click[c].ticket /\ click'[c].member = click[c].member,
         clickPc'[c] # "idle" =>
           /\ requestPc[click'[c].ticket] \in {"expiring", "done"}
           /\ ticket[click'[c].ticket].hold = click'[c].hold
  PROVE  TicketsKnowHolds' /\ ReleaseHasItsCall'
<1>1. TypeOK /\ Shape /\ TicketsKnowHolds /\ ReleaseHasItsCall
  BY DEF SettleInvariant, HoldInvariant
<1>2. hold' = hold /\ ticket' = ticket /\ requestPc' = requestPc
  BY DEF holdVars, requestVars
<1>3. TicketsKnowHolds'
  <2>1. \A d \in Click : clickPc'[d] # "idle" =>
          /\ requestPc[click'[d].ticket] \in {"expiring", "done"}
          /\ ticket[click'[d].ticket].hold = click'[d].hold
    BY <1>1 DEF TicketsKnowHolds
  <2> QED BY <1>1, <1>2, <2>1 DEF TicketsKnowHolds
<1>4. \A d \in Click : clickPc[d] \in UnderWay =>
        /\ clickPc'[d] \in UnderWay
        /\ click'[d].ticket = click[d].ticket /\ click'[d].member = click[d].member
  OBVIOUS
<1>5. ReleaseHasItsCall'
  BY <1>1, <1>2, <1>4 DEF ReleaseHasItsCall
<1> QED BY <1>3, <1>5

LEMMA RequestSettle ==
  ASSUME SettleInvariant, NEW r \in Request,
         (\E m \in Member, h \in HoldId : ReadHold(r, m, h)) \/ RequestStep(r) \/ RejectTicket(r)
  PROVE  TicketsKnowHolds' /\ ReleaseHasItsCall'
<1>1. TypeOK /\ Shape /\ TicketsKnowHolds /\ ReleaseHasItsCall /\ HoldInvariant
  BY DEF SettleInvariant, HoldInvariant
<1>2. ticket[r] \in ReleaseTicket /\ requestPc[r] \in RequestPc
  BY <1>1 DEF TypeOK
<1>3. CASE \E m \in Member, h \in HoldId : ReadHold(r, m, h)
  <2>1. PICK m \in Member, h \in HoldId : ReadHold(r, m, h)
    BY <1>3
  <2>2. ticket[r].status = "absent"
    BY <1>1, <2>1 DEF ReadHold, Shape
  <2>3. /\ ticket'[r].hold = h /\ ticket'[r].status = "absent"
        /\ requestPc[r] = "idle" /\ requestPc'[r] = "read" /\ hold[h].state # "unused"
    BY <1>1, <1>2, <2>1, <2>2 DEF ReadHold, TypeOK, ReleaseTicket
  <2>4. \A q \in Request : q # r => ticket'[q] = ticket[q] /\ requestPc'[q] = requestPc[q]
    BY <1>1, <2>1 DEF ReadHold, TypeOK
  <2>5. UNCHANGED <<holdVars, clickVars>>
    BY <2>1 DEF ReadHold
  <2> QED BY <2>3, <2>4, <2>5, RequestsOnly
<1>4. CASE FileTicket(r)
  <2>1. /\ ticket'[r].hold = ticket[r].hold /\ ticket'[r].status = "pending"
        /\ requestPc[r] = "read" /\ requestPc'[r] = "filed"
    BY <1>1, <1>2, <1>4 DEF FileTicket, TypeOK, ReleaseTicket
  <2>2. \A q \in Request : q # r => ticket'[q] = ticket[q] /\ requestPc'[q] = requestPc[q]
    BY <1>1, <1>4 DEF FileTicket, TypeOK
  <2>3. UNCHANGED <<holdVars, clickVars>>
    BY <1>4 DEF FileTicket
  <2> QED BY <2>1, <2>2, <2>3, RequestsOnly
<1>5. CASE RequestRelease(r)
  <2>1. PICK h \in HoldId : h = ticket[r].hold
    BY <1>1, <1>5 DEF RequestRelease, Shape
  <2>2. /\ \A g \in HoldId : hold'[g].state = hold[g].state
        /\ \A g \in HoldId : g # h => hold'[g] = hold[g]
    BY <1>1, <1>5, <2>1, RequestRows
  <2>3. hold'[h].ticket = r
    <3>1. hold[h] \in HoldRow
      BY <1>1 DEF TypeOK
    <3>2. hold'[h] = [hold[h] EXCEPT !.requestedBy = ticket[r].requestedBy, !.ticket = r]
      BY <1>1, <1>5, <2>1 DEF RequestRelease, TypeOK
    <3> QED BY <3>1, <3>2 DEF HoldRow
  <2>4. ticket' = ticket /\ clickPc' = clickPc /\ click' = click
    BY <1>5 DEF RequestRelease, clickVars
  <2>5. /\ requestPc[r] = "filed" /\ requestPc'[r] \in {"expiring", "done"}
        /\ \A q \in Request : q # r => requestPc'[q] = requestPc[q]
    BY <1>1, <1>5 DEF RequestRelease, TypeOK
  <2>6. \A q \in Request : requestPc[q] \in {"expiring", "done"} => requestPc'[q] \in {"expiring", "done"}
    BY <2>5
  <2>7. \A c \in Click : clickPc[c] # "idle" =>
          requestPc'[click[c].ticket] \in {"expiring", "done"}
          /\ ticket[click[c].ticket].hold = click[c].hold
    BY <1>1, <2>6 DEF TicketsKnowHolds, Shape
  <2>8. \A g \in HoldId : hold'[g].ticket # NoRequest => ticket[hold'[g].ticket].hold = g
    BY <1>1, <2>1, <2>2, <2>3 DEF TicketsKnowHolds
  <2>9. \A q \in Request : requestPc[q] # "idle" =>
          ticket[q].hold \in HoldId /\ hold'[ticket[q].hold].state # "unused"
    BY <1>1, <2>2 DEF Shape, TicketsKnowHolds
  <2>10. \A q \in Request : requestPc'[q] # "idle" => requestPc[q] # "idle"
    BY <2>5
  <2>11. TicketsKnowHolds'
    BY <2>4, <2>7, <2>8, <2>9, <2>10 DEF TicketsKnowHolds
  <2>12. \A q \in Request : ticket[q].status = "approved" => ticket[q].hold \in HoldId
    BY <1>1 DEF Shape
  <2>13. ReleaseHasItsCall'
    BY <1>1, <2>2, <2>4, <2>12 DEF ReleaseHasItsCall
  <2> QED BY <2>11, <2>13
<1>6. CASE RequestFails(r)
  <2>1. /\ requestPc[r] = "filed" /\ requestPc'[r] = "expiring" /\ UNCHANGED <<ticket, holdVars, clickVars>>
        /\ \A q \in Request : q # r => requestPc'[q] = requestPc[q]
    BY <1>1, <1>6 DEF RequestFails, TypeOK
  <2> QED BY <2>1, RequestsOnly
<1>7. CASE ExpireTicket(r)
  <2>1. /\ requestPc[r] = "expiring" /\ requestPc'[r] = "done" /\ UNCHANGED <<holdVars, clickVars>>
        /\ \A q \in Request : q # r => requestPc'[q] = requestPc[q] /\ ticket'[q] = ticket[q]
    BY <1>1, <1>7 DEF ExpireTicket, TypeOK
  <2>2. /\ ticket'[r].hold = ticket[r].hold
        /\ ticket'[r].status = "approved" =>
             ticket[r].status = "approved" /\ ticket'[r].resolvedBy = ticket[r].resolvedBy
    BY <1>1, <1>2, <1>7 DEF ExpireTicket, TypeOK, ReleaseTicket
  <2> QED BY <2>1, <2>2, RequestsOnly
<1>8. CASE RejectTicket(r)
  <2>1. /\ requestPc' = requestPc /\ UNCHANGED <<holdVars, clickVars>>
        /\ \A q \in Request : q # r => ticket'[q] = ticket[q]
    BY <1>1, <1>8 DEF RejectTicket, TypeOK
  <2>2. ticket'[r].hold = ticket[r].hold /\ ticket'[r].status = "rejected"
    BY <1>1, <1>2, <1>8 DEF RejectTicket, TypeOK, ReleaseTicket
  <2>3. requestPc[r] # "idle"
    BY <1>1, <1>8 DEF RejectTicket, Shape
  <2> QED BY <2>1, <2>2, <2>3, RequestsOnly
<1> QED BY <1>3, <1>4, <1>5, <1>6, <1>7, <1>8 DEF RequestStep

LEMMA ClickSettle ==
  ASSUME SettleInvariant, NEW c \in Click,
         (\E m \in Member, h \in HoldId : ReadHoldToRelease(c, m, h)) \/ ClickStep(c) \/ CrashClick(c)
  PROVE  TicketsKnowHolds' /\ ReleaseHasItsCall'
<1>1. TypeOK /\ Shape /\ TicketsKnowHolds /\ ReleaseHasItsCall /\ HoldInvariant
  BY DEF SettleInvariant, HoldInvariant
<1>2. click[c] \in Seen /\ clickPc[c] \in ClickPc
  BY <1>1 DEF TypeOK
<1>3. clickPc[c] # "idle" =>
        /\ click[c].ticket \in Request
        /\ requestPc[click[c].ticket] \in {"expiring", "done"}
        /\ ticket[click[c].ticket].hold = click[c].hold
  BY <1>1 DEF Shape, TicketsKnowHolds
<1>4. CASE \E m \in Member, h \in HoldId : ReadHoldToRelease(c, m, h)
  <2>1. PICK m \in Member, h \in HoldId : ReadHoldToRelease(c, m, h)
    BY <1>4
  <2>2. PICK r \in Request : r = hold[h].ticket
    BY <1>1, <2>1 DEF ReadHoldToRelease, TypeOK, HoldRow
  <2>3. requestPc[r] \in {"expiring", "done"} /\ ticket[r].hold = h
    BY <1>1, <2>1, <2>2 DEF ReadHoldToRelease, Shape, TicketsKnowHolds
  <2>4. click'[c].ticket = r /\ click'[c].hold = h /\ clickPc[c] = "idle"
    BY <1>1, <2>1, <2>2 DEF ReadHoldToRelease, TypeOK, NothingSeen
  <2>5. /\ \A d \in Click : d # c => clickPc'[d] = clickPc[d] /\ click'[d] = click[d]
        /\ UNCHANGED <<holdVars, requestVars>>
    BY <1>1, <2>1 DEF ReadHoldToRelease, TypeOK
  <2> QED BY <2>3, <2>4, <2>5, ClicksOnly DEF UnderWay
<1>5. CASE ReadTicket(c)
  <2>1. /\ click'[c].ticket = click[c].ticket /\ click'[c].hold = click[c].hold
        /\ clickPc[c] = "holdRead"
    BY <1>1, <1>2, <1>5 DEF ReadTicket, TypeOK, Seen
  <2>2. /\ \A d \in Click : d # c => clickPc'[d] = clickPc[d] /\ click'[d] = click[d]
        /\ UNCHANGED <<holdVars, requestVars>>
    BY <1>1, <1>5 DEF ReadTicket, TypeOK
  <2> QED BY <1>3, <2>1, <2>2, ClicksOnly DEF UnderWay
<1>6. CASE CheckApprover(c) \/ DecideFails(c) \/ ReleaseFails(c) \/ RereadHold(c) \/ RevertFails(c)
           \/ CrashClick(c)
  <2>1. clickPc[c] # "idle" /\ (clickPc[c] \in UnderWay => clickPc'[c] \in UnderWay)
    BY <1>1, <1>6
    DEF CheckApprover, DecideFails, ReleaseFails, RereadHold, RevertFails, CrashClick, TypeOK, UnderWay
  <2>2. /\ \A d \in Click : d # c => clickPc'[d] = clickPc[d]
        /\ UNCHANGED <<click, holdVars, requestVars>>
    BY <1>1, <1>6
    DEF CheckApprover, DecideFails, ReleaseFails, RereadHold, RevertFails, CrashClick, TypeOK
  <2> QED BY <1>3, <2>1, <2>2, ClicksOnly
<1>7. ASSUME DecideTicket(c) \/ RevertTicket(c)
      PROVE  TicketsKnowHolds' /\ ReleaseHasItsCall'
  <2>1. PICK r \in Request : r = click[c].ticket
    BY <1>3, <1>7 DEF DecideTicket, RevertTicket
  <2>2. /\ UNCHANGED <<holdVars, requestPc, click>>
        /\ \A d \in Click : d # c => clickPc'[d] = clickPc[d]
        /\ \A q \in Request : q # r => ticket'[q] = ticket[q]
        /\ clickPc[c] \in {"deciding", "reverting"} /\ clickPc'[c] \in {"releasing", "done"}
    BY <1>1, <1>7, <2>1 DEF DecideTicket, RevertTicket, TypeOK
  <2>3. ticket[r] \in ReleaseTicket
    BY <1>1 DEF TypeOK
  <2>4. ticket'[r].hold = ticket[r].hold
    BY <1>1, <1>7, <2>1, <2>3 DEF DecideTicket, RevertTicket, TypeOK, ReleaseTicket
  <2>5. \A q \in Request : ticket'[q].hold = ticket[q].hold
    BY <2>2, <2>4
  <2>6. TicketsKnowHolds'
    <3>1. \A d \in Click : clickPc'[d] # "idle" =>
            /\ click[d].ticket \in Request
            /\ requestPc[click[d].ticket] \in {"expiring", "done"}
            /\ ticket[click[d].ticket].hold = click[d].hold
      BY <1>1, <1>3, <2>2 DEF Shape, TicketsKnowHolds
    <3>2. \A h \in HoldId : hold[h].ticket # NoRequest =>
            hold[h].ticket \in Request /\ ticket[hold[h].ticket].hold = h
      BY <1>1 DEF TypeOK, HoldRow, TicketsKnowHolds
    <3>3. hold' = hold /\ requestPc' = requestPc /\ click' = click
      BY <2>2 DEF holdVars
    <3> QED BY <1>1, <2>5, <3>1, <3>2, <3>3 DEF TicketsKnowHolds
  <2>7. \A q \in Request : q # r /\ ticket'[q].status = "approved" /\ hold[ticket'[q].hold].state = "open" =>
          \E d \in Click : /\ click[d].ticket = q /\ click[d].member = ticket'[q].resolvedBy
                           /\ clickPc'[d] \in UnderWay
    <3> SUFFICES ASSUME NEW q \in Request, q # r, ticket'[q].status = "approved",
                        hold[ticket'[q].hold].state = "open"
                 PROVE  \E d \in Click : /\ click[d].ticket = q /\ click[d].member = ticket'[q].resolvedBy
                                         /\ clickPc'[d] \in UnderWay
      OBVIOUS
    <3>1. PICK d \in Click : /\ click[d].ticket = q /\ click[d].member = ticket[q].resolvedBy
                             /\ clickPc[d] \in UnderWay
      BY <1>1, <2>2 DEF ReleaseHasItsCall
    <3> QED BY <2>1, <2>2, <3>1
  <2>8. ticket'[r].status = "approved" /\ hold[ticket'[r].hold].state = "open" =>
          \E d \in Click : /\ click[d].ticket = r /\ click[d].member = ticket'[r].resolvedBy
                           /\ clickPc'[d] \in UnderWay
    <3>1. CASE DecideTicket(c)
      <4>1. clickPc'[c] = "releasing" /\ ticket'[r].resolvedBy = click[c].member
        BY <1>1, <2>1, <2>3, <3>1 DEF DecideTicket, TypeOK, ReleaseTicket
      <4> QED BY <2>1, <4>1 DEF UnderWay
    <3>2. CASE RevertTicket(c)
      <4>1. ticket[r].status = "approved" /\ ticket[r].resolvedBy = click[c].member
              => ticket'[r].status = "pending"
        BY <1>1, <2>1, <2>3, <3>2 DEF RevertTicket, TypeOK, ReleaseTicket
      <4>2. ~(ticket[r].status = "approved" /\ ticket[r].resolvedBy = click[c].member)
              => ticket'[r] = ticket[r]
        BY <2>1, <3>2 DEF RevertTicket
      <4>3. SUFFICES ASSUME ticket[r].status = "approved", ticket[r].resolvedBy # click[c].member,
                            hold[ticket[r].hold].state = "open", ticket'[r] = ticket[r]
                     PROVE  \E d \in Click : /\ click[d].ticket = r /\ click[d].member = ticket[r].resolvedBy
                                             /\ clickPc'[d] \in UnderWay
        BY <4>1, <4>2
      <4>4. PICK d \in Click : /\ click[d].ticket = r /\ click[d].member = ticket[r].resolvedBy
                               /\ clickPc[d] \in UnderWay
        BY <1>1, <4>3 DEF ReleaseHasItsCall
      <4>5. d # c
        BY <4>3, <4>4
      <4> QED BY <2>2, <4>4, <4>5
    <3> QED BY <1>7, <3>1, <3>2
  <2>9. hold' = hold /\ click' = click
    BY <2>2 DEF holdVars
  <2>10. ReleaseHasItsCall'
    BY <2>7, <2>8, <2>9 DEF ReleaseHasItsCall
  <2> QED BY <2>6, <2>10
<1>8. CASE ReleaseHold(c)
  <2>1. PICK h \in HoldId : h = click[c].hold
    BY <1>1, <1>8 DEF ReleaseHold, Shape
  <2>2. hold' = [hold EXCEPT ![h] = ReleasedRow(h)] /\ hold[h].state = "open"
    BY <1>8, <2>1 DEF ReleaseHold, MayRelease
  <2>3. hold[h] \in HoldRow
    BY <1>1 DEF TypeOK
  <2>4. hold'[h].state = "released" /\ hold'[h].ticket = hold[h].ticket
    BY <1>1, <2>2, <2>3 DEF ReleasedRow, TypeOK, HoldRow
  <2>5. \A g \in HoldId : g # h => hold'[g] = hold[g]
    BY <1>1, <2>2 DEF TypeOK
  <2>6. /\ ticket' = ticket /\ requestPc' = requestPc /\ click' = click
        /\ \A d \in Click : d # c => clickPc'[d] = clickPc[d]
        /\ clickPc[c] = "releasing" /\ clickPc'[c] \in {"done", "failed"}
    BY <1>1, <1>8 DEF ReleaseHold, TypeOK, requestVars
  <2>7. TicketsKnowHolds'
    <3>1. \A d \in Click : clickPc'[d] # "idle" =>
            /\ requestPc[click[d].ticket] \in {"expiring", "done"}
            /\ ticket[click[d].ticket].hold = click[d].hold
      BY <1>1, <1>3, <2>6 DEF TicketsKnowHolds
    <3>2. \A g \in HoldId : hold'[g].ticket # NoRequest => ticket[hold'[g].ticket].hold = g
      BY <1>1, <2>4, <2>5 DEF TicketsKnowHolds
    <3>3. \A q \in Request : requestPc[q] # "idle" => hold'[ticket[q].hold].state # "unused"
      BY <1>1, <2>4, <2>5 DEF Shape, TicketsKnowHolds
    <3> QED BY <2>6, <3>1, <3>2, <3>3 DEF TicketsKnowHolds
  <2>8. ReleaseHasItsCall'
    <3> SUFFICES ASSUME NEW q \in Request, ticket[q].status = "approved",
                        hold'[ticket[q].hold].state = "open"
                 PROVE  \E d \in Click : /\ click[d].ticket = q /\ click[d].member = ticket[q].resolvedBy
                                         /\ clickPc'[d] \in UnderWay
      BY <2>6 DEF ReleaseHasItsCall
    <3>1. ticket[q].hold \in HoldId /\ ticket[q].hold # h
      BY <1>1, <2>4 DEF Shape
    <3>2. hold[ticket[q].hold].state = "open"
      BY <2>5, <3>1
    <3>3. PICK d \in Click : /\ click[d].ticket = q /\ click[d].member = ticket[q].resolvedBy
                             /\ clickPc[d] \in UnderWay
      BY <1>1, <3>2 DEF ReleaseHasItsCall
    <3>4. d # c
      BY <1>3, <2>1, <2>6, <3>1, <3>3
    <3> QED BY <2>6, <3>3, <3>4
  <2> QED BY <2>7, <2>8
<1> QED BY <1>4, <1>5, <1>6, <1>7, <1>8 DEF ClickStep

LEMMA InitSettle == Init => SettleInvariant
<1> SUFFICES ASSUME Init PROVE SettleInvariant
  OBVIOUS
<1>1. TicketsKnowHolds /\ ReleaseHasItsCall
  BY DEF Init, NoTicket, TicketsKnowHolds, ReleaseHasItsCall
<1> QED BY <1>1, InitHold DEF SettleInvariant

LEMMA StepSettle == SettleInvariant /\ [Next]_vars => SettleInvariant'
<1> SUFFICES ASSUME SettleInvariant, [Next]_vars PROVE SettleInvariant'
  OBVIOUS
<1>1. HoldInvariant /\ HoldInvariant'
  BY NextInvariant DEF SettleInvariant
<1>2. CASE UNCHANGED vars \/ (\E w \in Work : WorkStep(w)) \/ (\E m \in Member : TeamStep(m))
  <2>1. UNCHANGED <<holdVars, requestVars, clickVars>>
    BY <1>2 DEF vars, WorkStep, TeamStep, FileWork, FinishWork, ChangeRole, Deactivate
  <2>2. UNCHANGED <<requestVars, clickVars>> /\ hold' = hold
    BY <2>1 DEF holdVars
  <2> QED BY <1>1, <2>2, RowsOnly DEF SettleInvariant
<1>3. CASE \E s \in Scope, k \in Class : StartHold(s, k)
  <2>1. PICK s \in Scope, k \in Class : StartHold(s, k)
    BY <1>3
  <2>2. UNCHANGED <<requestVars, clickVars>>
    BY <2>1 DEF StartHold
  <2>3. /\ hold[issued + 1].state = "unused" /\ hold[issued + 1].ticket = NoRequest
        /\ hold'[issued + 1] = OpenRow(s, k)
        /\ \A h \in HoldId : h # issued + 1 =>
             /\ hold'[h].ticket = hold[h].ticket
             /\ hold'[h].state # hold[h].state =>
                  hold[h].state = "open" /\ hold'[h].state = "superseded"
    BY <1>1, <2>1, StartRows
  <2>4. hold'[issued + 1].ticket = NoRequest
    BY <2>3 DEF OpenRow
  <2>5. \A h \in HoldId : /\ hold'[h].ticket = hold[h].ticket
                          /\ hold[h].state # "unused" =>
                               hold'[h].state # "unused"
                               /\ (hold'[h].state = "open" => hold[h].state = "open")
    BY <2>3, <2>4
  <2> QED BY <1>1, <2>2, <2>5, RowsOnly DEF SettleInvariant
<1>4. CASE \E r \in Request :
             (\E m \in Member, h \in HoldId : ReadHold(r, m, h)) \/ RequestStep(r) \/ RejectTicket(r)
  BY <1>1, <1>4, RequestSettle DEF SettleInvariant
<1>5. CASE \E c \in Click :
             (\E m \in Member, h \in HoldId : ReadHoldToRelease(c, m, h)) \/ ClickStep(c) \/ CrashClick(c)
  BY <1>1, <1>5, ClickSettle DEF SettleInvariant
<1> QED BY <1>2, <1>3, <1>4, <1>5 DEF Next

\* No race of requests, clicks, retries, stops and team changes leaves a hold in force with a
\* decided request that no call answers for.
THEOREM ReleasesHaveTheirCalls == Spec => []ReleaseHasItsCall
<1>1. SettleInvariant => ReleaseHasItsCall
  BY DEF SettleInvariant
<1> QED BY <1>1, InitSettle, StepSettle, PTL DEF Spec
=============================================================================
