--------------------------- MODULE EstimateProofs ---------------------------
(***************************************************************************)
(* Proofs about Estimate, for any number of lines, parts, links and        *)
(* requests in flight.                                                     *)
(***************************************************************************)
EXTENDS Estimate, FiniteSetTheorems, WellFoundedInduction, TLAPS

(***************************************************************************)
(* Types, and what a request in flight remembers, which the reads decide:  *)
(* each actor does its own steps only, a request of the parts desk knows   *)
(* its part, an edit knows a status it may edit and some lines to write.   *)
(***************************************************************************)

Answers == {"none", "yes", "no"}

SlotOf(r, q) ==
  /\ q.at \in {"request", "edit", "share", "staff"} => r \in Advisors
  /\ q.at \in {"page", "approve", "modify", "reject"} => r \in Customers
  /\ q.at \in {"available", "addLine", "unavailable", "count", "confirm", "move"} => r \in PartsDesk
  /\ q.at \in {"available", "addLine", "unavailable", "move"} => q.part \in Parts
  /\ q.at = "move" => q.to \in {"dispatched", "accepted", "pending"}
  /\ q.at = "edit" => q.status # "none" /\ ~IsEditLocked(q.status) /\ q.n \in 1..MaxLines
  /\ q.at = "approve" =>
       q.status \in {"SHARED", "MODIFICATION_REQUESTED", "APPROVED", "PARTIALLY_APPROVED"}

Slots == \A r \in Requests : SlotOf(r, req[r])

\* Request r becomes q, which may be what it remembers.
Becomes(r, q) == q \in Request /\ SlotOf(r, q) /\ req' = [req EXCEPT ![r] = q]

\* A request that has nothing to remember is one.
LEMMA IdleTypes == Idle \in Request /\ \A r : SlotOf(r, Idle)
  BY EstimateAssumption DEF Idle, Request, CardStatus, NoLink, NoPart, SlotOf

\* So is one that has finished.
LEMMA FinishTypes ==
  ASSUME NEW r, Finish(r)
  PROVE  Becomes(r, Idle)
  BY IdleTypes DEF Finish, Becomes

LEMMA BlankTypes == BlankItem \in ItemRow /\ BlankPart \in PartRow
  BY DEF BlankItem, BlankPart, ItemRow, PartRow, NoPart, NoItem

\* The ids that come next are ids.
LEMMA FreshTypes ==
  /\ \A n : Fresh(n) \subseteq Items /\ Fresh(n) \cap (Live \cup KnownItems) = {}
  /\ \A taken : FreshPart(taken) \subseteq Parts /\ FreshPart(taken) \cap (taken \cup KnownParts) = {}
  /\ FreshLink \subseteq Links \ {card.link}
  BY DEF Fresh, FreshPart, FreshLink

LEMMA BecomesTypes ==
  ASSUME TypeOK, Slots, NEW r \in Requests, NEW q, Becomes(r, q)
  PROVE  req' \in [Requests -> Request] /\ Slots'
  <1>1. req' \in [Requests -> Request] /\ req' = [req EXCEPT ![r] = q]
    BY DEF TypeOK, Becomes
  <1>2. ASSUME NEW s \in Requests
        PROVE  SlotOf(s, req'[s])
    <2>1. CASE s = r
      BY <1>1, <2>1 DEF TypeOK, Becomes
    <2>2. CASE s # r
      BY <1>1, <2>2 DEF TypeOK, Slots
    <2> QED
      BY <2>1, <2>2
  <1>3. \A s \in Requests : SlotOf(s, req[s])' <=> SlotOf(s, req'[s])
    BY DEF SlotOf, IsEditLocked
  <1> QED
    BY <1>1, <1>2, <1>3 DEF Slots

\* A card with another status, a line with another answer, a part with another status.
LEMMA CardTypes ==
  ASSUME TypeOK, NEW s \in CardStatus
  PROVE  [card EXCEPT !.status = s] \in CardRow
  BY DEF TypeOK, CardRow

LEMMA AnsweredTypes ==
  ASSUME TypeOK, NEW i \in Items, NEW answer \in Answers
  PROVE  Answered(i, answer) \in ItemRow
  BY DEF TypeOK, Answered, ItemRow, Answers

LEMMA PartTypes ==
  ASSUME TypeOK, NEW p \in Parts,
         NEW s \in {"pending", "available", "unavailable", "dispatched", "accepted"}
  PROVE  [part EXCEPT ![p].status = s] \in [Parts -> PartRow]
  <1>1. [part[p] EXCEPT !.status = s] \in PartRow
    BY DEF TypeOK, PartRow
  <1> QED
    BY <1>1 DEF TypeOK

LEMMA DroppedTypes == Dropped \in [Parts -> PartRow]
  BY BlankTypes DEF Dropped

LEMMA RebuiltTypes ==
  ASSUME NEW n, NEW withParts \in BOOLEAN
  PROVE  Rebuilt(n, withParts) \in [Items -> ItemRow]
  <1>1. \A b \in BOOLEAN : [BlankItem EXCEPT !.live = TRUE, !.parts = b] \in ItemRow
    BY DEF BlankItem, ItemRow, NoPart
  <1>2. \A i \in Items : (withParts /\ \A k \in Fresh(n) : i <= k) \in BOOLEAN
    OBVIOUS
  <1> QED
    BY <1>1, <1>2, BlankTypes DEF Rebuilt

LEMMA RegenerateTypes ==
  ASSUME NEW rows, Regenerate(rows)
  PROVE  part' \in [Parts -> PartRow]
  <1> DEFINE asking == {i \in Items : rows[i].live /\ rows[i].parts /\ rows[i].of = NoPart}
  <1>1. CASE asking = {}
    BY <1>1, DroppedTypes DEF Regenerate
  <1>2. CASE asking # {}
    <2>1. PICK p \in FreshPart({}), i \in asking :
            part' = [Dropped EXCEPT ![p] = [BlankPart EXCEPT !.status = "pending", !.item = i]]
      BY <1>2 DEF Regenerate
    <2>2. [BlankPart EXCEPT !.status = "pending", !.item = i] \in PartRow
      BY DEF BlankPart, PartRow, NoItem
    <2> QED
      BY <2>1, <2>2, DroppedTypes
  <1> QED
    BY <1>1, <1>2

-----------------------------------------------------------------------------

\* The steps that only read: the request remembers what it has read.
Reads(r) ==
  \/ RequestPartsRead(r)
  \/ \E n \in 1..MaxLines, withParts \in BOOLEAN : EditRead(r, n, withParts)
  \/ ShareRead(r) \/ StaffApproveRead(r)
  \/ OpenPage(r) \/ ApproveRead(r) \/ ModifyRead(r) \/ RejectRead(r)
  \/ \E p \in Parts : \/ \E at \in {"available", "unavailable"} : PartRead(r, p, at)
                      \/ \E to \in {"dispatched", "accepted", "pending"} : MoveRead(r, p, to)

LEMMA SetsOfLines == Live \subseteq Items /\ LiveParts \subseteq Parts /\ Unanswered \subseteq Parts /\ Asked \subseteq Items
  BY DEF Live, LiveParts, Unanswered, Asked

\* The advisor's reads.
LEMMA AdvisorReads ==
  ASSUME TypeOK, NEW r \in Advisors,
         \/ RequestPartsRead(r) \/ ShareRead(r) \/ StaffApproveRead(r)
         \/ \E n \in 1..MaxLines, withParts \in BOOLEAN : EditRead(r, n, withParts)
  PROVE  UNCHANGED <<card, item, part>> /\ req[r].at = "idle" /\ \E q : Becomes(r, q)
  <1>1. CASE RequestPartsRead(r) \/ ShareRead(r) \/ StaffApproveRead(r)
    <2>1. \A at \in {"request", "share", "staff"} :
            [Idle EXCEPT !.at = at] \in Request /\ SlotOf(r, [Idle EXCEPT !.at = at])
      BY ZenonT(40), IdleTypes DEF Idle, Request, SlotOf
    <2> QED
      BY <1>1, <2>1 DEF RequestPartsRead, ShareRead, StaffApproveRead, Begin, Becomes
  <1>2. CASE \E n \in 1..MaxLines, withParts \in BOOLEAN : EditRead(r, n, withParts)
    <2>1. PICK n \in 1..MaxLines, withParts \in BOOLEAN : EditRead(r, n, withParts)
      BY <1>2
    <2>2. card.status \in CardStatus /\ n \in 0..MaxLines
      BY EstimateAssumption DEF TypeOK, CardRow
    <2> DEFINE q == [Idle EXCEPT !.at = "edit", !.status = card.status, !.n = n,
                                 !.withParts = withParts]
    <2>3. q \in Request
      BY <2>2, IdleTypes DEF Idle, Request
    <2>4. card.status # "none" /\ ~IsEditLocked(card.status)
      BY <2>1 DEF EditRead
    <2>5. SlotOf(r, q)
      BY <2>2, <2>4 DEF Idle, SlotOf
    <2> QED
      BY <2>1, <2>3, <2>5 DEF EditRead, Begin, Becomes
  <1> QED
    BY <1>1, <1>2

\* The customer's.
LEMMA CustomerReads ==
  ASSUME TypeOK, NEW r \in Customers, OpenPage(r) \/ ApproveRead(r) \/ ModifyRead(r) \/ RejectRead(r)
  PROVE  UNCHANGED <<card, item, part>> /\ \E q : Becomes(r, q)
  <1>1. card.status \in CardStatus /\ card.link \in Links \cup {NoLink}
    BY DEF TypeOK, CardRow
  <1>2. CASE OpenPage(r)
    <2> DEFINE q == [Idle EXCEPT !.at = "page", !.link = card.link, !.list = Asked]
    <2>1. q \in Request /\ SlotOf(r, q)
      BY <1>1, IdleTypes, SetsOfLines DEF Idle, Request, SlotOf
    <2> QED
      BY <1>2, <2>1 DEF OpenPage, Begin, Becomes
  <1>3. CASE ApproveRead(r)
    <2>1. PICK list \in SUBSET req[r].list :
            Send(r, [Idle EXCEPT
                       !.at = "approve", !.supp = IsSupplementary(list), !.status = Outcome(list),
                       !.list = IF IsSupplementary(list) THEN list \cap Supplementary ELSE list,
                       !.all = Live])
      BY <1>3 DEF ApproveRead
    <2>2. list \subseteq Items
      BY DEF TypeOK, Request, Requests
    <2>3. IsSupplementary(list) \in BOOLEAN
      BY DEF IsSupplementary, TypeOK, CardRow
    <2>4. Outcome(list) \in {"SHARED", "MODIFICATION_REQUESTED", "APPROVED", "PARTIALLY_APPROVED"}
      BY <1>3 DEF Outcome, ApproveRead, Opens
    <2> DEFINE ticked == IF IsSupplementary(list) THEN list \cap Supplementary ELSE list
    <2>5. ticked \subseteq Items
      BY <2>2
    <2> HIDE DEF ticked
    <2> DEFINE q == [Idle EXCEPT !.at = "approve", !.supp = IsSupplementary(list),
                                 !.status = Outcome(list), !.list = ticked, !.all = Live]
    <2>6. q \in Request /\ SlotOf(r, q)
      BY ZenonT(40), <2>3, <2>4, <2>5, IdleTypes, SetsOfLines DEF Idle, Request, CardStatus, SlotOf
    <2> QED
      BY <1>3, <2>1, <2>6 DEF ApproveRead, Send, Becomes, ticked
  <1>4. CASE ModifyRead(r)
    <2>1. [Idle EXCEPT !.at = "modify"] \in Request /\ SlotOf(r, [Idle EXCEPT !.at = "modify"])
      BY IdleTypes DEF Idle, Request, SlotOf
    <2> QED
      BY <1>4, <2>1 DEF ModifyRead, Send, Becomes
  <1>5. CASE RejectRead(r)
    <2> DEFINE q == [Idle EXCEPT !.at = "reject", !.status = card.status, !.pend = Unanswered]
    <2>1. q \in Request /\ SlotOf(r, q)
      BY <1>1, IdleTypes, SetsOfLines DEF Idle, Request, SlotOf
    <2> QED
      BY <1>5, <2>1 DEF RejectRead, Send, Becomes
  <1> QED
    BY <1>2, <1>3, <1>4, <1>5

\* Those of the parts desk.
LEMMA DeskReads ==
  ASSUME TypeOK, NEW r \in PartsDesk, NEW p \in Parts,
         \/ \E at \in {"available", "unavailable"} : PartRead(r, p, at)
         \/ \E to \in {"dispatched", "accepted", "pending"} : MoveRead(r, p, to)
  PROVE  UNCHANGED <<card, item, part>> /\ req[r].at = "idle" /\ \E q : Becomes(r, q)
  <1>1. \A at \in {"available", "unavailable"} :
          /\ [Idle EXCEPT !.at = at, !.part = p] \in Request
          /\ SlotOf(r, [Idle EXCEPT !.at = at, !.part = p])
    BY ZenonT(40), IdleTypes DEF Idle, Request, SlotOf
  <1>2. \A to \in {"dispatched", "accepted", "pending"} :
          /\ [Idle EXCEPT !.at = "move", !.part = p, !.to = to] \in Request
          /\ SlotOf(r, [Idle EXCEPT !.at = "move", !.part = p, !.to = to])
    BY ZenonT(40), IdleTypes DEF Idle, Request, SlotOf
  <1>3. ASSUME NEW at \in {"available", "unavailable"}, PartRead(r, p, at)
        PROVE  UNCHANGED <<card, item, part>> /\ req[r].at = "idle" /\ \E q : Becomes(r, q)
    BY <1>1, <1>3 DEF PartRead, Begin, Becomes
  <1>4. ASSUME NEW to \in {"dispatched", "accepted", "pending"}, MoveRead(r, p, to)
        PROVE  UNCHANGED <<card, item, part>> /\ req[r].at = "idle" /\ \E q : Becomes(r, q)
    BY <1>2, <1>4 DEF MoveRead, Begin, Becomes
  <1> QED
    BY <1>3, <1>4

\* A step that only reads.
LEMMA ReadTypes ==
  ASSUME TypeOK, Slots, NEW r \in Requests, UNCHANGED <<card, item, part>>, \E q : Becomes(r, q)
  PROVE  TypeOK' /\ Slots'
  <1>1. req' \in [Requests -> Request] /\ Slots'
    BY BecomesTypes
  <1> QED
    BY <1>1 DEF TypeOK

\* The advisor's writes.
LEMMA AdvisorTypes ==
  ASSUME TypeOK, Slots, NEW r \in Advisors,
         RequestParts(r) \/ Edit(r) \/ Share(r) \/ StaffApprove(r)
  PROVE  TypeOK' /\ Slots'
  <1>1. r \in Requests
    BY DEF Requests
  <1>2. Finish(r)
    BY DEF RequestParts, Edit, Share, StaffApprove
  <1>3. req' \in [Requests -> Request] /\ Slots'
    BY <1>1, <1>2, FinishTypes, BecomesTypes
  <1>4. card' \in CardRow
    <2>1. CASE RequestParts(r)
      BY <2>1, CardTypes DEF RequestParts, CardStatus
    <2>2. CASE Edit(r)
      <3>1. Target(r) \in CardStatus
        BY DEF Target, CardStatus
      <3> DEFINE status == IF Target(r) = req[r].status THEN card.status ELSE Target(r)
                 link == IF Invalidates(r) THEN NoLink ELSE card.link
                 approved == IF Invalidates(r) THEN FALSE ELSE card.approved
      <3>2. card' = [card EXCEPT !.status = status, !.link = link, !.approved = approved]
        BY <2>2 DEF Edit
      <3>3. status \in CardStatus /\ link \in Links \cup {NoLink} /\ approved \in BOOLEAN
        BY <3>1 DEF TypeOK, CardRow
      <3> HIDE DEF status, link, approved
      <3> QED
        BY <3>2, <3>3 DEF TypeOK, CardRow
    <2>3. CASE Share(r)
      BY <2>3, FreshTypes DEF Share, TypeOK, CardRow, CardStatus
    <2>4. CASE StaffApprove(r)
      BY <2>4 DEF StaffApprove, TypeOK, CardRow, CardStatus
    <2> QED
      BY <2>1, <2>2, <2>3, <2>4
  <1>5. item' \in [Items -> ItemRow]
    <2>1. CASE Edit(r)
      <3>1. req[r].withParts \in BOOLEAN
        BY <1>1 DEF TypeOK, Request
      <3> QED
        BY <2>1, <3>1, RebuiltTypes DEF Edit
    <2>2. CASE Share(r)
      <3>1. \A i \in Items : [item[i] EXCEPT !.asked = item[i].live /\ item[i].of = NoPart] \in ItemRow
        BY DEF TypeOK, ItemRow
      <3> QED
        BY <2>2, <3>1 DEF Share
    <2>3. CASE RequestParts(r) \/ StaffApprove(r)
      BY <2>3 DEF RequestParts, StaffApprove, TypeOK
    <2> QED
      BY <2>1, <2>2, <2>3
  <1>6. part' \in [Parts -> PartRow]
    <2>1. CASE Edit(r)
      BY <2>1, RegenerateTypes, DroppedTypes DEF Edit
    <2>2. CASE RequestParts(r)
      BY <2>2, RegenerateTypes DEF RequestParts
    <2>3. CASE Share(r) \/ StaffApprove(r)
      BY <2>3 DEF Share, StaffApprove, TypeOK
    <2> QED
      BY <2>1, <2>2, <2>3
  <1> QED
    BY <1>3, <1>4, <1>5, <1>6 DEF TypeOK

\* The customer's answers.
LEMMA CustomerTypes ==
  ASSUME TypeOK, Slots, NEW r \in Customers,
         Approve(r) \/ Modify(r) \/ RejectEstimate(r) \/ RejectExtra(r)
  PROVE  TypeOK' /\ Slots'
  <1>1. r \in Requests
    BY DEF Requests
  <1>2. Finish(r)
    BY DEF Approve, Modify, RejectEstimate, RejectExtra
  <1>3. req' \in [Requests -> Request] /\ Slots'
    BY <1>1, <1>2, FinishTypes, BecomesTypes
  <1>4. card' \in CardRow
    <2>1. CASE Approve(r)
      <3>1. req[r].status \in CardStatus /\ (card.approved \/ ~req[r].supp) \in BOOLEAN
        BY <1>1 DEF TypeOK, Request, CardRow
      <3> QED
        BY <2>1, <3>1 DEF Approve, TypeOK, CardRow
    <2>2. CASE Modify(r) \/ RejectEstimate(r) \/ RejectExtra(r)
      BY <2>2, CardTypes DEF Modify, RejectEstimate, RejectExtra, CardStatus
    <2> QED
      BY <2>1, <2>2
  <1>5. item' \in [Items -> ItemRow]
    <2>1. CASE Approve(r)
      <3>1. \A i \in Items : Answer(r, i) \in Answers
        BY DEF Answer, Answers, TypeOK, ItemRow
      <3>2. \A i \in Items : Answered(i, Answer(r, i)) \in ItemRow
        BY <3>1, AnsweredTypes
      <3>3. ASSUME NEW i \in Items
            PROVE  [Answered(i, Answer(r, i)) EXCEPT
                      !.assigned = @ \/ i \in {part[p].line : p \in Unanswered}] \in ItemRow
        <4> DEFINE row == Answered(i, Answer(r, i))
        <4>1. row \in ItemRow /\ \A b \in BOOLEAN : [row EXCEPT !.assigned = b] \in ItemRow
          BY <3>2 DEF ItemRow
        <4>2. (row.assigned \/ i \in {part[p].line : p \in Unanswered}) \in BOOLEAN
          OBVIOUS
        <4> HIDE DEF row
        <4>3. [row EXCEPT !.assigned = @ \/ i \in {part[p].line : p \in Unanswered}] \in ItemRow
          BY <4>1, <4>2
        <4> QED
          BY <4>3 DEF row
      <3> QED
        BY <2>1, <3>3 DEF Approve, TypeOK
    <2>2. CASE RejectExtra(r)
      <3>1. \A i \in Items : Answered(i, "no") \in ItemRow
        BY AnsweredTypes DEF Answers
      <3> QED
        BY <2>2, <3>1 DEF RejectExtra, TypeOK
    <2>3. CASE Modify(r) \/ RejectEstimate(r)
      BY <2>3 DEF Modify, RejectEstimate, TypeOK
    <2> QED
      BY <2>1, <2>2, <2>3
  <1>6. part' \in [Parts -> PartRow]
    <2>1. \A p \in Parts, answer \in {"APPROVED", "REJECTED"} :
            [part[p] EXCEPT !.answer = answer] \in PartRow
      BY DEF TypeOK, PartRow
    <2> QED
      BY ZenonT(40), <2>1 DEF Approve, Modify, RejectEstimate, RejectExtra, TypeOK
  <1> QED
    BY <1>3, <1>4, <1>5, <1>6 DEF TypeOK

\* A request of the parts desk that goes on to its next step.
LEMMA NextAtDesk ==
  ASSUME TypeOK, Slots, NEW r \in PartsDesk, NEW p \in Parts \cup {NoPart},
         NEW at \in {"addLine", "count", "confirm"}, at = "addLine" => p \in Parts
  PROVE  Becomes(r, [req[r] EXCEPT !.at = at, !.part = p])
           <=> req' = [req EXCEPT ![r] = [req[r] EXCEPT !.at = at, !.part = p]]
  <1>1. req[r] \in Request
    BY DEF TypeOK, Requests
  <1>2. [req[r] EXCEPT !.at = at, !.part = p] \in Request
    BY <1>1 DEF Request
  <1>3. SlotOf(r, [req[r] EXCEPT !.at = at, !.part = p])
    BY <1>1 DEF SlotOf, Request
  <1> QED
    BY <1>2, <1>3 DEF Becomes

\* The steps of the parts desk.
LEMMA DeskTypes ==
  ASSUME TypeOK, Slots, NEW r \in PartsDesk,
         \/ MarkAvailable(r) \/ AddLine(r) \/ MarkUnavailable(r) \/ Count(r) \/ Confirm(r)
         \/ Move(r)
  PROVE  TypeOK' /\ Slots'
  <1>1. r \in Requests
    BY DEF Requests
  <1>2. Slots' /\ req' \in [Requests -> Request]
    <2>1. CASE AddLine(r) \/ Confirm(r) \/ Move(r)
      <3>1. Finish(r)
        BY <2>1 DEF AddLine, Confirm, Move
      <3> QED
        BY <1>1, <3>1, FinishTypes, BecomesTypes
    <2>2. CASE MarkAvailable(r)
      <3> DEFINE p == req[r].part
                 at == IF part[p].tech THEN "addLine" ELSE "count"
                 next == IF part[p].tech THEN p ELSE NoPart
      <3>1. p \in Parts
        BY <1>1, <2>2 DEF MarkAvailable, Slots, SlotOf
      <3>2. req' = [req EXCEPT ![r] = [req[r] EXCEPT !.at = at, !.part = next]]
        BY <1>1, <2>2 DEF MarkAvailable, TypeOK
      <3>3. at \in {"addLine", "count", "confirm"} /\ next \in Parts \cup {NoPart}
              /\ (at = "addLine" => next \in Parts)
        BY <3>1
      <3> HIDE DEF at, next
      <3>4. Becomes(r, [req[r] EXCEPT !.at = at, !.part = next])
        BY <3>2, <3>3, NextAtDesk
      <3> QED
        BY <1>1, <3>4, BecomesTypes
    <2>3. CASE MarkUnavailable(r)
      <3>1. req' = [req EXCEPT ![r] = [req[r] EXCEPT !.at = "count", !.part = NoPart]]
        BY <1>1, <2>3 DEF MarkUnavailable, TypeOK
      <3>2. Becomes(r, [req[r] EXCEPT !.at = "count", !.part = NoPart])
        BY <3>1, NextAtDesk
      <3> QED
        BY <1>1, <3>2, BecomesTypes
    <2>4. CASE Count(r)
      <3>1. CASE Finish(r)
        BY <1>1, <3>1, FinishTypes, BecomesTypes
      <3>2. CASE req' = [req EXCEPT ![r].at = "confirm"]
        <4>1. req[r] \in Request
          BY <1>1 DEF TypeOK
        <4>2. req' = [req EXCEPT ![r] = [req[r] EXCEPT !.at = "confirm", !.part = req[r].part]]
          BY <1>1, <3>2, <4>1 DEF TypeOK, Request
        <4>3. req[r].part \in Parts \cup {NoPart}
          BY <4>1 DEF Request
        <4>4. Becomes(r, [req[r] EXCEPT !.at = "confirm", !.part = req[r].part])
          BY <4>2, <4>3, NextAtDesk
        <4> QED
          BY <1>1, <4>4, BecomesTypes
      <3> QED
        BY <2>4, <3>1, <3>2 DEF Count
    <2> QED
      BY <2>1, <2>2, <2>3, <2>4
  <1>3. card' \in CardRow
    <2>1. \A s \in {"MODIFICATION_REQUESTED", "PARTS_CONFIRMED"} : [card EXCEPT !.status = s] \in CardRow
      BY CardTypes DEF CardStatus
    <2> QED
      BY <2>1 DEF TypeOK, MarkAvailable, AddLine, MarkUnavailable, Count, Confirm, Move
  <1>4. item' \in [Items -> ItemRow]
    <2>1. CASE AddLine(r)
      <3>1. PICK i \in Fresh(1) :
              item' = [item EXCEPT ![i] = [BlankItem EXCEPT !.live = TRUE, !.parts = TRUE,
                                                            !.of = req[r].part]]
        BY <2>1 DEF AddLine
      <3>2. req[r].part \in Parts
        BY <1>1, <2>1 DEF AddLine, Slots, SlotOf
      <3>3. [BlankItem EXCEPT !.live = TRUE, !.parts = TRUE, !.of = req[r].part] \in ItemRow
        BY <3>2 DEF BlankItem, ItemRow
      <3> QED
        BY <3>1, <3>3 DEF TypeOK
    <2>2. CASE ~AddLine(r)
      BY <2>2 DEF TypeOK, MarkAvailable, MarkUnavailable, Count, Confirm, Move
    <2> QED
      BY <2>1, <2>2
  <1>5. part' \in [Parts -> PartRow]
    <2> DEFINE p == req[r].part
    <2>1. CASE part' = part
      BY <2>1 DEF TypeOK
    <2>2. CASE p \in LiveParts /\ MarkAvailable(r)
      <3>1. p \in Parts /\ part[p] \in PartRow
        BY <2>2 DEF LiveParts, TypeOK
      <3> DEFINE answer == IF part[p].tech THEN "PENDING" ELSE "NOT_REQUIRED"
      <3>2. part' = [part EXCEPT ![p] = [part[p] EXCEPT !.status = "available", !.answer = answer, !.cut = FALSE]]
        BY <2>2, <3>1 DEF MarkAvailable, TypeOK
      <3>3. [part[p] EXCEPT !.status = "available", !.answer = answer, !.cut = FALSE] \in PartRow
        BY <3>1 DEF PartRow
      <3> QED
        BY <3>2, <3>3 DEF TypeOK
    <2>3. CASE p \in LiveParts /\ AddLine(r)
      <3>1. p \in Parts /\ part[p] \in PartRow
        BY <2>3 DEF LiveParts, TypeOK
      <3>2. PICK i \in Fresh(1) :
              part' = [part EXCEPT ![p].item = i, ![p].line = i, ![p].cut = FALSE]
        BY <2>3 DEF AddLine
      <3>3. part' = [part EXCEPT ![p] = [part[p] EXCEPT !.item = i, !.line = i, !.cut = FALSE]]
        BY <3>1, <3>2 DEF TypeOK
      <3>4. i \in Items
        BY FreshTypes
      <3>5. [part[p] EXCEPT !.item = i, !.line = i, !.cut = FALSE] \in PartRow
        BY <3>1, <3>4 DEF PartRow
      <3> QED
        BY <3>3, <3>5 DEF TypeOK
    <2>4. CASE p \in LiveParts /\ MarkUnavailable(r)
      BY <2>4, PartTypes DEF MarkUnavailable, LiveParts
    <2>5. CASE p \in LiveParts /\ Move(r)
      <3>1. req[r].to \in {"dispatched", "accepted", "pending"}
        BY <1>1, <2>5 DEF Move, Slots, SlotOf
      <3> QED
        BY <2>5, <3>1, PartTypes DEF Move, LiveParts
    <2>6. CASE p \notin LiveParts
      <3>1. part' = part
        BY <2>6 DEF MarkAvailable, AddLine, MarkUnavailable, Count, Confirm, Move
      <3> QED
        BY <2>1, <3>1
    <2>7. CASE Count(r) \/ Confirm(r)
      BY <2>1, <2>7 DEF Count, Confirm
    <2> QED
      BY <2>2, <2>3, <2>4, <2>5, <2>6, <2>7
  <1> QED
    BY <1>2, <1>3, <1>4, <1>5 DEF TypeOK

\* The card, and the work as far as it meets the estimate.
LEMMA WorkTypes ==
  ASSUME TypeOK, Slots,
         \/ \E n \in 1..MaxLines, withParts \in BOOLEAN : CreateJobCard(n, withParts)
         \/ StartWork
         \/ \E i \in Items : RequestExtraParts(i) \/ Assign(i) \/ CompleteItem(i)
  PROVE  TypeOK' /\ Slots'
  <1>1. req' = req
    BY DEF CreateJobCard, StartWork, RequestExtraParts, Assign, CompleteItem
  <1>2. Slots'
    BY <1>1 DEF Slots, SlotOf, IsEditLocked
  <1>3. card' \in CardRow
    <2>1. \A s \in {"DRAFT", "IN_PROGRESS", "FOREMAN_REVIEW"} : [card EXCEPT !.status = s] \in CardRow
      BY CardTypes DEF CardStatus
    <2> QED
      BY <2>1 DEF CreateJobCard, StartWork, RequestExtraParts, Assign, CompleteItem, TypeOK
  <1>4. item' \in [Items -> ItemRow]
    <2>1. CASE \E n \in 1..MaxLines, withParts \in BOOLEAN : CreateJobCard(n, withParts)
      BY <2>1, RebuiltTypes DEF CreateJobCard
    <2>2. CASE StartWork
      BY <2>2 DEF StartWork, TypeOK
    <2>3. ASSUME NEW i \in Items, RequestExtraParts(i) \/ Assign(i) \/ CompleteItem(i)
          PROVE  item' \in [Items -> ItemRow]
      <3>1. [item[i] EXCEPT !.assigned = TRUE] \in ItemRow /\ [item[i] EXCEPT !.done = TRUE] \in ItemRow
        BY DEF TypeOK, ItemRow
      <3> QED
        BY <2>3, <3>1 DEF RequestExtraParts, Assign, CompleteItem, TypeOK
    <2> QED
      BY <2>1, <2>2, <2>3
  <1>5. part' \in [Parts -> PartRow]
    <2>1. ASSUME NEW i \in Items, RequestExtraParts(i)
          PROVE  part' \in [Parts -> PartRow]
      <3>1. PICK p \in FreshPart(LiveParts) :
              part' = [part EXCEPT ![p] = [BlankPart EXCEPT !.status = "pending", !.tech = TRUE,
                                                            !.item = i]]
        BY <2>1 DEF RequestExtraParts
      <3>2. [BlankPart EXCEPT !.status = "pending", !.tech = TRUE, !.item = i] \in PartRow
        BY DEF BlankPart, PartRow, NoItem
      <3> QED
        BY <3>1, <3>2 DEF TypeOK
    <2> QED
      BY <2>1 DEF CreateJobCard, StartWork, Assign, CompleteItem, TypeOK
  <1> QED
    BY <1>1, <1>2, <1>3, <1>4, <1>5 DEF TypeOK

\* The steps of the system, by what they write.
LEMMA StepIs ==
  ASSUME Next
  PROVE  \/ \E n \in 1..MaxLines, withParts \in BOOLEAN : CreateJobCard(n, withParts)
         \/ StartWork
         \/ \E i \in Items : RequestExtraParts(i) \/ Assign(i) \/ CompleteItem(i)
         \/ \E r \in Advisors :
              \/ RequestPartsRead(r) \/ ShareRead(r) \/ StaffApproveRead(r)
              \/ \E n \in 1..MaxLines, withParts \in BOOLEAN : EditRead(r, n, withParts)
         \/ \E r \in Advisors : RequestParts(r) \/ Edit(r) \/ Share(r) \/ StaffApprove(r)
         \/ \E r \in Customers : OpenPage(r) \/ ApproveRead(r) \/ ModifyRead(r) \/ RejectRead(r)
         \/ \E r \in Customers : Approve(r) \/ Modify(r) \/ RejectEstimate(r) \/ RejectExtra(r)
         \/ \E r \in PartsDesk, p \in Parts :
              \/ \E at \in {"available", "unavailable"} : PartRead(r, p, at)
              \/ \E to \in {"dispatched", "accepted", "pending"} : MoveRead(r, p, to)
         \/ \E r \in PartsDesk :
              \/ MarkAvailable(r) \/ AddLine(r) \/ MarkUnavailable(r) \/ Count(r) \/ Confirm(r)
              \/ Move(r)
         \/ \E r \in Requests : Fail(r)
  BY DEF Next, AdvisorStep, CustomerStep, PartsStep

\* A request that stops leaves all but itself and the mark on a part without its line.
LEMMA FailLeaves ==
  ASSUME TypeOK, NEW r \in Requests, Fail(r)
  PROVE  /\ card' = card /\ item' = item /\ Live' = Live /\ LiveParts' = LiveParts
         /\ req' = [req EXCEPT ![r] = Idle] /\ req[r].at # "idle"
         /\ part' \in [Parts -> PartRow]
         /\ \A p \in Parts :
              /\ part'[p].status = part[p].status /\ part'[p].tech = part[p].tech
              /\ part'[p].item = part[p].item /\ part'[p].line = part[p].line
              /\ part'[p].answer = part[p].answer /\ (part[p].cut => part'[p].cut)
              /\ req[r].at = "addLine" /\ req[r].part = p /\ p \in LiveParts => part'[p].cut
         /\ req[r].at # "addLine" => part' = part
  <1>1. /\ card' = card /\ item' = item /\ req' = [req EXCEPT ![r] = Idle] /\ req[r].at # "idle"
        /\ part' = IF req[r].at = "addLine" /\ req[r].part \in LiveParts
                     THEN [part EXCEPT ![req[r].part].cut = TRUE] ELSE part
    BY DEF Fail, Finish
  <1>2. Live' = Live
    BY <1>1 DEF Live
  <1>3. CASE part' = part
    <2>1. LiveParts' = LiveParts
      BY <1>3 DEF LiveParts
    <2>2. ASSUME req[r].at = "addLine", req[r].part \in LiveParts
          PROVE  part'[req[r].part].cut
      <3>1. req[r].part \in Parts
        BY <2>2 DEF LiveParts
      <3> QED
        BY <1>1, <2>2, <3>1 DEF TypeOK, PartRow
    <2> QED
      BY <1>1, <1>2, <1>3, <2>1, <2>2 DEF TypeOK
  <1>4. ASSUME NEW p \in LiveParts, p = req[r].part, req[r].at = "addLine",
               part' = [part EXCEPT ![p].cut = TRUE]
        PROVE  /\ LiveParts' = LiveParts /\ part' \in [Parts -> PartRow]
               /\ \A q \in Parts :
                    /\ part'[q].status = part[q].status /\ part'[q].tech = part[q].tech
                    /\ part'[q].item = part[q].item /\ part'[q].line = part[q].line
                    /\ part'[q].answer = part[q].answer /\ (part[q].cut => part'[q].cut)
                    /\ req[r].part = q => part'[q].cut
    <2>1. p \in Parts /\ part[p] \in PartRow
      BY <1>4 DEF LiveParts, TypeOK
    <2>2. part' = [part EXCEPT ![p] = [part[p] EXCEPT !.cut = TRUE]]
      BY <1>4, <2>1 DEF TypeOK
    <2>3. [part[p] EXCEPT !.cut = TRUE] \in PartRow
      BY <2>1 DEF PartRow
    <2>4. part'[p] = [part[p] EXCEPT !.cut = TRUE] /\ \A q \in Parts : q # p => part'[q] = part[q]
      BY <2>1, <2>2 DEF TypeOK
    <2>5. /\ part'[p].status = part[p].status /\ part'[p].tech = part[p].tech
          /\ part'[p].item = part[p].item /\ part'[p].line = part[p].line
          /\ part'[p].answer = part[p].answer /\ part'[p].cut
      BY <2>1, <2>4 DEF PartRow
    <2>6. part' \in [Parts -> PartRow]
      BY <2>2, <2>3 DEF TypeOK
    <2>7. LiveParts' = LiveParts
      BY <2>4, <2>5 DEF LiveParts
    <2> QED
      BY <1>4, <2>4, <2>5, <2>6, <2>7
  <1> QED
    BY <1>1, <1>2, <1>3, <1>4

LEMMA StepTypes == TypeOK /\ Slots /\ [Next]_vars => TypeOK' /\ Slots'
  <1> SUFFICES ASSUME TypeOK, Slots, [Next]_vars
               PROVE  TypeOK' /\ Slots'
    OBVIOUS
  <1>1. CASE UNCHANGED vars
    BY <1>1 DEF vars, TypeOK, Slots, SlotOf, IsEditLocked
  <1>2. CASE Next
    <2>1. Advisors \subseteq Requests /\ Customers \subseteq Requests /\ PartsDesk \subseteq Requests
      BY DEF Requests
    <2>2. ASSUME NEW r \in Requests, Fail(r)
          PROVE  TypeOK' /\ Slots'
      <3>1. Becomes(r, Idle)
        BY <2>2, FinishTypes DEF Fail
      <3>2. req' \in [Requests -> Request] /\ Slots'
        BY <2>2, <3>1, BecomesTypes
      <3> QED
        BY <2>2, <3>2, FailLeaves DEF TypeOK
    <2> QED
      BY <1>2, <2>1, <2>2, StepIs, WorkTypes, AdvisorTypes, CustomerTypes, DeskTypes, ReadTypes,
         AdvisorReads, CustomerReads, DeskReads
  <1> QED
    BY <1>1, <1>2

LEMMA InitTypes == Init => TypeOK /\ Slots
  <1> SUFFICES ASSUME Init
               PROVE  TypeOK /\ Slots
    OBVIOUS
  <1>1. TypeOK
    BY IdleTypes, BlankTypes DEF Init, TypeOK, CardRow, CardStatus, NoLink
  <1>2. Slots
    BY IdleTypes DEF Init, Slots
  <1> QED
    BY <1>1, <1>2

(* The card, its lines, its part requests and the requests in flight keep their types,
   whatever the advisor, the customer, the parts manager and the technician do to them. *)
THEOREM EstimateTypes == Spec => []TypeOK
  <1>1. TypeOK /\ Slots /\ [Next]_vars => (TypeOK /\ Slots)'
    BY StepTypes
  <1> QED
    BY <1>1, InitTypes, PTL DEF Spec

-----------------------------------------------------------------------------
(***************************************************************************)
(* What is handed to the foreman is answered.                              *)
(***************************************************************************)

(* Before there is a job card there is nothing. *)
Blank ==
  card.status = "none" =>
    /\ card.link = NoLink /\ Live = {} /\ LiveParts = {}
    /\ \A r \in Requests : req[r].at = "idle"

(* An extra part whose price the customer has not answered is on its way to its line, or
   was stopped there, or belongs to a line of the card that is not done: CompleteItem looks
   at the item of the part, so this is what its check relies on. *)
Followed ==
  \A p \in Unanswered :
    Coming(p) \/ part[p].cut \/ (part[p].item \in Live /\ ~item[part[p].item].done)

FollowInv == TypeOK /\ Slots /\ Blank /\ Followed

\* The one step that is possible before there is a card makes one; none takes it away.
LEMMA CardStays ==
  ASSUME TypeOK, Slots, Blank, Next
  PROVE  /\ card'.status # "none"
         /\ card.status = "none" =>
              \E n \in 1..MaxLines, withParts \in BOOLEAN : CreateJobCard(n, withParts)
  <1>1. \A r : r \in Advisors \cup Customers \cup PartsDesk => r \in Requests
    BY DEF Requests
  <1>2. CASE \E n \in 1..MaxLines, withParts \in BOOLEAN : CreateJobCard(n, withParts)
    BY <1>2 DEF CreateJobCard, TypeOK, CardRow
  <1>3. CASE StartWork
    BY <1>3 DEF StartWork, TypeOK, CardRow
  <1>4. ASSUME NEW i \in Items, RequestExtraParts(i) \/ Assign(i) \/ CompleteItem(i)
        PROVE  card'.status # "none" /\ card.status # "none"
    <2>1. card.status # "none"
      BY <1>4 DEF RequestExtraParts, Assign, CompleteItem, Blank
    <2> QED
      BY <1>4, <2>1 DEF RequestExtraParts, Assign, CompleteItem, TypeOK, CardRow
  <1>6. ASSUME NEW r \in Advisors,
               \/ RequestPartsRead(r) \/ ShareRead(r) \/ StaffApproveRead(r)
               \/ \E n \in 1..MaxLines, withParts \in BOOLEAN : EditRead(r, n, withParts)
        PROVE  card'.status # "none" /\ card.status # "none"
    BY <1>6 DEF RequestPartsRead, ShareRead, StaffApproveRead, EditRead
  <1>7. ASSUME NEW r \in Advisors, RequestParts(r) \/ Edit(r) \/ Share(r) \/ StaffApprove(r)
        PROVE  card'.status # "none" /\ card.status # "none"
    <2>1. card.status # "none"
      BY <1>1, <1>7 DEF RequestParts, Edit, Share, StaffApprove, Blank
    <2>2. Target(r) # "none"
      BY <1>1 DEF Target, Slots, SlotOf
    <2> QED
      BY <1>7, <2>1, <2>2 DEF RequestParts, Edit, Share, StaffApprove, TypeOK, CardRow
  <1>8. ASSUME NEW r \in Customers, OpenPage(r) \/ ApproveRead(r) \/ ModifyRead(r) \/ RejectRead(r)
        PROVE  card'.status # "none" /\ card.status # "none"
    BY <1>8 DEF OpenPage, ApproveRead, ModifyRead, RejectRead, Opens, Blank
  <1>9. ASSUME NEW r \in Customers, Approve(r) \/ Modify(r) \/ RejectEstimate(r) \/ RejectExtra(r)
        PROVE  card'.status # "none" /\ card.status # "none"
    <2>1. card.status # "none"
      BY <1>1, <1>9 DEF Approve, Modify, RejectEstimate, RejectExtra, Blank
    <2>2. req[r].at = "approve" => req[r].status # "none"
      BY <1>1 DEF Slots, SlotOf
    <2> QED
      BY <1>9, <2>1, <2>2 DEF Approve, Modify, RejectEstimate, RejectExtra, TypeOK, CardRow
  <1>10. ASSUME NEW r \in PartsDesk, NEW p \in Parts,
                \/ \E at \in {"available", "unavailable"} : PartRead(r, p, at)
                \/ \E to \in {"dispatched", "accepted", "pending"} : MoveRead(r, p, to)
         PROVE  card'.status # "none" /\ card.status # "none"
    <2>1. card' = card /\ part[p].status # "unused"
      BY <1>10 DEF PartRead, MoveRead
    <2> QED
      BY <2>1 DEF Blank, LiveParts
  <1>11. ASSUME NEW r \in PartsDesk,
                \/ MarkAvailable(r) \/ AddLine(r) \/ MarkUnavailable(r) \/ Count(r)
                \/ Confirm(r) \/ Move(r)
         PROVE  card'.status # "none" /\ card.status # "none"
    <2>1. card.status # "none"
      BY <1>1, <1>11 DEF MarkAvailable, AddLine, MarkUnavailable, Count, Confirm, Move, Blank
    <2> QED
      BY <1>11, <2>1
      DEF MarkAvailable, AddLine, MarkUnavailable, Count, Confirm, Move, TypeOK, CardRow
  <1>12. ASSUME NEW r \in Requests, Fail(r)
         PROVE  card'.status # "none" /\ card.status # "none"
    BY <1>12 DEF Fail, Blank
  <1> QED
    BY StepIs, <1>2, <1>3, <1>4, <1>6, <1>7, <1>8, <1>9, <1>10, <1>11, <1>12

\* A line on its way to the card keeps coming while its request does not move.
LEMMA StillComing ==
  ASSUME TypeOK, NEW r \in Requests, NEW q, req[r].at # "addLine" \/ q = req[r],
         req' = [req EXCEPT ![r] = q]
  PROVE  \A p : Coming(p) => Coming(p)'
  <1> SUFFICES ASSUME NEW p, NEW s \in PartsDesk, req[s].at = "addLine", req[s].part = p
               PROVE  Coming(p)'
    BY DEF Coming
  <1>1. s \in Requests
    BY DEF Requests
  <1>2. req'[s] = req[s]
    BY <1>1 DEF TypeOK
  <1> QED
    BY <1>2 DEF Coming

\* Nothing is followed less when lines stay and no part waits that did not.
LEMMA FollowFrame ==
  ASSUME Followed, \A p : Coming(p) => Coming(p)',
         \A i \in Live : i \in Live' /\ item'[i].done = item[i].done,
         \A p \in Unanswered' : /\ p \in Unanswered /\ part'[p].item = part[p].item
                                /\ part[p].cut => part'[p].cut
  PROVE  Followed'
  BY DEF Followed

\* What a list of lines written anew asks the customer about: nothing.
LEMMA NothingAsked ==
  ASSUME part' = Dropped \/ \E rows : Regenerate(rows)
  PROVE  Unanswered' = {}
  <1>1. \A p \in Parts : Dropped[p] = BlankPart
    BY DEF Dropped
  <1>2. CASE part' = Dropped
    BY <1>1, <1>2 DEF Unanswered, LiveParts, BlankPart
  <1>3. ASSUME NEW rows, Regenerate(rows), part' # Dropped
        PROVE  Unanswered' = {}
    <2>1. PICK p \in FreshPart({}), i \in Items :
            part' = [Dropped EXCEPT ![p] = [BlankPart EXCEPT !.status = "pending", !.item = i]]
      BY <1>3 DEF Regenerate
    <2>2. \A q \in Parts : part'[q].answer = "NOT_REQUIRED"
      BY <1>1, <2>1, DroppedTypes DEF BlankPart
    <2> QED
      BY <2>2 DEF Unanswered, LiveParts
  <1> QED
    BY <1>2, <1>3

LEMMA FollowedByAdvisor ==
  ASSUME FollowInv, NEW r \in Advisors,
         RequestParts(r) \/ Edit(r) \/ Share(r) \/ StaffApprove(r)
  PROVE  Followed'
  <1>1. r \in Requests /\ req' = [req EXCEPT ![r] = Idle] /\ req[r].at # "addLine"
    BY DEF Requests, RequestParts, Edit, Share, StaffApprove, Finish
  <1>2. \A p : Coming(p) => Coming(p)'
    BY <1>1, StillComing DEF FollowInv
  <1>3. CASE RequestParts(r)
    BY <1>3, NothingAsked DEF RequestParts, Followed
  <1>4. CASE Edit(r)
    BY <1>4, NothingAsked DEF Edit, Followed
  <1>5. CASE Share(r)
    <2>1. \A i \in Items : item[i] \in ItemRow
      BY DEF FollowInv, TypeOK
    <2>3. \A i \in Items : item'[i] = [item[i] EXCEPT !.asked = item[i].live /\ item[i].of = NoPart]
      BY <1>5 DEF Share
    <2>4. \A i \in Items : item'[i].live = item[i].live /\ item'[i].done = item[i].done
      BY <2>1, <2>3 DEF ItemRow
    <2>2. Unanswered' = Unanswered /\ part' = part
      BY <1>5 DEF Share, Unanswered, LiveParts
    <2> QED
      BY <1>2, <2>2, <2>4, FollowFrame DEF FollowInv, Live
  <1>6. CASE StaffApprove(r)
    <2>1. Unanswered' = Unanswered /\ part' = part /\ Live' = Live /\ item' = item
      BY <1>6 DEF StaffApprove, Unanswered, LiveParts, Live
    <2> QED
      BY <1>2, <2>1, FollowFrame DEF FollowInv
  <1> QED
    BY <1>3, <1>4, <1>5, <1>6

LEMMA FollowedByCustomer ==
  ASSUME FollowInv, NEW r \in Customers,
         Approve(r) \/ Modify(r) \/ RejectEstimate(r) \/ RejectExtra(r)
  PROVE  Followed'
  <1>1. r \in Requests /\ req' = [req EXCEPT ![r] = Idle] /\ req[r].at # "addLine"
    BY DEF Requests, Approve, Modify, RejectEstimate, RejectExtra, Finish
  <1>2. \A p : Coming(p) => Coming(p)'
    BY <1>1, StillComing DEF FollowInv
  <1>3. \A answer : \A i \in Items : /\ Answered(i, answer).live = item[i].live
                                     /\ Answered(i, answer).done = item[i].done
    BY DEF Answered, FollowInv, TypeOK, ItemRow
  <1>4. \A i \in Live : i \in Live' /\ item'[i].done = item[i].done
    <2>1. CASE Approve(r)
      <3>1. \A i \in Live : item'[i] = [Answered(i, Answer(r, i)) EXCEPT
                                          !.assigned = @ \/ i \in {part[p].line : p \in Unanswered}]
        BY <2>1 DEF Approve, Live
      <3>2. \A i \in Live : item'[i].live = item[i].live /\ item'[i].done = item[i].done
        <4> TAKE i \in Live
        <4>1. Answered(i, Answer(r, i)) \in ItemRow
          <5>1. Answer(r, i) \in Answers
            BY DEF Answer, Answers, FollowInv, TypeOK, ItemRow, Live
          <5> QED
            BY <5>1, AnsweredTypes DEF FollowInv, Live
        <4>2. i \in Items
          BY DEF Live
        <4> DEFINE row == Answered(i, Answer(r, i))
        <4>3. row.live = item[i].live /\ row.done = item[i].done
          BY <1>3, <4>2
        <4>4. item'[i] = [row EXCEPT !.assigned = @ \/ i \in {part[p].line : p \in Unanswered}]
          BY <3>1
        <4>5. row \in ItemRow
          BY <4>1
        <4> HIDE DEF row
        <4> QED
          BY <4>3, <4>4, <4>5 DEF ItemRow
      <3> QED
        BY <3>2 DEF Live
    <2>2. CASE RejectExtra(r)
      BY <1>3, <2>2 DEF RejectExtra, Live
    <2>3. CASE Modify(r) \/ RejectEstimate(r)
      BY <2>3 DEF Modify, RejectEstimate, Live
    <2> QED
      BY <2>1, <2>2, <2>3
  <1>5. \A p \in Unanswered' : /\ p \in Unanswered /\ part'[p].item = part[p].item
                               /\ part[p].cut => part'[p].cut
    <2>1. \A p \in Parts : /\ part'[p].status = part[p].status /\ part'[p].item = part[p].item
                           /\ part'[p].cut = part[p].cut
                           /\ part'[p].answer \in {part[p].answer, "APPROVED", "REJECTED"}
      BY DEF Approve, Modify, RejectEstimate, RejectExtra, FollowInv, TypeOK, PartRow
    <2> QED
      BY <2>1 DEF Unanswered, LiveParts
  <1> QED
    BY <1>2, <1>4, <1>5, FollowFrame DEF FollowInv

\* Part p keeps all but its status; another one than the request's keeps that too, and a
\* price for the customer to answer comes with MarkAvailable.
Keeps(r, p) ==
  /\ part'[p].item = part[p].item /\ part'[p].line = part[p].line /\ part'[p].tech = part[p].tech
  /\ p # req[r].part => part'[p] = part[p]
  /\ IF MarkAvailable(r) /\ p = req[r].part /\ p \in LiveParts
       THEN part'[p].answer = IF part[p].tech THEN "PENDING" ELSE "NOT_REQUIRED"
       ELSE part'[p].answer = part[p].answer /\ part'[p].cut = part[p].cut

\* The steps of the parts desk on a part in the list; on another they write nothing there.
LEMMA PartOfStep ==
  ASSUME TypeOK, Slots, NEW r \in PartsDesk,
         MarkAvailable(r) \/ MarkUnavailable(r) \/ Count(r) \/ Confirm(r) \/ Move(r)
  PROVE  /\ item' = item
         /\ LiveParts' = LiveParts
         /\ \A p \in Parts : Keeps(r, p)
  <1>1. r \in Requests /\ item' = item
    BY DEF Requests, MarkAvailable, MarkUnavailable, Count, Confirm, Move
  <1>2. \A p \in Parts : part[p] \in PartRow
    BY DEF TypeOK
  <1> DEFINE Frame ==
        /\ LiveParts' = LiveParts
        /\ \A p \in Parts : Keeps(r, p)
  <1>3. ASSUME part' = part, ~MarkAvailable(r) \/ req[r].part \notin LiveParts
        PROVE  Frame
    BY <1>3 DEF LiveParts, Keeps
  <1>4. ASSUME NEW q \in LiveParts, q = req[r].part,
               NEW s \in {"available", "unavailable", "dispatched", "accepted", "pending"},
               part' = [part EXCEPT ![q].status = s], ~MarkAvailable(r)
        PROVE  Frame
    <2>1. \A p \in Parts : p # q => part'[p] = part[p]
      BY <1>4 DEF TypeOK
    <2>2. q \in Parts /\ part'[q] = [part[q] EXCEPT !.status = s]
      BY <1>4 DEF TypeOK, LiveParts
    <2>3. part'[q].status = s /\ part'[q].item = part[q].item /\ part'[q].line = part[q].line
            /\ part'[q].tech = part[q].tech /\ part'[q].answer = part[q].answer
            /\ part'[q].cut = part[q].cut
      BY <1>2, <2>2 DEF PartRow
    <2>4. LiveParts' = LiveParts
      BY <1>4, <2>1, <2>2, <2>3 DEF LiveParts
    <2>5. \A p \in Parts : Keeps(r, p)
      BY <1>4, <2>1, <2>3 DEF Keeps
    <2> QED
      BY <2>4, <2>5
  <1>5. CASE MarkAvailable(r) /\ req[r].part \in LiveParts
    <2> DEFINE q == req[r].part
               answer == IF part[q].tech THEN "PENDING" ELSE "NOT_REQUIRED"
    <2>1. q \in Parts
      BY <1>5 DEF LiveParts
    <2>2. part' = [part EXCEPT ![q] = [part[q] EXCEPT !.status = "available", !.answer = answer, !.cut = FALSE]]
      BY <1>5, <2>1 DEF MarkAvailable, TypeOK
    <2>3. part'[q] = [part[q] EXCEPT !.status = "available", !.answer = answer, !.cut = FALSE]
            /\ \A p \in Parts : p # q => part'[p] = part[p]
      BY <2>1, <2>2 DEF TypeOK
    <2>4. part'[q].status = "available" /\ part'[q].item = part[q].item /\ part'[q].line = part[q].line
            /\ part'[q].tech = part[q].tech /\ part'[q].answer = answer
      BY <1>2, <2>1, <2>3 DEF PartRow
    <2>5. LiveParts' = LiveParts
      BY <1>5, <2>1, <2>3, <2>4 DEF LiveParts
    <2>6. ASSUME NEW p \in Parts
          PROVE  Keeps(r, p)
      <3>1. CASE p = q
        BY <1>5, <2>4, <3>1 DEF Keeps
      <3>2. CASE p # q
        BY <2>3, <3>2 DEF Keeps
      <3> QED
        BY <3>1, <3>2
    <2> QED
      BY <1>1, <2>5, <2>6
  <1>6. req[r].at = "move" => req[r].to \in {"dispatched", "accepted", "pending"}
    BY <1>1 DEF Slots, SlotOf
  <1>7. CASE (MarkUnavailable(r) \/ Move(r)) /\ req[r].part \in LiveParts
    BY <1>4, <1>6, <1>7 DEF MarkAvailable, MarkUnavailable, Move
  <1>8. CASE Count(r) \/ Confirm(r) \/ req[r].part \notin LiveParts
    BY <1>3, <1>8 DEF MarkAvailable, MarkUnavailable, Count, Confirm, Move
  <1> QED
    BY <1>1, <1>5, <1>7, <1>8

\* What AddLine writes: a line that was not there, for the part if it is in the list still.
LEMMA LineOfStep ==
  ASSUME TypeOK, Slots, NEW r \in PartsDesk, AddLine(r)
  PROVE  \E i \in Items \ (Live \cup KnownItems) :
           /\ item' = [item EXCEPT ![i] = item'[i]]
           /\ item'[i] = [BlankItem EXCEPT !.live = TRUE, !.parts = TRUE, !.of = req[r].part]
           /\ Live' = Live \cup {i}
           /\ LiveParts' = LiveParts
           /\ \A p \in Parts : /\ p \notin LiveParts \/ p # req[r].part => part'[p] = part[p]
                               /\ p \in LiveParts /\ p = req[r].part =>
                                    part'[p] = [part[p] EXCEPT !.item = i, !.line = i, !.cut = FALSE]
  <1> DEFINE q == req[r].part
             row == [BlankItem EXCEPT !.live = TRUE, !.parts = TRUE, !.of = q]
  <1>1. PICK i \in Fresh(1) :
          /\ item' = [item EXCEPT ![i] = row]
          /\ part' = IF q \notin LiveParts THEN part ELSE [part EXCEPT ![q].item = i, ![q].line = i, ![q].cut = FALSE]
    BY DEF AddLine
  <1>2. i \in Items \ (Live \cup KnownItems)
    BY FreshTypes
  <1>3. item'[i] = row /\ \A k \in Items : k # i => item'[k] = item[k]
    BY <1>1, <1>2 DEF TypeOK
  <1>4. row.live
    BY DEF BlankItem
  <1> HIDE DEF row
  <1>5. Live' = Live \cup {i}
    BY <1>2, <1>3, <1>4 DEF Live
  <1>6. CASE q \notin LiveParts
    <2>1. part' = part
      BY <1>1, <1>6
    <2> QED
      BY <1>1, <1>2, <1>3, <1>5, <1>6, <2>1 DEF LiveParts, row
  <1>7. CASE q \in LiveParts
    <2>1. q \in Parts /\ part[q] \in PartRow
      BY <1>7 DEF LiveParts, TypeOK
    <2>2. part'[q] = [part[q] EXCEPT !.item = i, !.line = i, !.cut = FALSE] /\ \A p \in Parts : p # q => part'[p] = part[p]
      BY <1>1, <1>7, <2>1 DEF TypeOK
    <2>3. part'[q].status = part[q].status
      BY <2>1, <2>2 DEF PartRow
    <2>4. LiveParts' = LiveParts
      BY <1>7, <2>2, <2>3 DEF LiveParts
    <2> QED
      BY <1>1, <1>2, <1>3, <1>5, <2>2, <2>4 DEF row
  <1> QED
    BY <1>6, <1>7

LEMMA FollowedByDesk ==
  ASSUME FollowInv, NEW r \in PartsDesk,
         \/ MarkAvailable(r) \/ AddLine(r) \/ MarkUnavailable(r) \/ Count(r) \/ Confirm(r)
         \/ Move(r)
  PROVE  Followed'
  <1>1. r \in Requests /\ TypeOK /\ Slots /\ Followed
    BY DEF Requests, FollowInv
  <1>2. CASE AddLine(r)
    <2> DEFINE q == req[r].part
    <2>1. PICK i \in Items \ (Live \cup KnownItems) :
            /\ item' = [item EXCEPT ![i] = item'[i]]
            /\ item'[i] = [BlankItem EXCEPT !.live = TRUE, !.parts = TRUE, !.of = q]
            /\ Live' = Live \cup {i}
            /\ LiveParts' = LiveParts
            /\ \A p \in Parts : /\ p \notin LiveParts \/ p # q => part'[p] = part[p]
                                /\ p \in LiveParts /\ p = q =>
                                     part'[p] = [part[p] EXCEPT !.item = i, !.line = i, !.cut = FALSE]
      BY <1>1, <1>2, LineOfStep
    <2>2. ~item'[i].done /\ \A k \in Live : item'[k] = item[k]
      <3>1. ~[BlankItem EXCEPT !.live = TRUE, !.parts = TRUE, !.of = q].done
        BY DEF BlankItem
      <3>2. i \notin Live
        BY <2>1
      <3>3. \A k \in Items : k # i => item'[k] = item[k]
        BY <1>1, <2>1 DEF TypeOK
      <3> QED
        BY <2>1, <3>1, <3>2, <3>3 DEF Live
    <2>3. req' = [req EXCEPT ![r] = Idle]
      BY <1>2 DEF AddLine, Finish
    <2>4. ASSUME NEW p \in Unanswered'
          PROVE  \/ Coming(p)' \/ part'[p].cut
                 \/ part'[p].item \in Live' /\ ~item'[part'[p].item].done
      <3>1. p \in Parts /\ p \in LiveParts
        BY <2>1 DEF Unanswered, LiveParts
      <3>2. CASE p = q
        <4>1. part[p] \in PartRow /\ part'[p] = [part[p] EXCEPT !.item = i, !.line = i, !.cut = FALSE]
          BY <1>1, <2>1, <3>1, <3>2 DEF TypeOK
        <4>2. part'[p].item = i
          BY <4>1 DEF PartRow
        <4> QED
          BY <2>1, <2>2, <4>2
      <3>3. CASE p # q
        <4>1. part'[p] = part[p] /\ p \in Unanswered
          BY <2>1, <3>1, <3>3 DEF Unanswered
        <4>2. CASE Coming(p)
          <5>1. PICK s \in PartsDesk : req[s].at = "addLine" /\ req[s].part = p
            BY <4>2 DEF Coming
          <5>2. s # r /\ s \in Requests
            BY <3>3, <5>1 DEF Requests
          <5>3. req'[s] = req[s]
            BY <1>1, <2>3, <5>2 DEF TypeOK
          <5> QED
            BY <5>1, <5>3 DEF Coming
        <4>3. CASE part[p].cut \/ (part[p].item \in Live /\ ~item[part[p].item].done)
          BY <2>1, <2>2, <4>1, <4>3
        <4> QED
          BY <1>1, <4>1, <4>2, <4>3 DEF Followed
      <3> QED
        BY <3>2, <3>3
    <2> QED
      BY <2>4 DEF Followed
  <1>3. CASE MarkAvailable(r) \/ MarkUnavailable(r) \/ Count(r) \/ Confirm(r) \/ Move(r)
    <2>1. item' = item /\ LiveParts' = LiveParts /\ \A p \in Parts : Keeps(r, p)
      BY <1>1, <1>3, PartOfStep
    <2>2. req[r].at # "addLine" /\ \E q : req' = [req EXCEPT ![r] = q]
      BY <1>1, <1>3 DEF MarkAvailable, MarkUnavailable, Count, Confirm, Move, Finish, TypeOK
    <2>3. \A p : Coming(p) => Coming(p)'
      BY <1>1, <2>2, StillComing
    <2>4. Live' = Live
      BY <2>1 DEF Live
    <2>5. ASSUME NEW p \in Unanswered'
          PROVE  \/ Coming(p)' \/ part'[p].cut
                 \/ part'[p].item \in Live' /\ ~item'[part'[p].item].done
      <3>1. p \in Parts /\ p \in LiveParts /\ part'[p].answer = "PENDING" /\ Keeps(r, p)
        BY <2>1 DEF Unanswered, LiveParts
      <3>2. CASE ~(MarkAvailable(r) /\ p = req[r].part)
        <4>1. p \in Unanswered /\ part'[p].item = part[p].item /\ part'[p].cut = part[p].cut
          BY <3>1, <3>2 DEF Unanswered, Keeps
        <4> QED
          BY <1>1, <2>1, <2>3, <2>4, <4>1 DEF Followed
      <3>3. CASE MarkAvailable(r) /\ p = req[r].part
        <4>1. MarkAvailable(r) /\ p = req[r].part /\ part[p].tech
          BY <3>1, <3>3 DEF Keeps
        <4>2. req[r] \in Request
          BY <1>1 DEF TypeOK
        <4>3. req'[r].at = "addLine" /\ req'[r].part = p
          BY <1>1, <4>1, <4>2 DEF MarkAvailable, TypeOK, Request
        <4> QED
          BY <4>3 DEF Coming
      <3> QED
        BY <3>2, <3>3
    <2> QED
      BY <2>5 DEF Followed
  <1> QED
    BY <1>2, <1>3

LEMMA FollowedByWork ==
  ASSUME FollowInv,
         \/ \E n \in 1..MaxLines, withParts \in BOOLEAN : CreateJobCard(n, withParts)
         \/ StartWork
         \/ \E i \in Items : RequestExtraParts(i) \/ Assign(i) \/ CompleteItem(i)
  PROVE  Followed'
  <1>1. req' = req /\ TypeOK /\ Followed
    BY DEF CreateJobCard, StartWork, RequestExtraParts, Assign, CompleteItem, FollowInv
  <1>2. \A p : Coming(p) => Coming(p)'
    BY <1>1 DEF Coming
  <1>3. CASE \E n \in 1..MaxLines, withParts \in BOOLEAN : CreateJobCard(n, withParts)
    <2>1. part' = part /\ LiveParts = {}
      BY <1>3 DEF CreateJobCard, FollowInv, Blank
    <2>2. Unanswered' = {}
      BY <2>1 DEF Unanswered, LiveParts
    <2> QED
      BY <2>2 DEF Followed
  <1>4. CASE StartWork
    BY <1>1, <1>2, <1>4 DEF StartWork, Followed, Unanswered, LiveParts, Live
  <1>5. ASSUME NEW k \in Items, RequestExtraParts(k)
        PROVE  Followed'
    <2>1. PICK q \in FreshPart(LiveParts) :
            part' = [part EXCEPT ![q] = [BlankPart EXCEPT !.status = "pending", !.tech = TRUE,
                                                          !.item = k]]
      BY <1>5 DEF RequestExtraParts
    <2>2. q \in Parts
      BY FreshTypes
    <2>3. part'[q].answer = "NOT_REQUIRED" /\ \A p \in Parts : p # q => part'[p] = part[p]
      BY <1>1, <2>1, <2>2 DEF TypeOK, BlankPart
    <2>4. \A p \in Unanswered' : p \in Unanswered /\ part'[p] = part[p]
      BY <2>3 DEF Unanswered, LiveParts
    <2>5. item' = item /\ Live' = Live
      BY <1>5 DEF RequestExtraParts, Live
    <2> QED
      BY <1>1, <1>2, <2>4, <2>5, FollowFrame
  <1>6. ASSUME NEW k \in Items, Assign(k)
        PROVE  Followed'
    <2>1. \A i \in Items : item'[i].live = item[i].live /\ item'[i].done = item[i].done
      BY <1>1, <1>6 DEF Assign, TypeOK, ItemRow
    <2>2. part' = part /\ Unanswered' = Unanswered
      BY <1>6 DEF Assign, Unanswered, LiveParts
    <2> QED
      BY <1>1, <1>2, <2>1, <2>2, FollowFrame DEF Live
  <1>7. ASSUME NEW k \in Items, CompleteItem(k)
        PROVE  Followed'
    <2>1. part' = part /\ Unanswered' = Unanswered
      BY <1>7 DEF CompleteItem, Unanswered, LiveParts
    <2>2. \A i \in Items : /\ item'[i].live = item[i].live
                           /\ i # k => item'[i].done = item[i].done
      BY ZenonT(40), <1>1, <1>7 DEF CompleteItem, TypeOK, ItemRow
    <2>3. \A p \in Unanswered : part[p].item # k
      BY <1>7 DEF CompleteItem, AwaitsCustomer
    <2> QED
      BY <1>1, <1>2, <2>1, <2>2, <2>3 DEF Followed, Live
  <1> QED
    BY <1>3, <1>4, <1>5, <1>6, <1>7

\* A read leaves the lines and the parts.
LEMMA FollowedByRead ==
  ASSUME FollowInv, NEW r \in Requests, UNCHANGED <<card, item, part>>, req[r].at # "addLine",
         \E q : Becomes(r, q)
  PROVE  Followed'
  <1>1. \A p : Coming(p) => Coming(p)'
    BY StillComing DEF Becomes, FollowInv
  <1>2. Unanswered' = Unanswered /\ Live' = Live
    BY DEF Unanswered, LiveParts, Live
  <1> QED
    BY <1>1, <1>2, FollowFrame DEF FollowInv

\* A part whose request stops before its line is marked, whatever else stops.
LEMMA FollowedByFail ==
  ASSUME FollowInv, NEW r \in Requests, Fail(r)
  PROVE  Followed'
  <1>1. TypeOK /\ Followed
    BY DEF FollowInv
  <1>2. /\ item' = item /\ Live' = Live /\ LiveParts' = LiveParts /\ req' = [req EXCEPT ![r] = Idle]
        /\ \A p \in Parts : /\ part'[p].item = part[p].item /\ part'[p].answer = part[p].answer
                            /\ part[p].cut => part'[p].cut
                            /\ req[r].at = "addLine" /\ req[r].part = p /\ p \in LiveParts =>
                                 part'[p].cut
    BY <1>1, FailLeaves
  <1>3. ASSUME NEW p \in Unanswered'
        PROVE  \/ Coming(p)' \/ part'[p].cut
               \/ part'[p].item \in Live' /\ ~item'[part'[p].item].done
    <2>1. p \in Parts /\ p \in LiveParts /\ p \in Unanswered
      BY <1>2 DEF Unanswered, LiveParts
    <2>2. ASSUME NEW s \in PartsDesk, req[s].at = "addLine", req[s].part = p
          PROVE  Coming(p)' \/ part'[p].cut
      <3>1. CASE s = r
        BY <1>2, <2>1, <2>2, <3>1
      <3>2. CASE s # r
        <4>1. req'[s] = req[s]
          BY <1>1, <1>2, <3>2 DEF TypeOK, Requests
        <4> QED
          BY <2>2, <4>1 DEF Coming
      <3> QED
        BY <3>1, <3>2
    <2> QED
      BY <1>1, <1>2, <2>1, <2>2 DEF Followed, Coming
  <1> QED
    BY <1>3 DEF Followed

LEMMA FollowStep == FollowInv /\ [Next]_vars => FollowInv'
  <1> SUFFICES ASSUME FollowInv, [Next]_vars
               PROVE  FollowInv'
    OBVIOUS
  <1>1. TypeOK' /\ Slots'
    BY StepTypes DEF FollowInv
  <1>2. CASE UNCHANGED vars
    BY <1>1, <1>2 DEF vars, FollowInv, Blank, Followed, Unanswered, LiveParts, Live, Coming
  <1>3. CASE Next
    <2>1. Blank'
      BY <1>3, CardStays DEF FollowInv, Blank
    <2>2. Advisors \subseteq Requests /\ Customers \subseteq Requests /\ PartsDesk \subseteq Requests
      BY DEF Requests
    <2>3. ASSUME NEW r \in Customers, OpenPage(r) \/ ApproveRead(r) \/ ModifyRead(r) \/ RejectRead(r)
          PROVE  Followed'
      <3>1. req[r].at # "addLine"
        BY <2>3 DEF OpenPage, ApproveRead, ModifyRead, RejectRead, Opens, Begin
      <3> QED
        BY <2>2, <2>3, <3>1, CustomerReads, FollowedByRead DEF FollowInv
    <2>4. ASSUME NEW r \in Requests, Fail(r)
          PROVE  Followed'
      BY <2>4, FollowedByFail
    <2>5. ASSUME NEW r \in Advisors,
                 \/ RequestPartsRead(r) \/ ShareRead(r) \/ StaffApproveRead(r)
                 \/ \E n \in 1..MaxLines, withParts \in BOOLEAN : EditRead(r, n, withParts)
          PROVE  Followed'
      BY <2>2, <2>5, AdvisorReads, FollowedByRead DEF FollowInv
    <2>6. ASSUME NEW r \in PartsDesk, NEW p \in Parts,
                 \/ \E at \in {"available", "unavailable"} : PartRead(r, p, at)
                 \/ \E to \in {"dispatched", "accepted", "pending"} : MoveRead(r, p, to)
          PROVE  Followed'
      BY <2>2, <2>6, DeskReads, FollowedByRead DEF FollowInv
    <2>7. Followed'
      BY <1>3, <2>3, <2>4, <2>5, <2>6, StepIs, FollowedByWork, FollowedByAdvisor,
         FollowedByCustomer, FollowedByDesk
    <2> QED
      BY <1>1, <2>1, <2>7 DEF FollowInv
  <1> QED
    BY <1>2, <1>3

LEMMA BlankInit ==
  ASSUME Init
  PROVE  Blank /\ Live = {} /\ LiveParts = {} /\ \A r \in Requests : req[r].at = "idle"
  BY DEF Init, Blank, Live, LiveParts, BlankItem, BlankPart, Idle

LEMMA FollowInit == Init => FollowInv
  BY InitTypes, BlankInit DEF FollowInv, Followed, Unanswered

\* Only the last of the lines that is done hands the card over.
LEMMA HandsOver ==
  ASSUME TypeOK, Slots, Next, card.status # "FOREMAN_REVIEW", card'.status = "FOREMAN_REVIEW"
  PROVE  \E i \in Items : CompleteItem(i) /\ \A k \in Live \ {i} : item[k].done
  <1>1. card.status \in CardStatus /\ \A s : [card EXCEPT !.status = s].status = s
    BY DEF TypeOK, CardRow
  <1>2. ASSUME NEW n, NEW withParts, CreateJobCard(n, withParts)
        PROVE  FALSE
    BY <1>1, <1>2 DEF CreateJobCard
  <1>3. CASE StartWork
    BY <1>1, <1>3 DEF StartWork
  <1>4. ASSUME NEW i \in Items, RequestExtraParts(i) \/ Assign(i)
        PROVE  FALSE
    BY <1>4 DEF RequestExtraParts, Assign
  <1>5. ASSUME NEW i \in Items, CompleteItem(i)
        PROVE  \A k \in Live \ {i} : item[k].done
    BY <1>5 DEF CompleteItem
  <1>6. ASSUME NEW r \in Advisors, RequestParts(r) \/ Edit(r) \/ Share(r) \/ StaffApprove(r)
        PROVE  FALSE
    <2>1. Target(r) # "FOREMAN_REVIEW"
      <3>1. req[r].status = "PENDING_PARTS" => Target(r) \in {"PENDING_PARTS", "PARTS_CONFIRMED"}
        BY DEF Target
      <3>2. req[r].status # "PENDING_PARTS" => Target(r) \in {"DRAFT", "PARTS_CONFIRMED"}
        BY DEF Target
      <3> QED
        BY <3>1, <3>2
    <2> QED
      BY <1>6, <2>1 DEF RequestParts, Edit, Share, StaffApprove, TypeOK, CardRow
  <1>7. ASSUME NEW r \in Customers, Approve(r) \/ Modify(r) \/ RejectEstimate(r) \/ RejectExtra(r)
        PROVE  FALSE
    <2>1. req[r].at = "approve" => req[r].status # "FOREMAN_REVIEW"
      BY DEF Slots, SlotOf, Requests
    <2> QED
      BY <1>7, <2>1 DEF Approve, Modify, RejectEstimate, RejectExtra, TypeOK, CardRow
  <1>8. ASSUME NEW r \in PartsDesk,
               \/ MarkAvailable(r) \/ AddLine(r) \/ MarkUnavailable(r) \/ Count(r) \/ Confirm(r)
               \/ Move(r)
        PROVE  FALSE
    BY <1>1, <1>8 DEF MarkAvailable, AddLine, MarkUnavailable, Count, Confirm, Move
  <1>9. ASSUME NEW r, Fail(r)
        PROVE  FALSE
    BY <1>9 DEF Fail
  <1>10. ASSUME UNCHANGED <<card, item, part>>
         PROVE  FALSE
    BY <1>10
  <1> QED
    BY <1>2, <1>3, <1>4, <1>5, <1>6, <1>7, <1>8, <1>9, <1>10, StepIs, AdvisorReads, CustomerReads,
       DeskReads

(* When the card goes to the foreman every extra price is answered, but for one whose line
   is being written or never was, as the desk's request stopped: an extra part a line of
   which was to be done would have kept CompleteItem from it, and one whose line is done
   already was answered before, as Followed says. *)
THEOREM HandedOverAnswered == Spec => HandedOverIsAnswered
  <1> DEFINE Handed == card.status # "FOREMAN_REVIEW" /\ card'.status = "FOREMAN_REVIEW" =>
                         \A p \in Unanswered : Coming(p) \/ part[p].cut
  <1>1. FollowInv /\ [Next]_vars => [Handed]_vars
    <2> SUFFICES ASSUME FollowInv, Next, card.status # "FOREMAN_REVIEW", card'.status = "FOREMAN_REVIEW",
                        NEW p \in Unanswered
                 PROVE  Coming(p) \/ part[p].cut
      OBVIOUS
    <2>1. PICK i \in Items : CompleteItem(i) /\ \A k \in Live \ {i} : item[k].done
      BY HandsOver DEF FollowInv
    <2>2. part[p].item # i
      BY <2>1 DEF CompleteItem, AwaitsCustomer
    <2>3. Coming(p) \/ part[p].cut \/ (part[p].item \in Live /\ ~item[part[p].item].done)
      BY DEF FollowInv, Followed
    <2> QED
      BY <2>1, <2>2, <2>3
  <1>2. HandedOverIsAnswered <=> [][Handed]_vars
    BY DEF HandedOverIsAnswered
  <1> HIDE DEF Handed
  <1> QED
    BY <1>1, <1>2, FollowInit, FollowStep, PTL DEF Spec

-----------------------------------------------------------------------------
(***************************************************************************)
(* The customer's answers, when his requests come one at a time: of two    *)
(* that overlap, the later would answer again what the first has settled.  *)
(***************************************************************************)

LoneCustomer == \A r, s \in Customers : r = s

(* An id with no line has nothing of the line that had it; the supplementary line of a part
   is in the list and bears the part's name. *)
Lines ==
  /\ \A i \in Items \ Live : item[i] = BlankItem
  /\ \A p \in LiveParts :
       part[p].line # NoItem => part[p].line \in Live /\ item[part[p].line].of = p

(* A round about extra parts ticks none of the advisor's lines, and another one leads to an
   approval. *)
Rounds ==
  \A r \in Requests :
    req[r].at = "approve" =>
      IF req[r].supp THEN \A i \in req[r].list \cap Live : item[i].of # NoPart
                     ELSE req[r].status \in {"APPROVED", "PARTIALLY_APPROVED"}

(* Some line of the advisor's has an answer to the link that is out. *)
Settled == \E i \in Live : item[i].of = NoPart /\ item[i].answer # "none" /\ ~item[i].asked

(* Then the card was approved, it is not SHARED, and the only answer on its way is one
   about extra parts: a link that asks about the advisor's lines is answered once. *)
Settling ==
  Settled =>
    /\ card.approved /\ card.status # "SHARED"
    /\ \A r \in Requests : req[r].at = "approve" => req[r].supp /\ req[r].status # "SHARED"

AnswerInv == TypeOK /\ Slots /\ Blank /\ Lines /\ Rounds /\ Settling

\* What AnswersStand says of a step.
Stands ==
  \A i \in Items :
    item[i].of = NoPart /\ item[i].answer # "none" /\ item'[i].live
      /\ item'[i].answer # item[i].answer => item[i].asked

Answering == Lines' /\ Rounds' /\ Settling' /\ Stands

\* No request starts to answer, and a part that is new has no line.
NoneAnswers ==
  /\ \A r \in Requests : req'[r].at = "approve" => req'[r] = req[r]
  /\ \A p \in LiveParts' : part'[p].line = NoItem \/ (p \in LiveParts /\ part'[p].line = part[p].line)

\* The same lines, and the advisor's with their answers.
SameLines ==
  \A i \in Items :
    /\ item'[i].live = item[i].live /\ item'[i].of = item[i].of
    /\ item[i].of = NoPart => item'[i].answer = item[i].answer /\ (item[i].asked => item'[i].asked)
    /\ i \notin Live => item'[i] = item[i]

LEMMA AnswersKept ==
  ASSUME AnswerInv, NoneAnswers, SameLines,
         Settled /\ Settled' /\ card.approved => card'.approved,
         Settled /\ Settled' /\ card'.status = "SHARED" => card.status = "SHARED"
  PROVE  Answering
  <1>1. Live' = Live
    BY DEF SameLines, Live
  <1>2. Lines'
    <2>1. \A i \in Items \ Live' : item'[i] = BlankItem
      BY <1>1 DEF AnswerInv, Lines, SameLines
    <2>2. ASSUME NEW p \in LiveParts', part'[p].line # NoItem
          PROVE  part'[p].line \in Live' /\ item'[part'[p].line].of = p
      <3>1. p \in LiveParts /\ part'[p].line = part[p].line
        BY <2>2 DEF NoneAnswers
      <3>2. part[p].line \in Live /\ item[part[p].line].of = p
        BY <2>2, <3>1 DEF AnswerInv, Lines
      <3> QED
        BY <1>1, <3>1, <3>2 DEF SameLines, Live
    <2> QED
      BY <2>1, <2>2 DEF Lines, BlankItem
  <1>3. Rounds'
    BY <1>1 DEF AnswerInv, Rounds, NoneAnswers, SameLines, Live
  <1>4. Settled' => Settled
    BY <1>1 DEF Settled, SameLines, Live
  <1>5. Settling'
    BY <1>4 DEF AnswerInv, Settling, NoneAnswers
  <1>6. Stands
    BY DEF Stands, SameLines
  <1> QED
    BY <1>2, <1>3, <1>5, <1>6 DEF Answering

\* The lines written anew: none has an answer.
LEMMA AnswersAnew ==
  ASSUME AnswerInv, NoneAnswers, NEW n, NEW withParts \in BOOLEAN, item' = Rebuilt(n, withParts),
         \A p \in LiveParts' : part'[p].line = NoItem
  PROVE  Answering
  <1>1. ASSUME NEW i \in Items
        PROVE  /\ i \in Fresh(n) => item'[i].live
               /\ i \notin Fresh(n) => item'[i] = BlankItem
               /\ item'[i].answer = "none" /\ item'[i].of = NoPart
    <2>1. CASE i \in Fresh(n)
      BY <2>1 DEF Rebuilt, BlankItem
    <2>2. CASE i \notin Fresh(n)
      BY <2>2 DEF Rebuilt, BlankItem
    <2> QED
      BY <2>1, <2>2
  <1>2. Live' = Fresh(n)
    BY <1>1, FreshTypes DEF Live, BlankItem
  <1>3. Lines'
    BY <1>1, <1>2 DEF Lines, BlankItem
  <1>4. ASSUME NEW r \in Requests, req'[r].at = "approve", NEW i \in req'[r].list
        PROVE  i \notin Live'
    BY <1>2, <1>4, FreshTypes DEF NoneAnswers, KnownItems
  <1>5. Rounds'
    BY <1>4 DEF AnswerInv, Rounds, NoneAnswers
  <1>6. ~Settled'
    BY <1>1 DEF Settled, Live
  <1>7. \A i \in Live' : item[i] = BlankItem
    BY <1>2, FreshTypes DEF AnswerInv, Lines
  <1>8. Stands
    BY <1>7 DEF Stands, Live, BlankItem
  <1> QED
    BY <1>3, <1>5, <1>6, <1>8 DEF Answering, Settling

\* Of one request that moves: when that is not to the customer's answer, none answers.
LEMMA OneMoves ==
  ASSUME TypeOK, NEW r \in Requests, NEW q, req' = [req EXCEPT ![r] = q], q.at # "approve",
         \A p \in LiveParts' : part'[p].line = NoItem \/ (p \in LiveParts /\ part'[p].line = part[p].line)
  PROVE  NoneAnswers
  <1>1. req'[r] = q /\ \A s \in Requests : s # r => req'[s] = req[s]
    BY DEF TypeOK
  <1> QED
    BY <1>1 DEF NoneAnswers

\* Part requests made again have no line.
LEMMA NoLines ==
  ASSUME part' = Dropped \/ \E rows : Regenerate(rows)
  PROVE  \A p \in Parts : part'[p].line = NoItem
  <1>1. \A p \in Parts : Dropped[p] = BlankPart
    BY DEF Dropped
  <1>2. CASE part' = Dropped
    BY <1>1, <1>2 DEF BlankPart
  <1>3. ASSUME NEW rows, Regenerate(rows), part' # Dropped
        PROVE  \A p \in Parts : part'[p].line = NoItem
    <2>1. PICK p \in FreshPart({}), i \in Items :
            part' = [Dropped EXCEPT ![p] = [BlankPart EXCEPT !.status = "pending", !.item = i]]
      BY <1>3 DEF Regenerate
    <2> QED
      BY <1>1, <2>1, DroppedTypes DEF BlankPart
  <1> QED
    BY <1>2, <1>3

LEMMA AnswersByWork ==
  ASSUME AnswerInv,
         \/ \E n \in 1..MaxLines, withParts \in BOOLEAN : CreateJobCard(n, withParts)
         \/ StartWork
         \/ \E i \in Items : RequestExtraParts(i) \/ Assign(i) \/ CompleteItem(i)
  PROVE  Answering
  <1>1. req' = req /\ TypeOK
    BY DEF CreateJobCard, StartWork, RequestExtraParts, Assign, CompleteItem, AnswerInv
  <1>2. CASE \E n \in 1..MaxLines, withParts \in BOOLEAN : CreateJobCard(n, withParts)
    <2>1. part' = part /\ LiveParts = {}
      BY <1>2 DEF CreateJobCard, AnswerInv, Blank
    <2>2. LiveParts' = {}
      BY <2>1 DEF LiveParts
    <2>3. NoneAnswers
      BY <1>1, <2>2 DEF NoneAnswers
    <2> QED
      BY <1>2, <2>2, <2>3, AnswersAnew DEF CreateJobCard
  <1>3. ASSUME card'.approved = card.approved, card'.status # "SHARED" \/ card' = card,
               item' = item \/ \E k \in Items : Assign(k) \/ CompleteItem(k),
               \A p \in LiveParts' : part'[p].line = NoItem \/ (p \in LiveParts /\ part'[p].line = part[p].line)
        PROVE  Answering
    <2>1. NoneAnswers
      BY <1>1, <1>3 DEF NoneAnswers
    <2>2. ASSUME NEW k \in Items, Assign(k) \/ CompleteItem(k)
          PROVE  SameLines
      <3>1. k \in Live /\ item[k] \in ItemRow
        BY <1>1, <2>2 DEF Assign, CompleteItem, TypeOK
      <3>2. \A i \in Items : i # k => item'[i] = item[i]
        BY <1>1, <2>2 DEF Assign, CompleteItem, TypeOK
      <3>3. item'[k].live = item[k].live /\ item'[k].of = item[k].of
              /\ item'[k].answer = item[k].answer /\ item'[k].asked = item[k].asked
        BY <1>1, <2>2, <3>1 DEF Assign, CompleteItem, TypeOK, ItemRow
      <3> QED
        BY <3>1, <3>2, <3>3 DEF SameLines
    <2>3. SameLines
      BY <1>3, <2>2 DEF SameLines
    <2> QED
      BY <1>3, <2>1, <2>3, AnswersKept
  <1>4. CASE StartWork
    BY <1>1, <1>3, <1>4 DEF StartWork, LiveParts, TypeOK, CardRow
  <1>5. ASSUME NEW k \in Items, RequestExtraParts(k)
        PROVE  Answering
    <2>1. PICK q \in FreshPart(LiveParts) :
            part' = [part EXCEPT ![q] = [BlankPart EXCEPT !.status = "pending", !.tech = TRUE,
                                                          !.item = k]]
      BY <1>5 DEF RequestExtraParts
    <2>2. q \in Parts
      BY FreshTypes
    <2>3. part'[q].line = NoItem /\ \A p \in Parts : p # q => part'[p] = part[p]
      BY <1>1, <2>1, <2>2 DEF TypeOK, BlankPart
    <2>4. \A p \in LiveParts' : part'[p].line = NoItem \/ (p \in LiveParts /\ part'[p].line = part[p].line)
      BY <2>3 DEF LiveParts
    <2>5. card' = card /\ item' = item
      BY <1>5 DEF RequestExtraParts
    <2> QED
      BY <1>3, <2>4, <2>5
  <1>6. ASSUME NEW k \in Items, Assign(k) \/ CompleteItem(k)
        PROVE  Answering
    <2>1. part' = part /\ card'.approved = card.approved /\ (card'.status # "SHARED" \/ card' = card)
      BY <1>1, <1>6 DEF Assign, CompleteItem, TypeOK, CardRow
    <2> QED
      BY <1>3, <1>6, <2>1 DEF LiveParts
  <1> QED
    BY <1>2, <1>4, <1>5, <1>6

LEMMA AnswersByAdvisor ==
  ASSUME AnswerInv, NEW r \in Advisors,
         RequestParts(r) \/ Edit(r) \/ Share(r) \/ StaffApprove(r)
  PROVE  Answering
  <1>1. r \in Requests /\ TypeOK /\ req' = [req EXCEPT ![r] = Idle] /\ Idle.at # "approve"
    BY DEF Requests, AnswerInv, RequestParts, Edit, Share, StaffApprove, Finish, Idle
  <1>2. CASE RequestParts(r)
    <2>1. \A p \in LiveParts' : part'[p].line = NoItem
      BY <1>2, NoLines DEF RequestParts, LiveParts
    <2>2. NoneAnswers
      BY <1>1, <2>1, OneMoves
    <2>3. item' = item /\ card'.approved = card.approved /\ card'.status # "SHARED"
      BY <1>1, <1>2 DEF RequestParts, TypeOK, CardRow
    <2>4. SameLines
      BY <2>3 DEF SameLines
    <2> QED
      BY <2>2, <2>3, <2>4, AnswersKept
  <1>3. CASE Edit(r)
    <2>1. \A p \in LiveParts' : part'[p].line = NoItem
      BY <1>3, NoLines DEF Edit, LiveParts
    <2>2. NoneAnswers
      BY <1>1, <2>1, OneMoves
    <2>3. req[r].withParts \in BOOLEAN
      BY <1>1 DEF TypeOK, Request
    <2> QED
      BY <1>3, <2>1, <2>2, <2>3, AnswersAnew DEF Edit
  <1>4. CASE Share(r)
    <2>1. part' = part
      BY <1>4 DEF Share
    <2>2. NoneAnswers
      BY <1>1, <2>1, OneMoves DEF LiveParts
    <2>3. \A i \in Items : /\ item[i] \in ItemRow
                           /\ item'[i] = [item[i] EXCEPT !.asked = item[i].live /\ item[i].of = NoPart]
      BY <1>1, <1>4 DEF Share, TypeOK
    <2>4. \A i \in Items : /\ item'[i].live = item[i].live /\ item'[i].of = item[i].of
                           /\ item'[i].answer = item[i].answer
                           /\ item'[i].asked = (item[i].live /\ item[i].of = NoPart)
      BY <2>3 DEF ItemRow
    <2>5. ASSUME NEW i \in Items, i \notin Live
          PROVE  item'[i] = item[i]
      <3>1. item[i] = BlankItem
        BY <2>5 DEF AnswerInv, Lines
      <3>2. (item[i].live /\ item[i].of = NoPart) = FALSE
        BY <2>5 DEF Live
      <3>3. [BlankItem EXCEPT !.asked = FALSE] = BlankItem
        <4>1. BlankItem.asked = FALSE /\ BlankItem \in ItemRow
          BY BlankTypes DEF BlankItem
        <4>2. \A row \in ItemRow : row.asked = FALSE => [row EXCEPT !.asked = FALSE] = row
          BY DEF ItemRow
        <4> QED
          BY <4>1, <4>2
      <3> QED
        BY <2>3, <3>1, <3>2, <3>3
    <2>6. SameLines
      BY <2>4, <2>5 DEF SameLines, Live, BlankItem, AnswerInv, Lines
    <2>7. ~Settled'
      BY <2>4 DEF Settled, Live
    <2> QED
      BY <2>2, <2>6, <2>7, AnswersKept
  <1>5. CASE StaffApprove(r)
    <2>1. part' = part /\ item' = item /\ card'.approved /\ card'.status # "SHARED"
      BY <1>1, <1>5 DEF StaffApprove, TypeOK, CardRow
    <2>2. NoneAnswers
      BY <1>1, <2>1, OneMoves DEF LiveParts
    <2>3. SameLines
      BY <2>1 DEF SameLines
    <2> QED
      BY <2>1, <2>2, <2>3, AnswersKept
  <1> QED
    BY <1>2, <1>3, <1>4, <1>5

LEMMA AnswersByDesk ==
  ASSUME AnswerInv, NEW r \in PartsDesk,
         \/ MarkAvailable(r) \/ AddLine(r) \/ MarkUnavailable(r) \/ Count(r) \/ Confirm(r)
         \/ Move(r)
  PROVE  Answering
  <1>1. r \in Requests /\ TypeOK /\ Slots
    BY DEF Requests, AnswerInv
  <1>2. \A s \in Requests : req'[s].at = "approve" => req'[s] = req[s]
    <2>1. \A s \in Requests : s # r => req'[s] = req[s]
      BY <1>1 DEF MarkAvailable, AddLine, MarkUnavailable, Count, Confirm, Move, Finish, TypeOK
    <2>2. req[r] \in Request
      BY <1>1 DEF TypeOK
    <2>3. req'[r].at \in {"idle", "addLine", "count", "confirm"}
      <3>1. Idle.at = "idle" /\ req \in [Requests -> Request]
        BY <1>1 DEF Idle, TypeOK
      <3>2. CASE Finish(r)
        BY <1>1, <3>1, <3>2 DEF Finish
      <3>3. ASSUME NEW at \in {"addLine", "count"}, NEW p,
                   req' = [req EXCEPT ![r].at = at, ![r].part = p]
            PROVE  req'[r].at = at
        BY <1>1, <2>2, <3>1, <3>3 DEF Request
      <3>4. CASE req' = [req EXCEPT ![r].at = "confirm"]
        BY <1>1, <2>2, <3>1, <3>4 DEF Request
      <3>5. CASE MarkAvailable(r) \/ MarkUnavailable(r)
        BY <3>3, <3>5 DEF MarkAvailable, MarkUnavailable
      <3>6. CASE AddLine(r) \/ Count(r) \/ Confirm(r) \/ Move(r)
        BY <3>2, <3>4, <3>6 DEF AddLine, Count, Confirm, Move
      <3> QED
        BY <3>5, <3>6
    <2> QED
      BY <2>1, <2>3
  <1>3. card'.approved = card.approved /\ (card'.status # "SHARED" \/ card' = card)
    BY <1>1 DEF MarkAvailable, AddLine, MarkUnavailable, Count, Confirm, Move, TypeOK, CardRow
  <1>4. CASE AddLine(r)
    <2> DEFINE q == req[r].part
    <2>1. PICK i \in Items \ (Live \cup KnownItems) :
            /\ item' = [item EXCEPT ![i] = item'[i]]
            /\ item'[i] = [BlankItem EXCEPT !.live = TRUE, !.parts = TRUE, !.of = q]
            /\ Live' = Live \cup {i}
            /\ LiveParts' = LiveParts
            /\ \A p \in Parts : /\ p \notin LiveParts \/ p # q => part'[p] = part[p]
                                /\ p \in LiveParts /\ p = q =>
                                     part'[p] = [part[p] EXCEPT !.item = i, !.line = i, !.cut = FALSE]
      BY <1>1, <1>4, LineOfStep
    <2>2. q \in Parts /\ q # NoPart
      BY <1>1, <1>4, EstimateAssumption DEF AddLine, Slots, SlotOf, NoPart
    <2>3. item'[i].of = q /\ item'[i].live /\ \A k \in Items : k # i => item'[k] = item[k]
      BY <1>1, <2>1 DEF TypeOK, BlankItem
    <2>4. i \notin Live /\ item[i] = BlankItem
      BY <2>1 DEF AnswerInv, Lines
    <2>5. Lines'
      <3>1. \A k \in Items \ Live' : item'[k] = BlankItem
        BY <2>1, <2>3 DEF AnswerInv, Lines
      <3>2. ASSUME NEW p \in LiveParts', part'[p].line # NoItem
            PROVE  part'[p].line \in Live' /\ item'[part'[p].line].of = p
        <4>1. p \in Parts /\ p \in LiveParts /\ part[p] \in PartRow
          BY <1>1, <2>1 DEF LiveParts, TypeOK
        <4>2. CASE p = q
          <5>1. part'[p].line = i
            <6>1. part'[p] = [part[p] EXCEPT !.item = i, !.line = i, !.cut = FALSE]
              BY <2>1, <4>1, <4>2
            <6>2. "line" \in DOMAIN part[p]
              BY <4>1 DEF PartRow
            <6> QED
              BY <6>1, <6>2
          <5> QED
            BY <2>1, <2>3, <4>2, <5>1
        <4>3. CASE p # q
          <5>1. part'[p] = part[p]
            BY <2>1, <4>1, <4>3
          <5>2. part[p].line \in Live /\ item[part[p].line].of = p
            BY <3>2, <4>1, <5>1 DEF AnswerInv, Lines
          <5> DEFINE k == part[p].line
          <5>3. k \in Items /\ k # i /\ k \in Live'
            BY <2>1, <2>4, <5>2 DEF Live
          <5>4. item'[k].of = p
            BY <2>3, <5>2, <5>3
          <5> QED
            BY <5>1, <5>3, <5>4
        <4> QED
          BY <4>2, <4>3
      <3> QED
        BY <3>1, <3>2 DEF Lines, BlankItem
    <2>6. Rounds'
      <3>1. ASSUME NEW s \in Requests, req'[s].at = "approve"
            PROVE  /\ req'[s] = req[s]
                   /\ \A k \in req'[s].list \cap Live' : k \in Live /\ item'[k] = item[k]
        <4>1. req'[s] = req[s]
          BY <1>2, <3>1
        <4>2. i \notin req'[s].list
          <5>1. req[s].list \cup req[s].all \in {req[t].list \cup req[t].all : t \in Requests}
            BY <3>1
          <5>2. req[s].list \subseteq KnownItems
            BY <5>1 DEF KnownItems
          <5> QED
            BY <2>1, <4>1, <5>2
        <4>3. \A k \in Live : k \in Items
          BY DEF Live
        <4> QED
          BY <2>1, <2>3, <4>1, <4>2, <4>3
      <3> QED
        BY <3>1 DEF AnswerInv, Rounds
    <2>7. Settled' => Settled
      BY <2>1, <2>2, <2>3, <2>4 DEF Settled, Live
    <2>8. Settling'
      BY <1>2, <1>3, <2>7 DEF AnswerInv, Settling
    <2>9. Stands
      BY <2>3, <2>4 DEF Stands, BlankItem
    <2> QED
      BY <2>5, <2>6, <2>8, <2>9 DEF Answering
  <1>5. CASE MarkAvailable(r) \/ MarkUnavailable(r) \/ Count(r) \/ Confirm(r) \/ Move(r)
    <2>1. item' = item /\ LiveParts' = LiveParts /\ \A p \in Parts : Keeps(r, p)
      BY <1>1, <1>5, PartOfStep
    <2>2. NoneAnswers
      BY <1>2, <2>1 DEF NoneAnswers, Keeps, LiveParts
    <2>3. SameLines
      BY <2>1 DEF SameLines
    <2> QED
      BY <1>3, <2>2, <2>3, AnswersKept
  <1> QED
    BY <1>4, <1>5

\* The customer's answers; another of his requests is not on its way.
LEMMA AnswersByCustomer ==
  ASSUME AnswerInv, LoneCustomer, NEW r \in Customers,
         Approve(r) \/ Modify(r) \/ RejectEstimate(r) \/ RejectExtra(r)
  PROVE  Answering
  <1>1. r \in Requests /\ TypeOK /\ Slots /\ req' = [req EXCEPT ![r] = Idle] /\ Idle.at # "approve"
    BY DEF Requests, AnswerInv, Approve, Modify, RejectEstimate, RejectExtra, Finish, Idle
  <1>2. LiveParts' = LiveParts /\ \A p \in Parts : part'[p].line = part[p].line
    <2>1. \A p \in Parts : part'[p].status = part[p].status /\ part'[p].line = part[p].line
      BY <1>1 DEF Approve, Modify, RejectEstimate, RejectExtra, TypeOK, PartRow
    <2> QED
      BY <2>1 DEF LiveParts
  <1>3. NoneAnswers
    BY <1>1, <1>2, OneMoves DEF LiveParts
  <1>4. \A i \in Items, a \in Answers :
          /\ Answered(i, a) \in ItemRow
          /\ Answered(i, a).live = item[i].live /\ Answered(i, a).of = item[i].of
          /\ a = item[i].answer => Answered(i, a) = item[i]
    BY ZenonT(40), <1>1, AnsweredTypes DEF Answered, TypeOK, ItemRow
  <1>5. CASE Modify(r) \/ RejectEstimate(r)
    <2>1. item' = item /\ card'.approved = card.approved /\ card'.status # "SHARED"
      BY <1>1, <1>5 DEF Modify, RejectEstimate, TypeOK, CardRow
    <2>2. SameLines
      BY <2>1 DEF SameLines
    <2> QED
      BY <1>3, <2>1, <2>2, AnswersKept
  <1>6. CASE RejectExtra(r)
    <2>1. card'.approved = card.approved /\ card'.status # "SHARED"
      BY <1>1, <1>6 DEF RejectExtra, TypeOK, CardRow
    <2>2. NoPart \notin req[r].pend
      BY <1>1, EstimateAssumption DEF TypeOK, Request, NoPart
    <2>3. \A i \in Items : item'[i] = IF i \in Live /\ item[i].of \in req[r].pend
                                     THEN Answered(i, "no") ELSE item[i]
      BY <1>6 DEF RejectExtra
    <2>4. \A i \in Items : /\ item'[i].live = item[i].live /\ item'[i].of = item[i].of
                           /\ item[i].of = NoPart \/ i \notin Live => item'[i] = item[i]
      BY <1>4, <2>2, <2>3 DEF Answers
    <2>5. SameLines
      BY <2>4 DEF SameLines
    <2> QED
      BY <1>3, <2>1, <2>5, AnswersKept
  <1>7. CASE Approve(r)
    <2> DEFINE lines == {part[p].line : p \in Unanswered}
    <2>1. \A i \in Items : Answer(r, i) \in Answers
      BY <1>1 DEF Answer, Answers, TypeOK, ItemRow
    <2>2. \A i \in Items : item'[i] = IF i \in Live
                                     THEN [Answered(i, Answer(r, i)) EXCEPT !.assigned = @ \/ i \in lines]
                                     ELSE item[i]
      BY <1>7 DEF Approve
    <2>3. ASSUME NEW i \in Items
          PROVE  /\ item'[i].live = item[i].live /\ item'[i].of = item[i].of
                 /\ i \notin Live => item'[i] = item[i]
                 /\ Answer(r, i) = item[i].answer =>
                      item'[i].answer = item[i].answer /\ item'[i].asked = item[i].asked
      <3> DEFINE row == Answered(i, Answer(r, i))
      <3>1. row \in ItemRow /\ row.live = item[i].live /\ row.of = item[i].of
              /\ (Answer(r, i) = item[i].answer => row = item[i])
        BY <1>4, <2>1
      <3>2. CASE i \in Live
        <4>1. item'[i] = [row EXCEPT !.assigned = @ \/ i \in lines]
          BY <2>2, <3>2
        <4> HIDE DEF row, lines
        <4>2. /\ item'[i].live = row.live /\ item'[i].of = row.of
              /\ item'[i].answer = row.answer /\ item'[i].asked = row.asked
          BY <3>1, <4>1 DEF ItemRow
        <4> QED
          BY <3>1, <3>2, <4>2
      <3>3. CASE i \notin Live
        BY <2>2, <3>3
      <3> QED
        BY <3>2, <3>3
    <2>4. /\ card'.status = req[r].status
          /\ card'.approved = (card.approved \/ ~req[r].supp)
      BY <1>1, <1>7 DEF Approve, TypeOK, CardRow
    <2>5. req[r].at = "approve"
      BY <1>7 DEF Approve
    <2>6. CASE req[r].supp
      <3>1. ASSUME NEW i \in Items, item[i].of = NoPart, i \in Live
            PROVE  Answer(r, i) = item[i].answer
        <4>1. i \notin lines
          <5>1. SUFFICES ASSUME NEW p \in Unanswered, i = part[p].line
                         PROVE  FALSE
            OBVIOUS
          <5>2. p \in LiveParts /\ p \in Parts /\ p # NoPart /\ i # NoItem
            BY EstimateAssumption DEF Unanswered, LiveParts, NoPart, NoItem
          <5>3. item[i].of = p
            BY <5>1, <5>2 DEF AnswerInv, Lines
          <5> QED
            BY <3>1, <5>2, <5>3
        <4>2. i \notin req[r].list
          BY <1>1, <2>5, <2>6, <3>1 DEF AnswerInv, Rounds
        <4> QED
          BY <2>6, <4>1, <4>2 DEF Answer
      <3>2. SameLines
        BY <2>3, <3>1 DEF SameLines
      <3>3. Settled => req[r].status # "SHARED"
        BY <1>1, <2>5 DEF AnswerInv, Settling
      <3> QED
        BY <1>3, <2>4, <2>6, <3>2, <3>3, AnswersKept
    <2>7. CASE ~req[r].supp
      <3>1. ~Settled
        BY <1>1, <2>5, <2>7 DEF AnswerInv, Settling
      <3>2. req[r].status # "SHARED" /\ card'.approved
        BY <1>1, <2>4, <2>5, <2>7 DEF AnswerInv, Rounds
      <3>3. \A s \in Requests : req'[s].at # "approve"
        <4>1. \A s \in Requests : req[s].at = "approve" => s = r
          BY <1>1 DEF Slots, SlotOf, LoneCustomer
        <4> QED
          BY <1>1, <4>1 DEF TypeOK
      <3>4. Settling'
        BY <2>4, <3>2, <3>3 DEF Settling
      <3>5. Live' = Live
        BY <2>3 DEF Live
      <3>6. Lines'
        <4>1. \A i \in Items \ Live' : item'[i] = BlankItem
          BY <2>3, <3>5 DEF AnswerInv, Lines
        <4>2. ASSUME NEW p \in LiveParts', part'[p].line # NoItem
              PROVE  part'[p].line \in Live' /\ item'[part'[p].line].of = p
          <5>1. p \in LiveParts /\ part'[p].line = part[p].line
            BY <1>2, <4>2 DEF LiveParts
          <5>2. part[p].line \in Live /\ item[part[p].line].of = p
            BY <4>2, <5>1 DEF AnswerInv, Lines
          <5> QED
            BY <2>3, <3>5, <5>1, <5>2 DEF Live
        <4> QED
          BY <4>1, <4>2 DEF Lines, BlankItem
      <3>7. Rounds'
        BY <3>3 DEF Rounds
      <3>8. Stands
        BY <2>3, <3>1 DEF Stands, Settled, Live
      <3> QED
        BY <3>4, <3>6, <3>7, <3>8 DEF Answering
    <2> QED
      BY <2>6, <2>7
  <1> QED
    BY <1>5, <1>6, <1>7

\* A read other than that of an answer, or a step that fails.
LEMMA AnswersByRead ==
  ASSUME AnswerInv, NEW r \in Requests, UNCHANGED <<card, item, part>>,
         NEW q, req' = [req EXCEPT ![r] = q], q.at # "approve"
  PROVE  Answering
  <1>1. NoneAnswers
    BY OneMoves DEF AnswerInv, LiveParts
  <1>2. SameLines
    BY DEF SameLines
  <1> QED
    BY <1>1, <1>2, AnswersKept

\* The read of an answer decides what it may say.
LEMMA AnswersByApproveRead ==
  ASSUME AnswerInv, NEW r \in Customers, ApproveRead(r)
  PROVE  Answering
  <1>1. r \in Requests /\ TypeOK
    BY DEF Requests, AnswerInv
  <1>2. PICK list \in SUBSET req[r].list :
          Send(r, [Idle EXCEPT
                     !.at = "approve", !.supp = IsSupplementary(list), !.status = Outcome(list),
                     !.list = IF IsSupplementary(list) THEN list \cap Supplementary ELSE list,
                     !.all = Live])
    BY DEF ApproveRead
  <1> DEFINE q == req'[r]
             ticked == IF IsSupplementary(list) THEN list \cap Supplementary ELSE list
  <1>3. /\ q.supp = IsSupplementary(list) /\ q.status = Outcome(list) /\ q.list = ticked
        /\ \A s \in Requests : s # r => req'[s] = req[s]
    <2>1. q = [Idle EXCEPT !.at = "approve", !.supp = IsSupplementary(list), !.status = Outcome(list),
                           !.list = ticked, !.all = Live]
      BY <1>1, <1>2 DEF Send, TypeOK
    <2>2. \A s \in Requests : s # r => req'[s] = req[s]
      BY <1>1, <1>2 DEF Send, TypeOK
    <2> HIDE DEF q, ticked
    <2> QED
      BY <2>1, <2>2 DEF Idle
  <1>4. card.status \in {"SHARED", "MODIFICATION_REQUESTED"} /\ UNCHANGED <<card, item, part>>
    BY DEF ApproveRead, Opens
  <1>5. Live' = Live /\ LiveParts' = LiveParts /\ (Settled' <=> Settled)
    BY <1>4 DEF Live, LiveParts, Settled
  <1>6. Lines'
    BY <1>4, <1>5 DEF AnswerInv, Lines, BlankItem
  <1>7. Rounds'
    <2>1. ASSUME q.supp, NEW i \in q.list
          PROVE  item[i].of # NoPart
      <3>1. PICK p \in LiveParts : i = part[p].line /\ i # NoItem
        BY <1>3, <2>1 DEF Supplementary
      <3>2. item[i].of = p /\ p \in Parts
        BY <3>1 DEF AnswerInv, Lines, LiveParts
      <3> QED
        BY <3>2, EstimateAssumption DEF NoPart
    <2>2. ASSUME ~q.supp
          PROVE  q.status \in {"APPROVED", "PARTIALLY_APPROVED"}
      BY <1>3, <2>2 DEF Outcome
    <2> HIDE DEF q
    <2>3. ASSUME NEW s \in Requests, req'[s].at = "approve"
          PROVE  IF req'[s].supp THEN \A i \in req'[s].list \cap Live : item[i].of # NoPart
                                 ELSE req'[s].status \in {"APPROVED", "PARTIALLY_APPROVED"}
      <3>1. CASE s = r
        BY <2>1, <2>2, <3>1 DEF q
      <3>2. CASE s # r
        BY <1>3, <2>3, <3>2 DEF AnswerInv, Rounds
      <3> QED
        BY <3>1, <3>2
    <2> QED
      BY <1>4, <1>5, <2>3 DEF Rounds
  <1>8. Settling'
    <2>1. ASSUME Settled
          PROVE  q.supp /\ q.status # "SHARED"
      <3>1. card.approved /\ card.status = "MODIFICATION_REQUESTED"
        BY <1>4, <2>1 DEF AnswerInv, Settling
      <3>2. IsSupplementary(list)
        BY <3>1 DEF IsSupplementary
      <3>3. Outcome(list) # "SHARED"
        BY <3>1 DEF Outcome
      <3> QED
        BY <1>3, <3>2, <3>3
    <2> HIDE DEF q
    <2>2. ASSUME Settled, NEW s \in Requests, req'[s].at = "approve"
          PROVE  req'[s].supp /\ req'[s].status # "SHARED"
      <3>1. CASE s = r
        BY <2>1, <2>2, <3>1 DEF q
      <3>2. CASE s # r
        BY <1>3, <2>2, <3>2 DEF AnswerInv, Settling
      <3> QED
        BY <3>1, <3>2
    <2> QED
      BY <1>4, <1>5, <2>2 DEF AnswerInv, Settling
  <1>9. Stands
    BY <1>4 DEF Stands
  <1> QED
    BY <1>6, <1>7, <1>8, <1>9 DEF Answering

LEMMA AnswerStep == AnswerInv /\ LoneCustomer /\ [Next]_vars => AnswerInv' /\ Stands
  <1> SUFFICES ASSUME AnswerInv, LoneCustomer, [Next]_vars
               PROVE  AnswerInv' /\ Stands
    OBVIOUS
  <1>1. TypeOK' /\ Slots'
    BY StepTypes DEF AnswerInv
  <1>2. CASE UNCHANGED vars
    <2>1. Live' = Live /\ LiveParts' = LiveParts /\ (Settled' <=> Settled)
      BY <1>2 DEF vars, Live, LiveParts, Settled
    <2>2. Blank' /\ Lines' /\ Rounds' /\ Settling' /\ Stands
      BY <1>2, <2>1 DEF vars, AnswerInv, Blank, Lines, BlankItem, Rounds, Settling, Stands
    <2> QED
      BY <1>1, <2>2 DEF AnswerInv
  <1>3. CASE Next
    <2>1. Blank'
      BY <1>3, CardStays DEF AnswerInv, Blank
    <2>2. Advisors \subseteq Requests /\ Customers \subseteq Requests /\ PartsDesk \subseteq Requests
      BY DEF Requests
    <2>3. ASSUME NEW r \in Requests, Fail(r)
          PROVE  Answering
      <3>1. TypeOK /\ Idle.at # "approve"
        BY DEF AnswerInv, Idle
      <3>2. /\ card' = card /\ item' = item /\ LiveParts' = LiveParts
            /\ req' = [req EXCEPT ![r] = Idle] /\ \A p \in Parts : part'[p].line = part[p].line
        BY <2>3, <3>1, FailLeaves
      <3>3. NoneAnswers
        BY <3>1, <3>2, OneMoves DEF LiveParts
      <3>4. SameLines
        BY <3>2 DEF SameLines
      <3> QED
        BY <3>2, <3>3, <3>4, AnswersKept
    <2>4. ASSUME NEW r \in Advisors,
                 \/ RequestPartsRead(r) \/ ShareRead(r) \/ StaffApproveRead(r)
                 \/ \E n \in 1..MaxLines, withParts \in BOOLEAN : EditRead(r, n, withParts)
          PROVE  Answering
      <3>1. \A at \in {"request", "share", "staff"} : [Idle EXCEPT !.at = at].at # "approve"
        BY DEF Idle
      <3>2. \A n, withParts : [Idle EXCEPT !.at = "edit", !.status = card.status, !.n = n,
                                          !.withParts = withParts].at # "approve"
        BY DEF Idle
      <3>3. \E q : q.at # "approve" /\ req' = [req EXCEPT ![r] = q]
        <4>1. CASE RequestPartsRead(r) \/ ShareRead(r) \/ StaffApproveRead(r)
          BY <3>1, <4>1 DEF RequestPartsRead, ShareRead, StaffApproveRead, Begin
        <4>2. ASSUME NEW n, NEW withParts, EditRead(r, n, withParts)
              PROVE  \E q : q.at # "approve" /\ req' = [req EXCEPT ![r] = q]
          BY <3>2, <4>2 DEF EditRead, Begin
        <4> QED
          BY <2>4, <4>1, <4>2
      <3>4. UNCHANGED <<card, item, part>>
        BY <2>4 DEF RequestPartsRead, ShareRead, StaffApproveRead, EditRead
      <3> QED
        BY <2>2, <3>3, <3>4, AnswersByRead
    <2>5. ASSUME NEW r \in Customers, OpenPage(r) \/ ModifyRead(r) \/ RejectRead(r)
          PROVE  Answering
      <3>1. /\ [Idle EXCEPT !.at = "page", !.link = card.link, !.list = Asked].at # "approve"
            /\ [Idle EXCEPT !.at = "modify"].at # "approve"
            /\ [Idle EXCEPT !.at = "reject", !.status = card.status, !.pend = Unanswered].at # "approve"
        BY DEF Idle
      <3>2. \E q : q.at # "approve" /\ req' = [req EXCEPT ![r] = q]
        BY <2>5, <3>1 DEF OpenPage, ModifyRead, RejectRead, Begin, Send
      <3>3. UNCHANGED <<card, item, part>>
        BY <2>5 DEF OpenPage, ModifyRead, RejectRead
      <3> QED
        BY <2>2, <3>2, <3>3, AnswersByRead
    <2>6. ASSUME NEW r \in PartsDesk, NEW p \in Parts,
                 \/ \E at \in {"available", "unavailable"} : PartRead(r, p, at)
                 \/ \E to \in {"dispatched", "accepted", "pending"} : MoveRead(r, p, to)
          PROVE  Answering
      <3>1. /\ \A at \in {"available", "unavailable"} : [Idle EXCEPT !.at = at, !.part = p].at # "approve"
            /\ \A to : [Idle EXCEPT !.at = "move", !.part = p, !.to = to].at # "approve"
        BY DEF Idle
      <3>2. \E q : q.at # "approve" /\ req' = [req EXCEPT ![r] = q]
        BY <2>6, <3>1 DEF PartRead, MoveRead, Begin
      <3>3. UNCHANGED <<card, item, part>>
        BY <2>6 DEF PartRead, MoveRead
      <3> QED
        BY <2>2, <3>2, <3>3, AnswersByRead
    <2>7. Answering
      BY <1>3, <2>3, <2>4, <2>5, <2>6, StepIs, AnswersByWork, AnswersByAdvisor,
         AnswersByCustomer, AnswersByApproveRead, AnswersByDesk
    <2> QED
      BY <1>1, <2>1, <2>7 DEF AnswerInv, Answering
  <1> QED
    BY <1>2, <1>3

LEMMA AnswerInit == Init => AnswerInv
  <1> SUFFICES ASSUME Init
               PROVE  AnswerInv
    OBVIOUS
  <1>1. Live = {} /\ LiveParts = {} /\ \A r \in Requests : req[r].at = "idle"
    BY BlankInit
  <1>2. Lines /\ Rounds /\ Settling
    BY <1>1 DEF Init, Lines, Rounds, Settling, Settled
  <1> QED
    BY <1>2, InitTypes, BlankInit DEF AnswerInv

(* What the customer answered to the advisor's lines stands until a new link asks him, when
   his requests do not overlap: an answer to all lines goes to a card of which none has an
   answer yet, one about extra parts touches the lines of those parts only, and Edit takes
   the answers away with the lines. *)
THEOREM AnswersLast == LoneCustomer /\ Spec => AnswersStand
  <1> DEFINE Lasting == \A i \in Items :
                          item[i].of = NoPart /\ item[i].answer # "none" /\ item'[i].live
                            /\ item'[i].answer # item[i].answer => item[i].asked
  <1>1. AnswerInv /\ LoneCustomer /\ [Next]_vars => AnswerInv' /\ [Lasting]_vars
    BY AnswerStep DEF Stands
  <1>2. LoneCustomer => LoneCustomer'
    BY DEF LoneCustomer
  <1>3. AnswersStand <=> [][Lasting]_vars
    BY DEF AnswersStand
  <1> HIDE DEF Lasting
  <1> QED
    BY <1>1, <1>2, <1>3, AnswerInit, PTL DEF Spec

-----------------------------------------------------------------------------
(***************************************************************************)
(* A card that waits for the parts manager has something he can confirm,   *)
(* when the advisor's requests come one at a time and those of the parts   *)
(* desk do: an edit that has read DRAFT drops the parts another request of *)
(* the advisor asks for meanwhile, and three requests of the desk can take *)
(* the last pending part between them without counting.                    *)
(***************************************************************************)

LoneAdvisor == \A r, s \in Advisors : r = s

LoneDesk == \A r, s \in PartsDesk : r = s

Early == card.status \in {"none", "DRAFT", "PENDING_PARTS"}

(* Until the parts are confirmed nothing is out: no link and so no customer, no work and so
   no extra part; and an edit has read the status the card still has. *)
BeforeSharing ==
  Early =>
    /\ card.link = NoLink
    /\ \A i \in Items : item[i].of = NoPart /\ ~item[i].assigned
    /\ \A p \in Parts : ~part[p].tech
    /\ \A r \in Customers : req[r].at = "idle"
    /\ \A r \in PartsDesk : req[r].at # "addLine"
    /\ \A r \in Advisors : req[r].at = "edit" => req[r].status = card.status

(* A draft has no part requests, and the parts desk nothing to do. *)
Drafting ==
  card.status \in {"none", "DRAFT"} => LiveParts = {} /\ \A r \in PartsDesk : req[r].at = "idle"

(* What is asked of the parts manager is asked of a draft that has lines with parts. *)
Requesting ==
  \A r \in Advisors :
    req[r].at = "request" => card.status = "DRAFT" /\ \E i \in Live : item[i].parts

(* A part on the move to other than pending is not pending. *)
Moving ==
  \A r \in PartsDesk :
    req[r].at = "move" /\ req[r].to # "pending" /\ req[r].part \in LiveParts =>
      part[req[r].part].status # "pending"

PartsInv ==
  TypeOK /\ Slots /\ Blank /\ BeforeSharing /\ Drafting /\ Requesting /\ Moving

\* What NotStuckInParts says of a step.
Confirmable == ~Stuck /\ Stuck' => \E r \in PartsDesk : StopsUnconfirmed(r)

Waiting == BeforeSharing' /\ Drafting' /\ Requesting' /\ Confirmable

-----------------------------------------------------------------------------

\* Parts that become pending are not those on the move.
LEMMA MovingFrame ==
  ASSUME Moving,
         \A s \in PartsDesk : req'[s] = req[s] \/ req'[s].at # "move",
         \A s \in PartsDesk :
           req[s].at = "move" /\ req[s].to # "pending" /\ req'[s] = req[s] /\ req[s].part \in LiveParts'
             /\ part'[req[s].part].status = "pending" =>
               req[s].part \in LiveParts /\ part[req[s].part].status = "pending"
  PROVE  Moving'
  BY DEF Moving

\* Those made again are fresh: no request knows them.
LEMMA MadeAgain ==
  ASSUME part' = Dropped \/ \E rows : Regenerate(rows)
  PROVE  /\ \A p \in Parts : ~part'[p].tech
         /\ LiveParts' \cap KnownParts = {}
  <1>1. \A p \in Parts : Dropped[p] = BlankPart
    BY DEF Dropped
  <1>2. CASE part' = Dropped
    BY <1>1, <1>2 DEF BlankPart, LiveParts
  <1>3. ASSUME NEW rows, Regenerate(rows), part' # Dropped
        PROVE  (\A p \in Parts : ~part'[p].tech) /\ LiveParts' \cap KnownParts = {}
    <2>1. PICK p \in FreshPart({}), i \in Items :
            part' = [Dropped EXCEPT ![p] = [BlankPart EXCEPT !.status = "pending", !.item = i]]
      BY <1>3 DEF Regenerate
    <2>2. p \in Parts /\ p \notin KnownParts
      BY FreshTypes
    <2>3. \A q \in Parts : ~part'[q].tech /\ (q # p => part'[q].status = "unused")
      BY <1>1, <2>1, DroppedTypes DEF BlankPart
    <2> QED
      BY <2>2, <2>3 DEF LiveParts
  <1> QED
    BY <1>2, <1>3

LEMMA KnownOfRequest ==
  ASSUME NEW s \in Requests
  PROVE  req[s].part \in KnownParts
  <1>1. req[s].pend \cup {req[s].part} \in {req[t].pend \cup {req[t].part} : t \in Requests}
    OBVIOUS
  <1> QED
    BY <1>1 DEF KnownParts

\* Nobody else moves when one request does.
LEMMA OneAtATime ==
  ASSUME TypeOK, NEW r \in Requests, NEW q, req' = [req EXCEPT ![r] = q]
  PROVE  /\ req'[r] = q /\ \A s \in Requests : s # r => req'[s] = req[s]
         /\ LoneAdvisor /\ r \in Advisors => \A s \in Advisors : req'[s] = q
         /\ LoneDesk /\ r \in PartsDesk => \A s \in PartsDesk : req'[s] = q
         /\ r \in Advisors => \A s \in Customers \cup PartsDesk : req'[s] = req[s]
         /\ r \in Customers => \A s \in Advisors \cup PartsDesk : req'[s] = req[s]
         /\ r \in PartsDesk => \A s \in Advisors \cup Customers : req'[s] = req[s]
  <1>1. req'[r] = q /\ \A s \in Requests : s # r => req'[s] = req[s]
    BY DEF TypeOK
  <1> QED
    BY <1>1, EstimateAssumption DEF LoneAdvisor, LoneDesk, Requests

LEMMA MovingStep ==
  ASSUME PartsInv, LoneDesk, Next
  PROVE  Moving'
  <1>1. TypeOK /\ Slots /\ Moving
    BY DEF PartsInv
  <1>2. \A r : r \in Advisors \cup Customers \cup PartsDesk => r \in Requests
    BY DEF Requests
  <1>3. ASSUME NEW r \in Requests, NEW q, req' = [req EXCEPT ![r] = q], q.at # "move"
        PROVE  \A s \in PartsDesk : req'[s] = req[s] \/ req'[s].at # "move"
    BY <1>1, <1>2, <1>3, OneAtATime
  <1>4. Idle.at = "idle"
    BY DEF Idle
  <1>5. ASSUME req' = req, part' = part \/ \E i : RequestExtraParts(i)
        PROVE  Moving'
    <2>1. CASE part' = part
      BY <1>1, <1>5, <2>1, MovingFrame DEF LiveParts
    <2>2. ASSUME NEW i, RequestExtraParts(i)
          PROVE  Moving'
      <3>1. PICK p \in FreshPart(LiveParts) :
              part' = [part EXCEPT ![p] = [BlankPart EXCEPT !.status = "pending", !.tech = TRUE,
                                                            !.item = i]]
        BY <2>2 DEF RequestExtraParts
      <3>2. p \notin KnownParts /\ \A q \in Parts : q # p => part'[q] = part[q]
        BY <1>1, <3>1, FreshTypes DEF TypeOK
      <3>3. \A s \in PartsDesk : req[s].part # p
        BY <1>2, <3>2, KnownOfRequest
      <3> QED
        BY <1>1, <1>5, <3>2, <3>3, MovingFrame DEF LiveParts
    <2> QED
      BY <1>5, <2>1, <2>2
  <1>6. ASSUME NEW r \in Advisors, RequestParts(r) \/ Edit(r)
        PROVE  Moving'
    <2>1. part' = Dropped \/ \E rows : Regenerate(rows)
      BY <1>6 DEF RequestParts, Edit
    <2>2. \A s \in PartsDesk : req[s].part \notin LiveParts'
      BY <1>2, <2>1, MadeAgain, KnownOfRequest
    <2>3. req' = [req EXCEPT ![r] = Idle]
      BY <1>6 DEF RequestParts, Edit, Finish
    <2> QED
      BY <1>1, <1>2, <1>3, <1>4, <2>2, <2>3, MovingFrame
  <1>7. ASSUME NEW r \in Customers,
               Approve(r) \/ Modify(r) \/ RejectEstimate(r) \/ RejectExtra(r)
        PROVE  Moving'
    <2>1. req' = [req EXCEPT ![r] = Idle]
      BY <1>7 DEF Approve, Modify, RejectEstimate, RejectExtra, Finish
    <2>2. \A p \in Parts : part'[p].status = part[p].status
      BY <1>1, <1>7 DEF Approve, Modify, RejectEstimate, RejectExtra, TypeOK, PartRow
    <2> QED
      BY <1>1, <1>2, <1>3, <1>4, <2>1, <2>2, MovingFrame DEF LiveParts
  <1>8. ASSUME NEW r \in PartsDesk,
               \/ MarkAvailable(r) \/ AddLine(r) \/ MarkUnavailable(r) \/ Count(r) \/ Confirm(r)
               \/ Move(r)
        PROVE  Moving'
    <2>1. req[r] \in Request
      BY <1>1, <1>2 DEF TypeOK
    <2>2. req'[r].at \in {"idle", "addLine", "count", "confirm"}
      <3>1. req \in [Requests -> Request] /\ r \in Requests
        BY <1>1, <1>2 DEF TypeOK
      <3>2. CASE Finish(r)
        BY <1>4, <3>1, <3>2 DEF Finish
      <3>3. CASE MarkAvailable(r)
        BY <3>1, <3>3, <2>1 DEF MarkAvailable, Request
      <3>4. CASE MarkUnavailable(r)
        BY <3>1, <3>4, <2>1 DEF MarkUnavailable, Request
      <3>5. CASE req' = [req EXCEPT ![r].at = "confirm"]
        BY <3>1, <3>5, <2>1 DEF Request
      <3>6. CASE Count(r)
        BY <3>2, <3>5, <3>6 DEF Count
      <3>7. CASE AddLine(r) \/ Confirm(r) \/ Move(r)
        BY <3>2, <3>7 DEF AddLine, Confirm, Move
      <3> QED
        BY <1>8, <3>3, <3>4, <3>6, <3>7
    <2>3. \A s \in PartsDesk : s = r
      BY DEF LoneDesk
    <2> QED
      BY <2>2, <2>3 DEF Moving
  <1>9. ASSUME NEW r \in PartsDesk, NEW p \in Parts,
               NEW to \in {"dispatched", "accepted", "pending"}, MoveRead(r, p, to)
        PROVE  Moving'
    <2>1. req' = [req EXCEPT ![r] = [Idle EXCEPT !.at = "move", !.part = p, !.to = to]] /\ part' = part
      BY <1>9 DEF MoveRead, Begin
    <2>2. to # "pending" => part[p].status # "pending"
      BY <1>9 DEF MoveRead
    <2>3. \A s \in PartsDesk : req'[s] = [Idle EXCEPT !.at = "move", !.part = p, !.to = to]
      BY <1>1, <1>2, <2>1, OneAtATime
    <2>4. \A s \in PartsDesk : req'[s].part = p /\ req'[s].to = to
      BY <2>3 DEF Idle
    <2> QED
      BY <2>1, <2>2, <2>4 DEF Moving
  <1>10. ASSUME NEW r \in Requests, NEW q, req' = [req EXCEPT ![r] = q], q.at # "move", part' = part
         PROVE  Moving'
    BY <1>1, <1>3, <1>10, MovingFrame DEF LiveParts
  <1>11. ASSUME NEW r \in Requests, Fail(r)
         PROVE  Moving'
    <2>1. /\ LiveParts' = LiveParts /\ req' = [req EXCEPT ![r] = Idle]
          /\ \A p \in Parts : part'[p].status = part[p].status
      BY <1>1, <1>11, FailLeaves
    <2>2. LiveParts \subseteq Parts
      BY SetsOfLines
    <2> QED
      BY <1>1, <1>3, <1>4, <2>1, <2>2, MovingFrame
  <1>12. ASSUME NEW r \in PartsDesk, NEW p \in Parts, NEW at \in {"available", "unavailable"},
                PartRead(r, p, at)
         PROVE  Moving'
    <2>1. [Idle EXCEPT !.at = at, !.part = p].at # "move"
      BY DEF Idle
    <2> QED
      BY <1>2, <1>10, <1>12, <2>1 DEF PartRead, Begin
  <1>13. ASSUME NEW r \in Advisors \cup Customers, part' = part, NEW q, req' = [req EXCEPT ![r] = q]
         PROVE  Moving'
    <2>1. \A s \in PartsDesk : req'[s] = req[s]
      BY <1>1, <1>2, <1>13, OneAtATime
    <2> QED
      BY <1>1, <1>13, <2>1, MovingFrame DEF LiveParts
  <1>14. ASSUME NEW r \in Advisors, Share(r) \/ StaffApprove(r)
         PROVE  Moving'
    BY <1>13, <1>14 DEF Share, StaffApprove, Finish
  <1>15. ASSUME NEW r \in Advisors,
                \/ RequestPartsRead(r) \/ ShareRead(r) \/ StaffApproveRead(r)
                \/ \E n \in 1..MaxLines, withParts \in BOOLEAN : EditRead(r, n, withParts)
         PROVE  Moving'
    BY <1>1, <1>13, <1>15, AdvisorReads DEF Becomes
  <1>16. ASSUME NEW r \in Customers, OpenPage(r) \/ ApproveRead(r) \/ ModifyRead(r) \/ RejectRead(r)
         PROVE  Moving'
    BY <1>1, <1>13, <1>16, CustomerReads DEF Becomes
  <1>17. ASSUME \/ \E n \in 1..MaxLines, withParts \in BOOLEAN : CreateJobCard(n, withParts)
                \/ StartWork
                \/ \E i \in Items : RequestExtraParts(i) \/ Assign(i) \/ CompleteItem(i)
         PROVE  Moving'
    <2>1. req' = req
      BY <1>17 DEF CreateJobCard, StartWork, RequestExtraParts, Assign, CompleteItem
    <2>2. part' = part \/ \E i : RequestExtraParts(i)
      BY <1>17 DEF CreateJobCard, StartWork, Assign, CompleteItem
    <2> QED
      BY <1>5, <2>1, <2>2
  <1> QED
    BY StepIs, <1>6, <1>7, <1>8, <1>9, <1>11, <1>12, <1>14, <1>15, <1>16, <1>17

\* Once the parts are confirmed they stay so, and no request for them is on its way.
LEMMA Late ==
  ASSUME ~Early', \A s \in Advisors : req'[s].at # "request"
  PROVE  Waiting
  BY DEF Early, Waiting, BeforeSharing, Drafting, Requesting, Confirmable, Stuck

LEMMA StillLate ==
  ASSUME PartsInv, ~Early, ~Early', \A s \in Advisors : req'[s] = req[s] \/ req'[s].at # "request"
  PROVE  Waiting
  <1>1. \A s \in Advisors : req[s].at # "request"
    BY DEF PartsInv, Requesting, Early
  <1> QED
    BY <1>1, Late

LEMMA WaitingByWork ==
  ASSUME PartsInv,
         \/ \E n \in 1..MaxLines, withParts \in BOOLEAN : CreateJobCard(n, withParts)
         \/ StartWork
         \/ \E i \in Items : RequestExtraParts(i) \/ Assign(i) \/ CompleteItem(i)
  PROVE  Waiting
  <1>1. req' = req /\ TypeOK
    BY DEF CreateJobCard, StartWork, RequestExtraParts, Assign, CompleteItem, PartsInv
  <1>2. ASSUME NEW n, NEW withParts \in BOOLEAN, CreateJobCard(n, withParts)
        PROVE  Waiting
    <2>1. /\ card.status = "none" /\ card'.status = "DRAFT" /\ card'.link = card.link /\ part' = part
          /\ item' = Rebuilt(n, withParts)
      BY <1>1, <1>2 DEF CreateJobCard, TypeOK, CardRow
    <2>2. card.link = NoLink /\ LiveParts = {} /\ \A s \in Requests : req[s].at = "idle"
      BY <2>1 DEF PartsInv, Blank
    <2>3. \A i \in Items : item'[i].of = NoPart /\ ~item'[i].assigned
      BY <2>1 DEF Rebuilt, BlankItem
    <2>4. \A p \in Parts : ~part[p].tech
      BY <2>1 DEF PartsInv, BeforeSharing, Early
    <2>5. BeforeSharing'
      BY <1>1, <2>1, <2>2, <2>3, <2>4 DEF BeforeSharing, Requests
    <2>6. Drafting' /\ Requesting' /\ Confirmable
      BY <1>1, <2>1, <2>2 DEF Drafting, Requesting, Confirmable, Stuck, LiveParts, Requests
    <2> QED
      BY <2>5, <2>6 DEF Waiting
  <1>3. CASE StartWork
    <2>1. ~Early /\ ~Early'
      BY <1>1, <1>3 DEF StartWork, Early, TypeOK, CardRow
    <2> QED
      BY <1>1, <2>1, StillLate
  <1>4. ASSUME NEW k \in Items, RequestExtraParts(k) \/ Assign(k) \/ CompleteItem(k)
        PROVE  Waiting
    <2>1. ~Early
      BY <1>4 DEF RequestExtraParts, Assign, CompleteItem, PartsInv, BeforeSharing, Early
    <2>2. card' = card \/ card'.status = "FOREMAN_REVIEW"
      BY <1>1, <1>4 DEF RequestExtraParts, Assign, CompleteItem, TypeOK, CardRow
    <2>3. ~Early'
      BY <2>1, <2>2 DEF Early
    <2> QED
      BY <1>1, <2>1, <2>3, StillLate
  <1> QED
    BY <1>2, <1>3, <1>4

\* An advisor who reads, or whose step fails.
LEMMA WaitingByAdvisorRead ==
  ASSUME PartsInv, LoneAdvisor, NEW r \in Advisors, UNCHANGED <<card, item, part>>,
         NEW q, req' = [req EXCEPT ![r] = q],
         q.at = "edit" => q.status = card.status,
         q.at = "request" => card.status = "DRAFT" /\ \E i \in Live : item[i].parts
  PROVE  Waiting
  <1>1. /\ \A s \in Advisors : req'[s] = q
        /\ \A s \in Customers \cup PartsDesk : req'[s] = req[s]
    BY OneAtATime DEF PartsInv, Requests
  <1>2. Live' = Live /\ LiveParts' = LiveParts
    BY DEF Live, LiveParts
  <1>3. BeforeSharing'
    BY <1>1 DEF PartsInv, BeforeSharing, Early
  <1>4. Drafting' /\ Confirmable
    BY <1>1, <1>2 DEF PartsInv, Drafting, Confirmable, Stuck
  <1>5. Requesting'
    BY <1>1, <1>2 DEF Requesting
  <1> QED
    BY <1>3, <1>4, <1>5 DEF Waiting

\* A finite set of numbers has a least one: of the finite sets that had none, a smallest
\* would be left with none when one of its members is taken away.
LEMMA LeastExists ==
  ASSUME NEW S \in SUBSET Nat, IsFiniteSet(S), S # {}
  PROVE  \E x \in S : \A y \in S : x <= y
  <1> DEFINE HasLeast(T) == \E x \in T : \A y \in T : x <= y
             Bad == {T \in FiniteSubsetsOf(Nat) : T # {} /\ ~HasLeast(T)}
  <1>1. SUFFICES ASSUME Bad # {} PROVE FALSE
    BY DEF FiniteSubsetsOf
  <1>2. PICK T \in Bad : \A U \in Bad : ~(<<U, T>> \in StrictSubsetOrdering(Nat))
    <2>1. IsWellFoundedOn(StrictSubsetOrdering(Nat), FiniteSubsetsOf(Nat)) /\ Bad \subseteq FiniteSubsetsOf(Nat)
      BY FS_StrictSubsetOrderingWellFounded
    <2> QED
      BY <1>1, <2>1, WFMin
  <1>3. T # {} /\ T \subseteq Nat /\ IsFiniteSet(T) /\ ~HasLeast(T)
    BY DEF FiniteSubsetsOf
  <1>4. PICK x \in T : TRUE
    BY <1>3
  <1> DEFINE R == T \ {x}
  <1>5. R \in FiniteSubsetsOf(Nat) /\ <<R, T>> \in StrictSubsetOrdering(Nat)
    <2>1. IsFiniteSet(R) /\ R # T
      BY <1>3, <1>4, FS_RemoveElement
    <2> QED
      BY <1>3, <2>1 DEF FiniteSubsetsOf, StrictSubsetOrdering
  <1>6. R # {}
    BY <1>3, <1>4
  <1>7. PICK m \in R : \A y \in R : m <= y
    BY <1>2, <1>5, <1>6
  <1>8. x \in Nat /\ m \in Nat /\ m \in T /\ \A y \in T : y \in Nat /\ (y = x \/ m <= y)
    BY <1>3, <1>4, <1>7
  <1>9. CASE m <= x
    BY <1>3, <1>8, <1>9
  <1>10. CASE x <= m
    <2>1. \A y \in T : x <= y
      BY <1>8, <1>10
    <2> QED
      BY <1>3, <1>4, <2>1
  <1> QED
    BY <1>8, <1>9, <1>10

\* The lines of an edit with parts: the first of them asks for one.
LEMMA FirstAsks ==
  ASSUME TypeOK, NEW n \in 1..MaxLines, Cardinality(Fresh(n)) = n
  PROVE  \E i \in Items : /\ Rebuilt(n, TRUE)[i].live /\ Rebuilt(n, TRUE)[i].parts
                          /\ Rebuilt(n, TRUE)[i].of = NoPart
  <1>1. Fresh(n) \subseteq Nat
    BY FreshTypes, EstimateAssumption
  <1>2. Fresh(n) # {}
    BY FS_EmptySet, EstimateAssumption
  <1>3. PICK i \in Fresh(n) : \A k \in Fresh(n) : i <= k
    <2>1. IsFiniteSet(Fresh(n))
      BY FreshTypes, EstimateAssumption, FS_Subset
    <2> QED
      BY <1>1, <1>2, <2>1, LeastExists
  <1>4. i \in Items
    BY FreshTypes
  <1>5. Rebuilt(n, TRUE)[i] = [BlankItem EXCEPT !.live = TRUE, !.parts = TRUE /\ \A k \in Fresh(n) : i <= k]
    BY <1>3, <1>4 DEF Rebuilt
  <1>6. Rebuilt(n, TRUE)[i].live /\ Rebuilt(n, TRUE)[i].parts /\ Rebuilt(n, TRUE)[i].of = NoPart
    BY <1>3, <1>5 DEF BlankItem
  <1> QED
    BY <1>4, <1>6

\* And so one part request is made for them, which is pending.
LEMMA OnePending ==
  ASSUME NEW rows, Regenerate(rows), NEW i \in Items, rows[i].live, rows[i].parts, rows[i].of = NoPart
  PROVE  \E p \in LiveParts' : part'[p].status = "pending"
  <1>1. PICK p \in FreshPart({}), k \in Items :
          part' = [Dropped EXCEPT ![p] = [BlankPart EXCEPT !.status = "pending", !.item = k]]
    BY DEF Regenerate
  <1>2. p \in Parts
    BY FreshTypes
  <1>3. part'[p].status = "pending"
    BY <1>1, <1>2, DroppedTypes DEF BlankPart
  <1> QED
    BY <1>2, <1>3 DEF LiveParts

LEMMA WaitingByAdvisor ==
  ASSUME PartsInv, LoneAdvisor, NEW r \in Advisors,
         RequestParts(r) \/ Edit(r) \/ Share(r) \/ StaffApprove(r)
  PROVE  Waiting
  <1>1. TypeOK /\ Slots /\ r \in Requests /\ req' = [req EXCEPT ![r] = Idle] /\ Idle.at = "idle"
    BY DEF PartsInv, Requests, RequestParts, Edit, Share, StaffApprove, Finish, Idle
  <1>2. /\ \A s \in Advisors : req'[s].at = "idle"
        /\ \A s \in Customers \cup PartsDesk : req'[s] = req[s]
    <2>1. \A s \in Advisors : s = r
      BY DEF LoneAdvisor
    <2> QED
      BY <1>1, <2>1, OneAtATime
  <1>3. CASE RequestParts(r)
    <2>1. card.status = "DRAFT"
      BY <1>3 DEF RequestParts, PartsInv, Requesting
    <2>2. PICK i \in Live : item[i].parts
      BY <1>3 DEF RequestParts, PartsInv, Requesting
    <2>3. Early /\ BeforeSharing /\ item' = item /\ Regenerate(item)
      BY <1>3, <2>1 DEF Early, PartsInv, RequestParts
    <2>4. card'.status = "PENDING_PARTS" /\ card'.link = card.link
      BY <1>1, <1>3 DEF RequestParts, TypeOK, CardRow
    <2>5. \E p \in LiveParts' : part'[p].status = "pending"
      BY <2>2, <2>3, OnePending DEF BeforeSharing, Live
    <2>6. \A p \in Parts : ~part'[p].tech
      BY <2>3, MadeAgain
    <2>7. BeforeSharing'
      BY <1>2, <2>3, <2>4, <2>6 DEF BeforeSharing
    <2>8. Drafting' /\ Requesting' /\ Confirmable
      BY <1>2, <2>4, <2>5 DEF Drafting, Requesting, Confirmable, Stuck
    <2> QED
      BY <2>7, <2>8 DEF Waiting
  <1>4. CASE Edit(r) /\ Early'
    <2>1. /\ card'.status = IF Target(r) = req[r].status THEN card.status ELSE Target(r)
          /\ card'.link = IF Invalidates(r) THEN NoLink ELSE card.link
          /\ item' = Rebuilt(req[r].n, req[r].withParts)
          /\ IF Regenerates(r) THEN Regenerate(item') ELSE part' = Dropped
      BY <1>1, <1>4 DEF Edit, TypeOK, CardRow
    <2>2. req[r].status # "none" /\ req[r].n \in 1..MaxLines /\ Cardinality(Fresh(req[r].n)) = req[r].n
      BY <1>1, <1>4 DEF Edit, Slots, SlotOf
    <2>3. Target(r) = req[r].status
      BY <1>4, <2>1, <2>2 DEF Target, Early
    <2>4. Early /\ req[r].status = card.status /\ card'.status = card.status
      BY <1>4, <2>1, <2>3 DEF Early, PartsInv, BeforeSharing, Edit
    <2>5. req[r].status \in {"DRAFT", "PENDING_PARTS"} /\ card'.link = card.link
      BY <2>1, <2>2, <2>4 DEF Early, Invalidates
    <2>6. \A i \in Items : item'[i].of = NoPart /\ ~item'[i].assigned
      BY <2>1 DEF Rebuilt, BlankItem
    <2>7. \A p \in Parts : ~part'[p].tech
      BY <2>1, MadeAgain
    <2>8. BeforeSharing'
      BY <1>2, <2>4, <2>5, <2>6, <2>7 DEF PartsInv, BeforeSharing, Early
    <2>9. Requesting'
      BY <1>2 DEF Requesting
    <2>10. CASE req[r].status = "DRAFT"
      <3>1. part' = Dropped
        BY <2>1, <2>10 DEF Regenerates
      <3>2. LiveParts' = {}
        BY <3>1 DEF LiveParts, Dropped, BlankPart
      <3> QED
        BY <1>2, <2>4, <2>8, <2>9, <2>10, <3>2 DEF PartsInv, Drafting, Confirmable, Stuck, Waiting
    <2>11. CASE req[r].status = "PENDING_PARTS"
      <3>1. req[r].withParts = TRUE
        BY <1>1, <2>3, <2>11 DEF Target, TypeOK, Request
      <3>2. Regenerate(item')
        BY <2>1, <2>11, <3>1 DEF Regenerates
      <3>3. PICK i \in Items : item'[i].live /\ item'[i].parts /\ item'[i].of = NoPart
        BY <1>1, <2>1, <2>2, <3>1, FirstAsks
      <3>4. \E p \in LiveParts' : part'[p].status = "pending"
        BY <3>2, <3>3, OnePending
      <3> QED
        BY <2>4, <2>8, <2>9, <2>11, <3>4 DEF Drafting, Confirmable, Stuck, Waiting
    <2> QED
      BY <2>5, <2>10, <2>11
  <1>5. CASE ~Early'
    BY <1>2, <1>5, Late
  <1>6. CASE Share(r) \/ StaffApprove(r)
    <2>1. ~Early'
      BY <1>1, <1>6 DEF Share, StaffApprove, Early, TypeOK, CardRow
    <2> QED
      BY <1>5, <2>1
  <1> QED
    BY <1>3, <1>4, <1>5, <1>6

\* The customer comes when the estimate is out.
LEMMA WaitingByCustomer ==
  ASSUME PartsInv, NEW r \in Customers,
         \/ OpenPage(r) \/ ApproveRead(r) \/ ModifyRead(r) \/ RejectRead(r)
         \/ Approve(r) \/ Modify(r) \/ RejectEstimate(r) \/ RejectExtra(r)
  PROVE  Waiting
  <1>1. TypeOK /\ Slots /\ r \in Requests
    BY DEF PartsInv, Requests
  <1>2. ~Early
    <2>1. CASE OpenPage(r)
      BY <2>1 DEF OpenPage, PartsInv, BeforeSharing
    <2>2. CASE ~OpenPage(r)
      <3>1. req[r].at # "idle"
        BY <2>2
        DEF ApproveRead, ModifyRead, RejectRead, Opens, Approve, Modify, RejectEstimate, RejectExtra
      <3> QED
        BY <3>1 DEF PartsInv, BeforeSharing
    <2> QED
      BY <2>1, <2>2
  <1>3. ~Early'
    <2>1. CASE OpenPage(r) \/ ApproveRead(r) \/ ModifyRead(r) \/ RejectRead(r)
      BY <1>2, <2>1 DEF OpenPage, ApproveRead, ModifyRead, RejectRead, Early
    <2>2. CASE Approve(r)
      BY <1>1, <2>2 DEF Approve, Slots, SlotOf, Early, TypeOK, CardRow
    <2>3. CASE Modify(r) \/ RejectEstimate(r) \/ RejectExtra(r)
      BY <1>1, <2>3 DEF Modify, RejectEstimate, RejectExtra, Early, TypeOK, CardRow
    <2> QED
      BY <2>1, <2>2, <2>3
  <1>4. \E q : req' = [req EXCEPT ![r] = q]
    <2>1. CASE OpenPage(r) \/ ApproveRead(r) \/ ModifyRead(r) \/ RejectRead(r)
      BY <1>1, <2>1, CustomerReads DEF Becomes
    <2>2. CASE Approve(r) \/ Modify(r) \/ RejectEstimate(r) \/ RejectExtra(r)
      BY <2>2 DEF Approve, Modify, RejectEstimate, RejectExtra, Finish
    <2> QED
      BY <2>1, <2>2
  <1>5. \A s \in Advisors : req'[s] = req[s]
    BY <1>1, <1>4, OneAtATime
  <1> QED
    BY <1>2, <1>3, <1>5, StillLate

\* A request of the parts desk that takes up a part, or fails.
LEMMA WaitingByDeskRead ==
  ASSUME PartsInv, LoneDesk, NEW r \in PartsDesk, UNCHANGED <<card, item, part>>,
         NEW q, req' = [req EXCEPT ![r] = q], q.at # "addLine",
         (LiveParts # {} /\ req[r].at = "idle") \/ q.at = "idle"
  PROVE  Waiting
  <1>1. /\ \A s \in Advisors \cup Customers : req'[s] = req[s]
        /\ \A s \in PartsDesk : req'[s] = q /\ s = r
    <2>1. TypeOK /\ r \in Requests
      BY DEF PartsInv, Requests
    <2>2. \A s \in PartsDesk : s = r
      BY DEF LoneDesk
    <2>3. req'[r] = q /\ \A s \in Advisors \cup Customers : req'[s] = req[s]
      BY <2>1, OneAtATime
    <2> QED
      BY <2>2, <2>3
  <1>2. Live' = Live /\ LiveParts' = LiveParts
    BY DEF Live, LiveParts
  <1>3. BeforeSharing'
    BY <1>1 DEF PartsInv, BeforeSharing, Early
  <1>4. Drafting'
    BY <1>1, <1>2 DEF PartsInv, Drafting
  <1>5. Requesting'
    BY <1>1, <1>2 DEF PartsInv, Requesting
  <1>6. CASE req[r].at \in {"count", "confirm"}
    <2>1. StopsUnconfirmed(r)
      BY <1>1, <1>6 DEF StopsUnconfirmed
    <2> QED
      BY <1>3, <1>4, <1>5, <2>1 DEF Waiting, Confirmable
  <1>7. CASE req[r].at \notin {"count", "confirm"}
    <2>1. Confirmable
      BY <1>1, <1>2, <1>7 DEF Confirmable, Stuck
    <2> QED
      BY <1>3, <1>4, <1>5, <2>1 DEF Waiting
  <1> QED
    BY <1>6, <1>7

LEMMA WaitingByDesk ==
  ASSUME PartsInv, LoneDesk, NEW r \in PartsDesk,
         \/ MarkAvailable(r) \/ AddLine(r) \/ MarkUnavailable(r) \/ Count(r) \/ Confirm(r)
         \/ Move(r)
  PROVE  Waiting
  <1>1. TypeOK /\ Slots /\ r \in Requests /\ req[r] \in Request /\ req[r].at # "idle"
    BY DEF PartsInv, TypeOK, Requests, MarkAvailable, AddLine, MarkUnavailable, Count, Confirm, Move
  <1>2. \E q : req' = [req EXCEPT ![r] = q]
    BY <1>1
    DEF MarkAvailable, AddLine, MarkUnavailable, Count, Confirm, Move, Finish, TypeOK
  <1>3. \A s \in Advisors \cup Customers : req'[s] = req[s]
    BY <1>1, <1>2, OneAtATime
  <1>4. card.status \notin {"none", "DRAFT"}
    BY <1>1 DEF PartsInv, Drafting
  <1>5. \A s \in Advisors : req'[s].at # "request"
    BY <1>3, <1>4 DEF PartsInv, Requesting
  <1>6. CASE AddLine(r) \/ Confirm(r)
    <2>1. ~Early'
      BY <1>1, <1>6 DEF AddLine, Confirm, Early, TypeOK, CardRow
    <2> QED
      BY <1>5, <2>1, Late
  <1>7. CASE ~Early /\ ~AddLine(r) /\ ~Confirm(r)
    <2>1. ~Early'
      BY <1>7 DEF MarkAvailable, MarkUnavailable, Count, Move, Early
    <2> QED
      BY <1>5, <2>1, Late
  <1>8. CASE card.status = "PENDING_PARTS" /\ ~AddLine(r) /\ ~Confirm(r)
    <2>1. card' = card /\ Early /\ BeforeSharing
      BY <1>8 DEF MarkAvailable, MarkUnavailable, Count, Move, Early, PartsInv
    <2>2. item' = item /\ LiveParts' = LiveParts /\ \A p \in Parts : Keeps(r, p)
      BY <1>1, <1>8, PartOfStep
    <2>3. \A s \in PartsDesk : s = r
      BY DEF LoneDesk
    <2>4. \A p \in Parts : ~part[p].tech
      BY <2>1 DEF BeforeSharing
    <2>5. req[r].at \in {"available", "unavailable", "move"} => req[r].part \in Parts
      BY <1>1 DEF Slots, SlotOf
    <2>6. /\ req'[r].at # "addLine"
          /\ \/ Stuck \/ req'[r].at \in {"count", "confirm"}
             \/ \E p \in LiveParts' : part'[p].status = "pending"
      <3>1. CASE MarkAvailable(r) \/ MarkUnavailable(r)
        <4>1. req'[r].at = "count"
          BY <1>1, <2>4, <2>5, <3>1 DEF MarkAvailable, MarkUnavailable, TypeOK, Request
        <4> QED
          BY <4>1
      <3>2. CASE Count(r)
        <4>1. part' = part
          BY <3>2 DEF Count
        <4> QED
          BY <1>1, <2>2, <3>2, <4>1 DEF Count, Finish, Idle, TypeOK, Request
      <3>3. CASE Move(r)
        <4>1. req'[r].at = "idle"
          BY <1>1, <3>3 DEF Move, Finish, Idle, TypeOK
        <4>2. req[r].at = "move"
          BY <3>3 DEF Move
        <4> SUFFICES ASSUME ~Stuck
                     PROVE  \E p \in LiveParts' : part'[p].status = "pending"
          BY <4>1
        <4>3. PICK p \in LiveParts : part[p].status = "pending"
          BY <1>8, <2>3, <4>2 DEF Stuck
        <4>4. p \in Parts /\ p \in LiveParts'
          BY <2>2 DEF LiveParts
        <4>5. CASE p # req[r].part
          BY <2>2, <4>1, <4>3, <4>4, <4>5 DEF Keeps
        <4>6. CASE p = req[r].part
          <5>1. req[r].to = "pending"
            BY <4>2, <4>3, <4>6 DEF PartsInv, Moving
          <5>2. part' = [part EXCEPT ![p].status = "pending"]
            BY <3>3, <4>6, <5>1 DEF Move
          <5>3. part'[p].status = "pending"
            BY <1>1, <4>4, <5>2 DEF TypeOK, PartRow
          <5> QED
            BY <4>1, <4>4, <5>3
        <4> QED
          BY <4>5, <4>6
      <3> QED
        BY <1>8, <3>1, <3>2, <3>3
    <2>7. BeforeSharing'
      BY <1>3, <2>1, <2>2, <2>3, <2>4, <2>6 DEF BeforeSharing, Early, Keeps
    <2>8. Drafting' /\ Requesting' /\ Confirmable
      BY <1>5, <1>8, <2>1, <2>6 DEF Drafting, Requesting, Confirmable, Stuck
    <2> QED
      BY <2>7, <2>8 DEF Waiting
  <1> QED
    BY <1>4, <1>6, <1>7, <1>8 DEF Early

LEMMA PartsStepKeeps == PartsInv /\ LoneAdvisor /\ LoneDesk /\ [Next]_vars => PartsInv' /\ Confirmable
  <1> SUFFICES ASSUME PartsInv, LoneAdvisor, LoneDesk, [Next]_vars
               PROVE  PartsInv' /\ Confirmable
    OBVIOUS
  <1>1. TypeOK' /\ Slots'
    BY StepTypes DEF PartsInv
  <1>2. CASE UNCHANGED vars
    <2>1. Live' = Live /\ LiveParts' = LiveParts
      BY <1>2 DEF vars, Live, LiveParts
    <2>2. Blank' /\ Drafting' /\ Requesting' /\ Moving'
      BY <1>2, <2>1 DEF vars, PartsInv, Blank, Drafting, Requesting, Moving
    <2>3. BeforeSharing'
      BY <1>2 DEF vars, PartsInv, BeforeSharing, Early
    <2>4. Confirmable
      BY <1>2, <2>1 DEF vars, Confirmable, Stuck
    <2> QED
      BY <1>1, <2>2, <2>3, <2>4 DEF PartsInv
  <1>3. CASE Next
    <2>1. Blank'
      BY <1>3, CardStays DEF PartsInv, Blank
    <2>2. Moving'
      BY <1>3, MovingStep
    <2>3. \A r \in Advisors \cup Customers \cup PartsDesk : r \in Requests
      BY DEF Requests
    <2>4. Idle.at = "idle"
      BY DEF Idle
    <2>5. ASSUME NEW r \in Requests, Fail(r)
          PROVE  Waiting
      <3>1. /\ card' = card /\ item' = item /\ req' = [req EXCEPT ![r] = Idle] /\ req[r].at # "idle"
            /\ req[r].at # "addLine" => part' = part
        BY <2>5, FailLeaves DEF PartsInv
      <3>2. CASE r \in Advisors
        <4>1. req[r].at # "addLine"
          BY <3>2, EstimateAssumption DEF PartsInv, Slots, SlotOf, Requests
        <4> QED
          BY <2>4, <3>1, <3>2, <4>1, WaitingByAdvisorRead
      <3>3. CASE r \in PartsDesk /\ req[r].at # "addLine"
        BY <2>4, <3>1, <3>3, WaitingByDeskRead
      <3>4. CASE r \in Customers \/ (r \in PartsDesk /\ req[r].at = "addLine")
        <4>1. ~Early /\ ~Early'
          BY <3>1, <3>4 DEF PartsInv, BeforeSharing, Early
        <4>2. \A s \in Advisors : req'[s] = req[s]
          BY <2>5, <3>1, <3>4, OneAtATime DEF PartsInv
        <4> QED
          BY <4>1, <4>2, StillLate
      <3> QED
        BY <2>5, <3>2, <3>3, <3>4 DEF Requests
    <2>6. ASSUME NEW r \in Advisors, RequestPartsRead(r) \/ ShareRead(r) \/ StaffApproveRead(r)
          PROVE  Waiting
      <3>1. PICK at \in {"request", "share", "staff"} :
              /\ req' = [req EXCEPT ![r] = [Idle EXCEPT !.at = at]]
              /\ at = "request" => card.status = "DRAFT" /\ \E i \in Live : item[i].parts
        BY <2>6 DEF RequestPartsRead, ShareRead, StaffApproveRead, Begin
      <3>2. [Idle EXCEPT !.at = at].at = at
        BY DEF Idle
      <3>3. UNCHANGED <<card, item, part>>
        BY <2>6 DEF RequestPartsRead, ShareRead, StaffApproveRead
      <3> QED
        BY <3>1, <3>2, <3>3, WaitingByAdvisorRead
    <2>7. ASSUME NEW r \in Advisors, NEW n, NEW withParts, EditRead(r, n, withParts)
          PROVE  Waiting
      <3> DEFINE q == [Idle EXCEPT !.at = "edit", !.status = card.status, !.n = n,
                                   !.withParts = withParts]
      <3>1. req' = [req EXCEPT ![r] = q] /\ UNCHANGED <<card, item, part>>
        BY <2>7 DEF EditRead, Begin
      <3>2. q.at = "edit" /\ q.status = card.status
        BY DEF Idle
      <3> HIDE DEF q
      <3> QED
        BY <3>1, <3>2, WaitingByAdvisorRead
    <2>8. ASSUME NEW r \in PartsDesk, NEW p \in Parts,
                 \/ \E at \in {"available", "unavailable"} : PartRead(r, p, at)
                 \/ \E to \in {"dispatched", "accepted", "pending"} : MoveRead(r, p, to)
          PROVE  Waiting
      <3>1. /\ \A at \in {"available", "unavailable"} : [Idle EXCEPT !.at = at, !.part = p].at # "addLine"
            /\ \A to : [Idle EXCEPT !.at = "move", !.part = p, !.to = to].at # "addLine"
        BY DEF Idle
      <3>2. PICK q : q.at # "addLine" /\ req' = [req EXCEPT ![r] = q]
        BY <2>8, <3>1 DEF PartRead, MoveRead, Begin
      <3>3. UNCHANGED <<card, item, part>> /\ req[r].at = "idle" /\ part[p].status # "unused"
        BY <2>8 DEF PartRead, MoveRead, Begin
      <3>4. LiveParts # {}
        BY <3>3 DEF LiveParts
      <3> QED
        BY <3>2, <3>3, <3>4, WaitingByDeskRead
    <2>9. Waiting
      BY <1>3, <2>5, <2>6, <2>7, <2>8, StepIs, WaitingByWork, WaitingByAdvisor, WaitingByCustomer,
         WaitingByDesk
    <2> QED
      BY <1>1, <2>1, <2>2, <2>9 DEF PartsInv, Waiting
  <1> QED
    BY <1>2, <1>3

LEMMA PartsInit == Init => PartsInv
  <1> SUFFICES ASSUME Init
               PROVE  PartsInv
    OBVIOUS
  <1>1. LiveParts = {} /\ \A r \in Requests : req[r].at = "idle"
    BY BlankInit
  <1>2. BeforeSharing
    BY <1>1 DEF Init, BeforeSharing, BlankItem, BlankPart, Requests
  <1>3. Drafting /\ Requesting /\ Moving
    BY <1>1 DEF Init, Drafting, Requesting, Moving, Requests
  <1> QED
    BY <1>2, <1>3, InitTypes, BlankInit DEF PartsInv

(* With the requests of the advisor one at a time, and those of the parts desk too, only the
   stop of the request that would have confirmed it leaves a card that waits for the parts
   manager with no part pending; every request may stop between any two of its steps. *)
THEOREM PartsAreAwaited == LoneAdvisor /\ LoneDesk /\ Spec => NotStuckInParts
  <1>1. (LoneAdvisor => LoneAdvisor') /\ (LoneDesk => LoneDesk')
    BY DEF LoneAdvisor, LoneDesk
  <1>2. PartsInv /\ LoneAdvisor /\ LoneDesk /\ [Next]_vars => PartsInv' /\ [Confirmable]_vars
    BY PartsStepKeeps
  <1>3. NotStuckInParts <=> [][Confirmable]_vars
    BY DEF NotStuckInParts, Confirmable
  <1> QED
    BY <1>1, <1>2, <1>3, PartsInit, PTL DEF Spec

=============================================================================
