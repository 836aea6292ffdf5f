------------------------------ MODULE Estimate ------------------------------
(***************************************************************************)
(* The estimate of one job card, from its draft to the work: the advisor   *)
(* edits and shares it (modules/service-advisors), the customer answers    *)
(* the link (modules/customer-approval), the parts manager prices and      *)
(* sends the parts (modules/parts-manager), and the technician asks for    *)
(* more of them while the work goes on.                                    *)
(*                                                                         *)
(* A request reads, decides, and writes later without looking again; the   *)
(* customer answers a page that was loaded some time ago.  The totals of   *)
(* the card are left out: no decision here reads them.                     *)
(***************************************************************************)
EXTENDS FiniteSets, Integers

CONSTANTS
  Items,        \* ids job_card_items rows get: bounds how many are inserted
  Parts,        \* ids part_requests rows get: bounds how many are inserted
  Links,        \* approval tokens: one more than customers need to know at a time
  MaxLines,     \* bounds the lines an advisor writes at once
  MaxExtra,     \* bounds the parts technicians ask for, of those at a time on the card
  MaxInFlight,  \* bounds how many requests overlap
  Advisors, Customers, PartsDesk     \* slots for requests in flight

ASSUME EstimateAssumption ==
  /\ Items \subseteq Nat \ {0} /\ IsFiniteSet(Items)
  /\ Links \subseteq Nat \ {0} /\ MaxLines \in Nat \ {0} /\ MaxInFlight \in Nat /\ MaxExtra \in Nat
  /\ Parts \subseteq Nat \ {0} /\ IsFiniteSet(Parts)
  /\ Advisors \cap Customers = {} /\ PartsDesk \cap (Advisors \cup Customers) = {}

NoItem == 0

NoPart == 0

NoLink == 0

Requests == Advisors \cup Customers \cup PartsDesk

VARIABLES
  card,         \* the job_cards row
  item,         \* item -> its row
  part,         \* part request -> its row
  req           \* request -> where it is and what it has read

vars == <<card, item, part, req>>

CardStatus ==
  {"none", "DRAFT", "PENDING_PARTS", "PARTS_CONFIRMED", "SHARED", "MODIFICATION_REQUESTED",
   "APPROVED", "PARTIALLY_APPROVED", "REJECTED", "IN_PROGRESS", "FOREMAN_REVIEW"}

\* approved: approved_at is set.  link: the approval token.
CardRow ==
  [status : CardStatus, approved : BOOLEAN, link : Links \cup {NoLink}]

\* answer: is_approved_by_customer.  asked: a link has been sent since.
\* of: the part request whose name the line bears.
ItemRow ==
  [live : BOOLEAN, parts : BOOLEAN, of : Parts \cup {NoPart},
   answer : {"none", "yes", "no"}, asked : BOOLEAN, assigned : BOOLEAN, done : BOOLEAN]

\* tech: requested_by_technician.  item and line: job_card_item_id and
\* supp_job_card_item_id.  answer: customer_approval_status.  cut: not a column; the
\* request that priced the part stopped before it wrote the extra line.
PartRow ==
  [status : {"unused", "pending", "available", "unavailable", "dispatched", "accepted"},
   tech : BOOLEAN, item : Items \cup {NoItem}, line : Items \cup {NoItem},
   answer : {"NOT_REQUIRED", "PENDING", "APPROVED", "REJECTED"}, cut : BOOLEAN]

\* status: of the card, as read, or what an answer leads to.  n and withParts: the lines of an edit.
\* link and list: of the page a customer has loaded, the lines it asks about; then the
\* lines ticked.  all and pend: the lines and the unanswered parts, as read.
Request ==
  [at : {"idle", "request", "edit", "share", "staff", "page", "approve", "modify", "reject",
         "available", "addLine", "unavailable", "count", "confirm", "move"},
   status : CardStatus, n : 0..MaxLines, withParts : BOOLEAN,
   link : Links \cup {NoLink}, list : SUBSET Items, all : SUBSET Items,
   supp : BOOLEAN, part : Parts \cup {NoPart}, pend : SUBSET Parts,
   to : {"none", "dispatched", "accepted", "pending"}]

Idle == [at |-> "idle", status |-> "none", n |-> 0, withParts |-> FALSE,
         link |-> NoLink, list |-> {}, all |-> {}, supp |-> FALSE, part |-> NoPart,
         pend |-> {}, to |-> "none"]

BlankItem == [live |-> FALSE, parts |-> FALSE, of |-> NoPart, answer |-> "none",
              asked |-> FALSE, assigned |-> FALSE, done |-> FALSE]

BlankPart == [status |-> "unused", tech |-> FALSE, item |-> NoItem, line |-> NoItem,
              answer |-> "NOT_REQUIRED", cut |-> FALSE]

TypeOK ==
  /\ card \in CardRow
  /\ item \in [Items -> ItemRow]
  /\ part \in [Parts -> PartRow]
  /\ req \in [Requests -> Request]

Init ==
  /\ card = [status |-> "none", approved |-> FALSE, link |-> NoLink]
  /\ item = [i \in Items |-> BlankItem]
  /\ part = [p \in Parts |-> BlankPart]
  /\ req = [r \in Requests |-> Idle]

-----------------------------------------------------------------------------

InFlight == {r \in Requests : req[r].at # "idle"}

Begin(r, q) ==
  /\ req[r].at = "idle" /\ Cardinality(InFlight) < MaxInFlight
  /\ req' = [req EXCEPT ![r] = q]

Finish(r) == req' = [req EXCEPT ![r] = Idle]

Live == {i \in Items : item[i].live}

LiveParts == {p \in Parts : part[p].status # "unused"}

\* Ids are never used again in the code; here not while a request in flight knows them.
KnownItems == UNION {req[r].list \cup req[r].all : r \in Requests}

KnownParts == UNION {req[r].pend \cup {req[r].part} : r \in Requests}

\* The n next ids.
Fresh(n) ==
  LET unused == Items \ (Live \cup KnownItems)
  IN {i \in unused : Cardinality({k \in unused : k < i}) < n}

FreshPart(taken) ==
  LET unused == Parts \ (taken \cup KnownParts)
  IN {p \in unused : \A q \in unused : p <= q}

FreshLink ==
  LET unused == Links \ ({card.link} \cup {req[r].link : r \in Requests})
  IN {k \in unused : \A l \in unused : k <= l}

\* Lines some part request of the card points to as supplementary.
Supplementary == {part[p].line : p \in LiveParts} \ {NoItem}

Unanswered == {p \in LiveParts : part[p].answer = "PENDING"}

\* n lines instead of those there are, whose part requests go with them.
Rebuilt(n, withParts) ==
  LET new == Fresh(n)
  IN [i \in Items |->
        IF i \in new THEN [BlankItem EXCEPT !.live = TRUE,
                                            !.parts = withParts /\ \A k \in new : i <= k]
                     ELSE BlankItem]

Dropped == [p \in Parts |-> BlankPart]

\* insertPendingPartRequests: the old ones go, one is made for the line that asks for parts.
Regenerate(rows) ==
  LET asking == {i \in Items : rows[i].live /\ rows[i].parts /\ rows[i].of = NoPart}
  IN IF asking = {} THEN part' = Dropped
     ELSE \E p \in FreshPart({}), i \in asking :
            part' = [Dropped EXCEPT ![p] = [BlankPart EXCEPT !.status = "pending", !.item = i]]

-----------------------------------------------------------------------------
(* The advisor.                                                            *)

CreateJobCard(n, withParts) ==
  /\ card.status = "none"
  /\ card' = [card EXCEPT !.status = "DRAFT"]
  /\ item' = Rebuilt(n, withParts)
  /\ UNCHANGED <<part, req>>

RequestPartsRead(r) ==
  /\ card.status = "DRAFT"
  /\ \E i \in Live : item[i].parts
  /\ Begin(r, [Idle EXCEPT !.at = "request"])
  /\ UNCHANGED <<card, item, part>>

RequestParts(r) ==
  /\ req[r].at = "request"
  /\ Regenerate(item)
  /\ card' = [card EXCEPT !.status = "PENDING_PARTS"]
  /\ Finish(r)
  /\ UNCHANGED <<item>>

IsEditLocked(s) ==
  s \in {"IN_PROGRESS", "IN_SERVICE", "FOREMAN_REVIEW", "FOREMAN_REJECTED", "COMPLETED",
         "REJECTED"}

\* An edit of the lines; one that leaves the estimate alone changes nothing here.
EditRead(r, n, withParts) ==
  /\ card.status # "none" /\ ~IsEditLocked(card.status)
  /\ Cardinality(Fresh(n)) = n
  /\ Begin(r, [Idle EXCEPT !.at = "edit", !.status = card.status, !.n = n,
                           !.withParts = withParts])
  /\ UNCHANGED <<card, item, part>>

\* resolveEditOutcome: what an edit makes of the status it has read.
Target(r) ==
  LET s == req[r].status
  IN CASE s = "DRAFT" -> "DRAFT"
       [] s = "PENDING_PARTS" -> IF req[r].withParts THEN s ELSE "PARTS_CONFIRMED"
       [] OTHER -> "PARTS_CONFIRMED"

Regenerates(r) == req[r].status = "PENDING_PARTS" /\ req[r].withParts

Invalidates(r) ==
  req[r].status \in {"SHARED", "APPROVED", "PARTIALLY_APPROVED", "MODIFICATION_REQUESTED"}

\* Mutant: the part requests are not made again.
EditDropParts(r) ==
  /\ req[r].at = "edit"
  /\ item' = Rebuilt(req[r].n, req[r].withParts)
  /\ part' = Dropped
  /\ card' = [card EXCEPT !.status = IF Target(r) = req[r].status THEN @ ELSE Target(r),
                          !.link = IF Invalidates(r) THEN NoLink ELSE @,
                          !.approved = IF Invalidates(r) THEN FALSE ELSE @]
  /\ Finish(r)

Edit(r) ==
  /\ req[r].at = "edit"
  /\ Cardinality(Fresh(req[r].n)) = req[r].n
  /\ item' = Rebuilt(req[r].n, req[r].withParts)
  /\ IF Regenerates(r) THEN Regenerate(item') ELSE part' = Dropped
  /\ card' = [card EXCEPT !.status = IF Target(r) = req[r].status THEN @ ELSE Target(r),
                          !.link = IF Invalidates(r) THEN NoLink ELSE @,
                          !.approved = IF Invalidates(r) THEN FALSE ELSE @]
  /\ Finish(r)

ShareRead(r) ==
  /\ card.status \in {"DRAFT", "PARTS_CONFIRMED", "MODIFICATION_REQUESTED"}
  /\ Begin(r, [Idle EXCEPT !.at = "share"])
  /\ UNCHANGED <<card, item, part>>

\* A new link; the one before opens nothing any more.
Share(r) ==
  /\ req[r].at = "share"
  /\ \E link \in FreshLink : card' = [card EXCEPT !.status = "SHARED", !.link = link]
  /\ item' = [i \in Items |-> [item[i] EXCEPT !.asked = item[i].live /\ item[i].of = NoPart]]
  /\ Finish(r)
  /\ UNCHANGED part

StaffApproveRead(r) ==
  /\ card.status = "SHARED"
  /\ Begin(r, [Idle EXCEPT !.at = "staff"])
  /\ UNCHANGED <<card, item, part>>

\* The lines and the part requests keep the answers they had.
StaffApprove(r) ==
  /\ req[r].at = "staff"
  /\ card' = [card EXCEPT !.status = "APPROVED", !.approved = TRUE]
  /\ Finish(r)
  /\ UNCHANGED <<item, part>>

-----------------------------------------------------------------------------
(* The customer.                                                           *)

\* Lines the page asks about.  One is new when it has no answer and is supplementary;
\* those inserted after an approval are just the supplementary ones, as an edit takes
\* the approval back.  The new ones are asked about when there are others.
Asked ==
  LET new == {i \in Live \cap Supplementary : item[i].answer = "none"}
      others == {i \in Live \ new : item[i].answer # "no"}
  IN IF new # {} /\ others # {} THEN new ELSE Live

\* getEstimateByToken: the customer loads the page.
OpenPage(r) ==
  /\ card.link # NoLink
  /\ Begin(r, [Idle EXCEPT !.at = "page", !.link = card.link, !.list = Asked])
  /\ UNCHANGED <<card, item, part>>

\* The link of the page still opens the card.
Opens(r, statuses) ==
  req[r].at = "page" /\ req[r].link = card.link /\ card.status \in statuses

Send(r, q) == req' = [req EXCEPT ![r] = q]

\* Mutant: a card the customer has approved in part may be approved again.
ApproveReadAgain(r) ==
  /\ Opens(r, {"SHARED", "MODIFICATION_REQUESTED", "PARTIALLY_APPROVED"})
  /\ \E list \in SUBSET req[r].list :
       Send(r, [Idle EXCEPT !.at = "approve", !.list = list, !.all = Live,
                            !.status = IF list \in {{}, Live} THEN "APPROVED"
                                                            ELSE "PARTIALLY_APPROVED"])
  /\ UNCHANGED <<card, item, part>>

\* A round is supplementary when the card was approved before and modified since, or
\* when every ticked line is.
IsSupplementary(list) ==
  \/ card.approved /\ card.status = "MODIFICATION_REQUESTED"
  \/ list # {} /\ list \subseteq Supplementary

\* The status an answer leads to.  A supplementary one: APPROVED when every other line
\* has its yes, else what it was.
Outcome(list) ==
  IF IsSupplementary(list)
    THEN IF \A i \in Live \ Supplementary : item[i].answer = "yes" THEN "APPROVED"
                                                                  ELSE card.status
    ELSE IF list # {} /\ Cardinality(list) < Cardinality(Live) THEN "PARTIALLY_APPROVED"
                                                               ELSE "APPROVED"

ApproveRead(r) ==
  /\ Opens(r, {"SHARED", "MODIFICATION_REQUESTED"})
  /\ \E list \in SUBSET req[r].list :
       Send(r, [Idle EXCEPT
                  !.at = "approve", !.supp = IsSupplementary(list), !.status = Outcome(list),
                  !.list = IF IsSupplementary(list) THEN list \cap Supplementary ELSE list,
                  !.all = Live])
  /\ UNCHANGED <<card, item, part>>

\* What the answer makes of a line.
Answer(r, i) ==
  LET partial == ~req[r].supp /\ req[r].status = "PARTIALLY_APPROVED"
      ticked == \/ i \in {part[p].line : p \in Unanswered}
                \/ (req[r].supp \/ partial) /\ i \in req[r].list
  IN IF ticked THEN "yes"
     ELSE IF partial /\ i \in req[r].all THEN "no" ELSE item[i].answer

\* The line with an answer.
Answered(i, answer) ==
  IF answer = item[i].answer THEN item[i]
  ELSE [item[i] EXCEPT !.answer = answer, !.asked = FALSE]

\* The card, its lines and every part request that waits for the customer.  A line of
\* such a part goes to the technician who asked for it.
Approve(r) ==
  /\ req[r].at = "approve"
  /\ card' = [card EXCEPT !.status = req[r].status, !.approved = @ \/ ~req[r].supp]
  /\ item' = [i \in Items |->
                IF i \in Live
                  THEN [Answered(i, Answer(r, i)) EXCEPT
                          !.assigned = @ \/ i \in {part[p].line : p \in Unanswered}]
                  ELSE item[i]]
  /\ part' = [p \in Parts |-> IF p \in Unanswered THEN [part[p] EXCEPT !.answer = "APPROVED"]
                                                  ELSE part[p]]
  /\ Finish(r)

ModifyRead(r) ==
  /\ Opens(r, {"SHARED"})
  /\ Send(r, [Idle EXCEPT !.at = "modify"])
  /\ UNCHANGED <<card, item, part>>

Modify(r) ==
  /\ req[r].at = "modify"
  /\ card' = [card EXCEPT !.status = "MODIFICATION_REQUESTED"]
  /\ Finish(r)
  /\ UNCHANGED <<item, part>>

RejectRead(r) ==
  /\ Opens(r, {"SHARED", "MODIFICATION_REQUESTED"})
  /\ Send(r, [Idle EXCEPT !.at = "reject", !.status = card.status, !.pend = Unanswered])
  /\ UNCHANGED <<card, item, part>>

RejectEstimate(r) ==
  /\ req[r].at = "reject" /\ req[r].status = "SHARED"
  /\ card' = [card EXCEPT !.status = "REJECTED"]
  /\ Finish(r)
  /\ UNCHANGED <<item, part>>

\* Of the extra parts only: their lines, found by name, are refused.
RejectExtra(r) ==
  /\ req[r].at = "reject" /\ req[r].status # "SHARED"
  /\ card' = [card EXCEPT !.status = "APPROVED"]
  /\ item' = [i \in Items |-> IF i \in Live /\ item[i].of \in req[r].pend
                                THEN Answered(i, "no") ELSE item[i]]
  /\ part' = [p \in Parts |-> IF p \in req[r].pend \cap LiveParts
                                THEN [part[p] EXCEPT !.answer = "REJECTED"] ELSE part[p]]
  /\ Finish(r)

-----------------------------------------------------------------------------
(* Parts.                                                                  *)

\* requestExtraParts, by the technician of the line.
RequestExtraParts(i) ==
  /\ i \in Live /\ item[i].assigned
  /\ Cardinality({p \in LiveParts : part[p].tech}) < MaxExtra
  /\ \E p \in FreshPart(LiveParts) :
       part' = [part EXCEPT ![p] = [BlankPart EXCEPT !.status = "pending", !.tech = TRUE,
                                                     !.item = i]]
  /\ UNCHANGED <<card, item, req>>

PartRead(r, p, at) ==
  /\ part[p].status = "pending"
  /\ Begin(r, [Idle EXCEPT !.at = at, !.part = p])
  /\ UNCHANGED <<card, item, part>>

\* markAvailable: the part gets its price, which a technician's part must have and the
\* customer must approve.
MarkAvailable(r) ==
  LET p == req[r].part
      extra == part[p].tech
  IN /\ req[r].at = "available"
     /\ part' = IF p \notin LiveParts THEN part
                ELSE [part EXCEPT ![p].status = "available",
                                  ![p].answer = IF extra THEN "PENDING" ELSE "NOT_REQUIRED",
                                  ![p].cut = FALSE]
     /\ req' = [req EXCEPT ![r].at = IF extra THEN "addLine" ELSE "count",
                           ![r].part = IF extra THEN p ELSE NoPart]
     /\ UNCHANGED <<card, item>>

\* The line, and the part pointed to it.
AddLine(r) ==
  LET p == req[r].part
  IN /\ req[r].at = "addLine"
     /\ \E i \in Fresh(1) :
          /\ item' = [item EXCEPT ![i] = [BlankItem EXCEPT !.live = TRUE, !.parts = TRUE,
                                                           !.of = p]]
          /\ part' = IF p \notin LiveParts THEN part
                     ELSE [part EXCEPT ![p].item = i, ![p].line = i, ![p].cut = FALSE]
     /\ card' = [card EXCEPT !.status = "MODIFICATION_REQUESTED"]
     /\ Finish(r)

MarkUnavailable(r) ==
  LET p == req[r].part
  IN /\ req[r].at = "unavailable"
     /\ part' = IF p \notin LiveParts THEN part ELSE [part EXCEPT ![p].status = "unavailable"]
     /\ req' = [req EXCEPT ![r].at = "count", ![r].part = NoPart]
     /\ UNCHANGED <<card, item>>

\* checkAndConfirmJobCard: parts still pending, or else the card is confirmed.
Count(r) ==
  /\ req[r].at = "count"
  /\ IF \E p \in LiveParts : part[p].status = "pending"
       THEN Finish(r)
       ELSE req' = [req EXCEPT ![r].at = "confirm"]
  /\ UNCHANGED <<card, item, part>>

Confirm(r) ==
  /\ req[r].at = "confirm"
  /\ card' = [card EXCEPT !.status = "PARTS_CONFIRMED"]
  /\ Finish(r)
  /\ UNCHANGED <<item, part>>

\* markDispatched, acceptDispatchedPart, rejectDispatchedPart; runPartEtaPromotionCheck,
\* which takes up an unavailable part again when it is expected to be there.
MoveRead(r, p, to) ==
  /\ part[p].status \in CASE to = "dispatched" -> {"available", "unavailable"}
                         [] to = "accepted"   -> {"dispatched"}
                         [] to = "pending"    -> {"dispatched", "unavailable"}
  /\ Begin(r, [Idle EXCEPT !.at = "move", !.part = p, !.to = to])
  /\ UNCHANGED <<card, item, part>>

Move(r) ==
  LET p == req[r].part
  IN /\ req[r].at = "move"
     /\ part' = IF p \notin LiveParts THEN part ELSE [part EXCEPT ![p].status = req[r].to]
     /\ Finish(r)
     /\ UNCHANGED <<card, item>>

-----------------------------------------------------------------------------
(* The work, as far as it meets the estimate (module TechnicianWork).      *)

Assign(i) ==
  /\ card.status \in {"APPROVED", "IN_PROGRESS"}
  /\ i \in Live /\ ~item[i].assigned
  /\ item' = [item EXCEPT ![i].assigned = TRUE]
  /\ UNCHANGED <<card, part, req>>

StartWork ==
  /\ card.status = "APPROVED"
  /\ \E i \in Live : item[i].assigned
  /\ card' = [card EXCEPT !.status = "IN_PROGRESS"]
  /\ UNCHANGED <<item, part, req>>

NobodyAwaited(i) == FALSE    \* mutant

\* A part of the line whose price the customer has not answered ...
AwaitsCustomer(i) == \E p \in Unanswered : part[p].item = i

\* ... or that has not been handed over.
AwaitsPart(i) ==
  \E p \in LiveParts :
    part[p].item = i /\ part[p].status \in {"pending", "unavailable", "available"}

\* completeItemWork with its checks, which a request may turn off.
CompleteItem(i) ==
  /\ i \in Live /\ item[i].assigned /\ ~item[i].done
  /\ ~AwaitsCustomer(i) /\ ~AwaitsPart(i)
  /\ item' = [item EXCEPT ![i].done = TRUE]
  /\ card' = IF \A k \in Live \ {i} : item[k].done
               THEN [card EXCEPT !.status = "FOREMAN_REVIEW"] ELSE card
  /\ UNCHANGED <<part, req>>

-----------------------------------------------------------------------------

\* The process stops, or the next statement fails: what is written stays, and a part may
\* be without its extra line, or its card unconfirmed.
Fail(r) ==
  LET p == req[r].part
  IN /\ req[r].at # "idle"
     /\ part' = IF req[r].at = "addLine" /\ p \in LiveParts
                  THEN [part EXCEPT ![p].cut = TRUE] ELSE part
     /\ Finish(r)
     /\ UNCHANGED <<card, item>>

AdvisorStep(r) ==
  \/ RequestPartsRead(r) \/ RequestParts(r)
  \/ \E n \in 1..MaxLines, withParts \in BOOLEAN : EditRead(r, n, withParts)
  \/ Edit(r) \/ ShareRead(r) \/ Share(r) \/ StaffApproveRead(r) \/ StaffApprove(r)

CustomerStep(r) ==
  OpenPage(r) \/ ApproveRead(r) \/ Approve(r) \/ ModifyRead(r) \/ Modify(r)
    \/ RejectRead(r) \/ RejectEstimate(r) \/ RejectExtra(r)

PartsStep(r) ==
  \/ \E p \in Parts : \/ \E at \in {"available", "unavailable"} : PartRead(r, p, at)
                      \/ \E to \in {"dispatched", "accepted", "pending"} : MoveRead(r, p, to)
  \/ MarkAvailable(r) \/ AddLine(r) \/ MarkUnavailable(r) \/ Count(r) \/ Confirm(r) \/ Move(r)

Next ==
  \/ \E n \in 1..MaxLines, withParts \in BOOLEAN : CreateJobCard(n, withParts)
  \/ StartWork
  \/ \E i \in Items : RequestExtraParts(i) \/ Assign(i) \/ CompleteItem(i)
  \/ \E r \in Advisors : AdvisorStep(r)
  \/ \E r \in Customers : CustomerStep(r)
  \/ \E r \in PartsDesk : PartsStep(r)
  \/ \E r \in Requests : Fail(r)

Spec == Init /\ [][Next]_vars

-----------------------------------------------------------------------------

\* The card waits for the parts manager, and nobody will confirm it.
Stuck ==
  /\ card.status = "PENDING_PARTS"
  /\ \A p \in LiveParts : part[p].status # "pending"
  /\ \A r \in PartsDesk : req[r].at \notin {"count", "confirm"}

\* Request r ends between its answer about a part and the confirmation of the card.
StopsUnconfirmed(r) ==
  req[r].at \in {"count", "confirm"} /\ req'[r].at = "idle" /\ card' = card

(* A card that waits for the parts manager has something to be confirmed: whatever
   edits regenerate or drop its part requests meanwhile, and wherever requests stop, no
   step leaves it PENDING_PARTS with nothing pending, a state that Share does not get it
   out of, nor the parts manager unless an unavailable part is made pending again, but the
   stop of the one request that would have confirmed it.
   With the advisor's requests one at a time, and the desk's: an edit that has read DRAFT
   drops the parts another request asks for, and three answers leave the last uncounted. *)
NotStuckInParts == [][~Stuck /\ Stuck' => \E r \in PartsDesk : StopsUnconfirmed(r)]_vars

(* What the customer answered to a line of the advisor's stands until he is asked again:
   neither a round about extra parts, nor rejecting them ("original scope preserved"),
   nor an answer from a page loaded before, changes it under the same link.  With the
   customer's requests one at a time: of two that overlap the later answers again. *)
AnswersStand ==
  [][\A i \in Items :
       item[i].of = NoPart /\ item[i].answer # "none" /\ item'[i].live
         /\ item'[i].answer # item[i].answer => item[i].asked]_vars

\* The extra line of part p is about to be written.
Coming(p) == \E r \in PartsDesk : req[r].at = "addLine" /\ req[r].part = p

(* When the card goes to the foreman the customer has answered every extra price he was
   asked, whatever the desk, the technician and he do meanwhile, but for one whose line
   the parts manager is writing at that moment or stopped before writing: such a part
   still belongs to the line it was asked for on, which may be done already. *)
HandedOverIsAnswered ==
  [][card.status # "FOREMAN_REVIEW" /\ card'.status = "FOREMAN_REVIEW" =>
       \A p \in Unanswered : Coming(p) \/ part[p].cut]_vars
=============================================================================
