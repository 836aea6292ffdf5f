----------------------------- MODULE QcComparison -----------------------------
(***************************************************************************)
(* What an inspector may sign out (qc-out/service.ts, submitInspection),   *)
(* and what is read of it: the works to be done again, and the comparison  *)
(* of the checklist at the entry with the one at the exit.                 *)
(*                                                                         *)
(* An item of the exit names the item of the entry it was made from, a     *)
(* code and a label; None is NULL, as a status "none" is none.  Items and works are in the order they  *)
(* come from the client.  ServiceVisit has the statuses that follow.       *)
(***************************************************************************)
EXTENDS Integers, SequencesExt, FiniteSetsExt

None == 0

-----------------------------------------------------------------------------
(* submitInspection.                                                       *)

Failed(seq) == {n \in DOMAIN seq : seq[n].status = "FAIL"}

\* worksById: of two works for one item, the later.
WorkOn(works, item) == LET on == {n \in DOMAIN works : works[n].item = item} IN works[Max(on)]

Verified(works) == {works[n].item : n \in DOMAIN works}

\* Every finished item is verified and no other; one that failed fails the inspection.
\* A failed item of the checklist needs a photo, and fails nothing.
Accepted(body, roStatus, completed) ==
  /\ body.overallStatus \in {"PASS", "FAIL"}
  /\ body.items # <<>>
  /\ \A n \in Failed(body.items) : body.items[n].photos # {}
  /\ \A item \in completed : item \in Verified(body.works) /\ WorkOn(body.works, item).status # "none"
  /\ Verified(body.works) \subseteq completed
  /\ Failed(body.works) # {} => body.overallStatus = "FAIL"
  /\ roStatus = "QC_OUT"

\* `inspections` are those of a visit, in the order they were completed; photos go to the
\* item at their place.
SubmitInspection(inspections, body, roStatus, completed) ==
  IF Accepted(body, roStatus, completed) THEN Append(inspections, body) ELSE inspections

-----------------------------------------------------------------------------
(* Reading it.                                                             *)

\* getCompletedWorks: the photos of the repair, and of no other kind, go with the item.
CompletedWorks(items, photos) ==
  [i \in {i \in DOMAIN items : items[i].completedAt # None} |->
     {p \in photos : p.item = i /\ p.type = "REPAIR"}]

\* getFailedWorks: of the last inspection only.
FailedWorks(inspections) ==
  IF inspections = <<>> THEN {}
  ELSE LET works == Last(inspections).works IN {works[n].item : n \in Failed(works)}

\* getQcInItemsForCheckIn: the checklist of the exit is that of the entry.
Template(inItems) ==
  [n \in DOMAIN inItems |-> [qcIn |-> inItems[n].id, code |-> inItems[n].code, label |-> inItems[n].label]]

-----------------------------------------------------------------------------
(* getComparison.                                                          *)

\* A map keeps the last of two items with one key.
LastOr0(ns) == IF ns = {} THEN 0 ELSE Max(ns)

\* By the item it was made from, then by the code, then by the label; an item that has the
\* one is not looked for by the next.
MatchOf(i, outItems) ==
  LET byId    == {n \in DOMAIN outItems : outItems[n].qcIn = i.id}
      byCode  == {n \in DOMAIN outItems : outItems[n].qcIn = None /\ i.code # None /\ outItems[n].code = i.code}
      byLabel == {n \in DOMAIN outItems : outItems[n].qcIn = None /\ outItems[n].code = None /\ outItems[n].label = i.label}
  IN CASE byId # {} -> Max(byId)
       [] byId = {} /\ byCode # {} -> Max(byCode)
       [] OTHER -> LastOr0(byLabel)

\* What the entry does not know by any of the three.
IsOrphan(o, inItems) ==
  \A n \in DOMAIN inItems :
    o.qcIn # inItems[n].id /\ (o.code = None \/ o.code # inItems[n].code) /\ o.label # inItems[n].label

\* A row has the numbers of its two items, 0 where it has none.
Comparison(inItems, outItems) ==
  LET orphans == {n \in DOMAIN outItems : IsOrphan(outItems[n], inItems)}
  IN {[in |-> n, out |-> MatchOf(inItems[n], outItems)] : n \in DOMAIN inItems} \cup {[in |-> 0, out |-> n] : n \in orphans}

Damage(rows, inItems, outItems) ==
  {r \in rows : r.in # 0 /\ r.out # 0 /\ inItems[r.in].result = "PASS" /\ outItems[r.out].status = "FAIL"}

Fixed(rows, inItems, outItems) ==
  {r \in rows : r.in # 0 /\ r.out # 0 /\ inItems[r.in].result = "FAIL" /\ outItems[r.out].status = "PASS"}

MissingAtOut(rows) == {r \in rows : r.out = 0}

-----------------------------------------------------------------------------
(* What is said of it.                                                     *)

\* A vehicle that passed has every finished work verified, none of them as failed, and
\* nothing is left for the foreman to have done again.
PassedIsVerified(inspections, completed) ==
  inspections # <<>> /\ Last(inspections).overallStatus = "PASS" =>
    /\ Verified(Last(inspections).works) = completed
    /\ FailedWorks(inspections) = {}

\* The works that an allocation reopens are finished ones of this visit.
FailedIsCompleted(inspections, completed) == FailedWorks(inspections) \subseteq completed

\* "QC Out can use this list as the template": a checklist made of it is compared item by
\* item, whatever codes and labels occur twice, and all damage is told.
TemplateIsCompared(inItems, statuses) ==
  LET outItems == [n \in DOMAIN inItems |->
                     [qcIn |-> Template(inItems)[n].qcIn, code |-> Template(inItems)[n].code,
                      label |-> Template(inItems)[n].label, status |-> statuses[n]]]
      rows == Comparison(inItems, outItems)
  IN /\ rows = {[in |-> n, out |-> n] : n \in DOMAIN inItems}
     /\ {r.in : r \in Damage(rows, inItems, outItems)} = {n \in DOMAIN inItems : inItems[n].result = "PASS" /\ statuses[n] = "FAIL"}

\* Every item of the exit is in one row.  It is so where the keys of an item do not contradict
\* each other: an item made from another inspection, or with a code of its own, whose code or label
\* the entry knows is in none, and the damage it tells is in no count.
NothingIsHidden(inItems, outItems) ==
  LET key(i) == <<i.code, i.label>>
      apart(items) == \A m, n \in DOMAIN items : m # n => items[m].code # items[n].code /\ items[m].label # items[n].label
      agrees(o, i) == (o.code = i.code \/ o.label = i.label) => key(o) = key(i) /\ o.qcIn \in {None, i.id}
      unmade(o) == o.qcIn # None => \E n \in DOMAIN inItems : o.qcIn = inItems[n].id /\ key(o) = key(inItems[n])
  IN /\ apart(inItems) /\ apart(outItems)
     /\ \A m \in DOMAIN outItems : unmade(outItems[m]) /\ \A n \in DOMAIN inItems : agrees(outItems[m], inItems[n])
     => \A m \in DOMAIN outItems : Cardinality({r \in Comparison(inItems, outItems) : r.out = m}) = 1
==============================================================================
