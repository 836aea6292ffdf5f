--------------------------- MODULE MCVehicleVisits ---------------------------
(* The visits and inspections of a vehicle, and with them the pure parts of *)
(* the gate: the lists of vehicles, the sheet and the comparison at the exit.*)
EXTENDS VehicleVisits, Integers, FiniteSets, SequencesExt, TLC

MCVisits == 1 .. 2

MCInspections == 1 .. 2

MCPhotos == 1 .. 2

\* A vehicle to be inspected twice, and one to be photographed.
MCSeeds ==
  {[inspections |-> MCInspections, photos |-> {}], [inspections |-> {}, photos |-> MCPhotos]}

ClerkSymmetry == Permutations(Clerks)

------------------------------------------------------------------------------
(* Every sequence of four calls on a sheet of two items.                    *)

Q == INSTANCE QcSheet

Sheet == Q!Started(<<"EXTERIOR", "Engine">>)

Calls ==
  {[op |-> "items", category |-> c, results |-> i :> r] :
     c \in {"EXTERIOR", "Engine"}, i \in 1 .. 2, r \in {"PASS", "FAIL"}}
  \cup {[op |-> op, item |-> 1, file |-> 1] : op \in {"photo", "delete"}}
  \cup {[op |-> "signature", file |-> f] : f \in 2 .. 3}
  \cup {[op |-> "findings", overallStatus |-> "GOOD"], [op |-> "submit"],
        [op |-> "confirm", components |-> <<1>>, rework |-> "some", timeIn |-> 1]}

ASSUME SheetsAreSound ==
  \A calls \in [1 .. 4 -> Calls] :
    LET before == Q!After(Sheet, Front(calls))
        sheet == Q!Apply(before, Last(calls))
    IN /\ Q!SubmittedIsSigned(sheet)
       /\ Q!SubmittedIsFinal(before, Last(calls))
       /\ Q!NoDanglingFile(sheet)
       /\ Q!FailedHasPhoto(sheet, calls)
       /\ Q!ReportsAgree(sheet)

------------------------------------------------------------------------------
(* A submission after none or a failed one, with up to three works for two  *)
(* items; two items at the entry and two at the exit.                       *)

C == INSTANCE QcComparison

SubmitBodies(worksAtMost) ==
  [overallStatus : {"PASS", "FAIL"},
   items : {<<[status |-> s, photos |-> p]>> : s \in {"PASS", "FAIL"}, p \in {{}, {1}}},
   works : UNION {[1 .. n -> [item : 1 .. 2, status : {"PASS", "FAIL", "NA", "none"}]] : n \in 0 .. worksAtMost}]

ASSUME SubmissionsAreSound ==
  \A body \in SubmitBodies(3), completed \in SUBSET (1 .. 2), inspected \in BOOLEAN :
    LET first == [overallStatus |-> "FAIL", items |-> <<>>, works |-> <<[item |-> 1, status |-> "FAIL"]>>]
        before == IF inspected /\ 1 \in completed THEN <<first>> ELSE <<>>
        inspections == C!SubmitInspection(before, body, "QC_OUT", completed)
    IN /\ C!PassedIsVerified(inspections, completed)
       /\ C!FailedIsCompleted(inspections, completed)

ASSUME ComparisonIsSound ==
  \A codes \in [1 .. 2 -> 0 .. 2], labels \in [1 .. 2 -> 1 .. 2] :
    LET inItems(results) ==
          [n \in 1 .. 2 |-> [id |-> n, code |-> codes[n], label |-> labels[n], result |-> results[n]]]
    IN /\ \A results, statuses \in [1 .. 2 -> {"PASS", "FAIL"}] : C!TemplateIsCompared(inItems(results), statuses)
       /\ \A outItems \in [1 .. 2 -> [qcIn : {0, 1, 2, 9}, code : 0 .. 2, label : 1 .. 3, status : {"FAIL"}]] :
            C!NothingIsHidden(inItems(<<"PASS", "PASS">>), outItems)

------------------------------------------------------------------------------
(* One or two vehicles with up to three visits.                            *)

V == INSTANCE VehicleLists

Vehicle(id, status, entry, vin, reg) ==
  [id |-> id, status |-> status, entry |-> entry, updated |-> 2, active |-> TRUE, deleted |-> FALSE, customer |-> 1, vin |-> vin, reg |-> reg]

SomeStatuses == {"Entry (Draft)", "Vehicle IN", "In Service", "Completed", "Cancelled", "Archived"}

VisitFlags == UNION {[1 .. n -> BOOLEAN] : n \in 0 .. 3}

VisitTables ==
  {[vehicles |-> {[Vehicle(1, s, e, 1, 1) EXCEPT !.active = a]},
    checkIns |-> {[id |-> n, vehicle |-> 1, time |-> n, active |-> f[n]] : n \in DOMAIN f},
    items |-> items, booked |-> booked] :
     s \in SomeStatuses, e \in 0 .. 1, a \in BOOLEAN, f \in VisitFlags, items \in {{}, {[visit |-> 2]}}, booked \in {{}, {1}}}

ASSUME ListsAreSound ==
  \A db \in VisitTables :
    /\ V!InsideCountsTheTab(db)
    /\ \A v \in db.vehicles :
         /\ V!EachVisitOnce(db, v)
         /\ V!BookedHidesTheLastVisit(db, v)
         /\ V!WarnedIsRefused(db, v)
         /\ V!PastCalledCurrent(db, v)

Numbered(id) == {Vehicle(id, s, 1, v, r) : s \in {"Vehicle IN", "Archived"}, v \in {-id, 1, 2}, r \in 0 .. 2}

NumberTables ==
  {[vehicles |-> {v, w, Vehicle(3, "Completed", 1, -3, 2)}, items |-> {}, booked |-> {},
    checkIns |-> {[id |-> n, vehicle |-> n, time |-> n, active |-> FALSE] : n \in 1 .. 3}] :
     v \in Numbered(1), w \in Numbered(2)}

Bodies == [vin : 0 .. 2, reg : 0 .. 2, status : {"same", "Vehicle IN", "Archived"}]

EvolveAnswers == [found : BOOLEAN, throws : {FALSE}, vin : 1 .. 2] \cup {[found |-> FALSE, throws |-> TRUE, vin |-> 1]}

\* Tables that the indexes allow.
ASSUME NumbersAreSound ==
  \A db \in {t \in NumberTables : \A v, w \in t.vehicles : ~V!Clash(v, w)} :
    /\ \A v, w \in db.vehicles : V!SiblingsShareVisits(db, v, w)
    /\ \A v \in db.vehicles, row \in Numbered(4) :
         /\ V!CancelledKeepsItsNumber(db, v, row)
         /\ \A body \in Bodies : V!ChecksFollowIndex(db, row, v, body)
    /\ \A term \in 1 .. 2, first, second \in EvolveAnswers : V!LookupFindsTheVehicle(db, term, <<first, second>>)

ASSUME TimelinesAreSound ==
  LET session(id) == {l \in [id : {id}, started : 1 .. 5, paused : 0 .. 6] : l.paused = 0 \/ l.paused >= l.started}
  IN \A k \in session(1), l \in session(2), completed \in 0 .. 6 : V!WorkIsToldOnce([completed |-> completed], {k, l})

\* Two finished events there are, and an archived row that cannot be revived.
ASSUME Surprises ==
  /\ \E p \in 3 .. 6 : Cardinality({e \in V!WorkEvents([completed |-> 6], {[id |-> 1, paused |-> p], [id |-> 2, paused |-> 6]}) : e.type = "WORK_COMPLETED"}) = 2
  /\ \E db \in NumberTables, v \in Numbered(1) : v \in db.vehicles /\ V!UpdateVehicle(db, v, [vin |-> 0, reg |-> 0, status |-> "Vehicle IN"]).outcome = "fails"
==============================================================================
