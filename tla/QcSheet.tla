------------------------------- MODULE QcSheet -------------------------------
(***************************************************************************)
(* The sheet an inspector fills in between the start and the submission of *)
(* an inspection (qc-inspections/service.ts).  A call is an operator from  *)
(* the sheet and the body to the sheet it leaves, which is the same one    *)
(* where the handler refuses.  Calls come one after the other here;        *)
(* VehicleVisits has the starts and submissions that overlap.              *)
(*                                                                         *)
(* A sheet has items, each with a category, a result and photos; a photo   *)
(* and a signature are numbers of files, `files` those that are stored.    *)
(***************************************************************************)
EXTENDS Integers, SequencesExt

Missing == "none"

\* createInspection: an item for each active template; without any there is no inspection.
Started(templates) ==
  [status |-> "IN_PROGRESS", step |-> 1, findings |-> Missing, signature |-> 0, files |-> {}, components |-> <<>>,
   rework |-> Missing, timeIn |-> 0,
   items |-> [i \in DOMAIN templates |-> [category |-> templates[i], result |-> Missing, photos |-> {}]]]

CanStart(vehicleStatus, templates, inspections) ==
  /\ vehicleStatus = "Vehicle IN"
  /\ \A i \in inspections : i.status = "COMPLETED"
  /\ templates # <<>>

\* Of the categories only the three of a car have a step of the wizard.
StepAfter(category, step) ==
  CASE category = "EXTERIOR" -> 2 [] category = "INTERIOR" -> 3 [] category = "BRAKE" -> 4 [] OTHER -> step

\* `results` has a result for some of the items; a failed one needs a photo, and one that
\* is of another category makes the whole call fail.
SaveStepItems(sheet, category, results) ==
  IF /\ sheet.status = "IN_PROGRESS"
     /\ \A i \in DOMAIN results :
          /\ i \in DOMAIN sheet.items /\ sheet.items[i].category = category
          /\ results[i] = "FAIL" => sheet.items[i].photos # {}
    THEN [sheet EXCEPT
            !.items = [i \in DOMAIN @ |-> IF i \in DOMAIN results THEN [@[i] EXCEPT !.result = results[i]] ELSE @[i]],
            !.step = StepAfter(category, @)]
    ELSE sheet

\* Photos come and go whatever the status of the inspection.
UploadItemPhoto(sheet, item, file) ==
  IF item \in DOMAIN sheet.items
    THEN [sheet EXCEPT !.items[item].photos = @ \cup {file}, !.files = @ \cup {file}]
    ELSE sheet

DeleteItemPhoto(sheet, item, file) ==
  IF item \in DOMAIN sheet.items /\ file \in sheet.items[item].photos
    THEN [sheet EXCEPT !.items[item].photos = @ \ {file}, !.files = @ \ {file}]
    ELSE sheet

SaveFindings(sheet, overallStatus) ==
  IF sheet.status = "IN_PROGRESS" THEN [sheet EXCEPT !.findings = overallStatus, !.step = 5] ELSE sheet

\* The components and the rework are replaced; a time the body leaves out stays.
SaveConfirmation(sheet, components, rework, timeIn) ==
  IF sheet.status = "IN_PROGRESS"
    THEN [sheet EXCEPT !.components = components, !.rework = rework, !.timeIn = IF timeIn = 0 THEN @ ELSE timeIn]
    ELSE sheet

\* The old file is deleted before the row names the new one.
UploadSignature(sheet, file) ==
  IF sheet.status = "IN_PROGRESS"
    THEN [sheet EXCEPT !.signature = file, !.files = (@ \ {sheet.signature}) \cup {file}]
    ELSE sheet

SubmitInspection(sheet) ==
  IF sheet.status = "IN_PROGRESS" /\ sheet.findings # Missing /\ sheet.signature # 0
    THEN [sheet EXCEPT !.status = "COMPLETED"]
    ELSE sheet

Apply(sheet, call) ==
  CASE call.op = "items"     -> SaveStepItems(sheet, call.category, call.results)
    [] call.op = "photo"     -> UploadItemPhoto(sheet, call.item, call.file)
    [] call.op = "delete"    -> DeleteItemPhoto(sheet, call.item, call.file)
    [] call.op = "findings"  -> SaveFindings(sheet, call.overallStatus)
    [] call.op = "confirm"   -> SaveConfirmation(sheet, call.components, call.rework, call.timeIn)
    [] call.op = "signature" -> UploadSignature(sheet, call.file)
    [] call.op = "submit"    -> SubmitInspection(sheet)

After(sheet, calls) == FoldLeft(Apply, sheet, calls)

-----------------------------------------------------------------------------
(* What is read of it.                                                     *)

With(sheet, result) == {i \in DOMAIN sheet.items : sheet.items[i].result = result}

\* The same counts in getInspectionDetails and in the answer of saveStepItems.
Summary(sheet) ==
  [totalItems |-> Len(sheet.items), passCount |-> Cardinality(With(sheet, "PASS")),
   failCount |-> Cardinality(With(sheet, "FAIL")), naCount |-> Cardinality(With(sheet, "NA")),
   pendingCount |-> Cardinality(With(sheet, Missing))]

CriticalIssuesDetected(sheet) == Summary(sheet).failCount > 0

\* The advisor's report (getQcReport) calls "not applicable" a warning and counts no pending items.
QcReport(sheet) ==
  [totalItems |-> Len(sheet.items), passCount |-> Cardinality(With(sheet, "PASS")),
   failCount |-> Cardinality(With(sheet, "FAIL")), warningCount |-> Cardinality(With(sheet, "NA"))]

\* The three buckets of a car are always there, others as the items come.
Categories(sheet) ==
  [c \in {"EXTERIOR", "INTERIOR", "BRAKE"} \cup {sheet.items[i].category : i \in DOMAIN sheet.items} |->
     {i \in DOMAIN sheet.items : sheet.items[i].category = c}]

\* The appointment of a visit: the one linked to it, or else the vehicle's latest.
AppointmentOf(appointments, visit) ==
  LET linked == {a \in appointments : a.checkIn = visit.id}
      latest == {a \in appointments : a.vehicle = visit.vehicle /\
                   \A b \in appointments : b.vehicle = visit.vehicle => b.created <= a.created}
  IN IF linked # {} THEN linked ELSE latest

-----------------------------------------------------------------------------
(* What is said of it.                                                     *)

\* submitInspection: what is submitted has findings and a signature whose file is stored.
SubmittedIsSigned(sheet) ==
  sheet.status = "COMPLETED" => sheet.findings # Missing /\ sheet.signature \in sheet.files

\* After the submission no call changes the report, but for its photos.
SubmittedIsFinal(sheet, call) ==
  sheet.status = "COMPLETED" =>
    LET after == Apply(sheet, call)
        plain(s) == [s EXCEPT !.files = {}, !.items = [i \in DOMAIN @ |-> [@[i] EXCEPT !.photos = {}]]]
    IN plain(after) = plain(sheet)

\* A row of a photo or a signature names a stored file.
NoDanglingFile(sheet) ==
  /\ sheet.signature # 0 => sheet.signature \in sheet.files
  /\ \A i \in DOMAIN sheet.items : sheet.items[i].photos \subseteq sheet.files

\* "Photo is required for all failed inspection items": true as long as no photo is deleted.
FailedHasPhoto(sheet, calls) ==
  (\A n \in DOMAIN calls : calls[n].op # "delete") => \A i \in With(sheet, "FAIL") : sheet.items[i].photos # {}

\* Every item is in one bucket, and the two reports count the same.
ReportsAgree(sheet) ==
  LET details == Summary(sheet)
      report == QcReport(sheet)
      buckets == Categories(sheet)
  IN /\ report.passCount + report.failCount + report.warningCount = details.totalItems - details.pendingCount
     /\ \A i \in DOMAIN sheet.items : Cardinality({c \in DOMAIN buckets : i \in buckets[c]}) = 1
==============================================================================
