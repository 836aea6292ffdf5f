------------------------------ MODULE MasterData ------------------------------
(***************************************************************************)
(* The lists that are fetched from Evolve and cached: makes, models,       *)
(* colours, service types, franchises and their departments                *)
(* (services/masterDataSync), the model codes of a make                    *)
(* (services/modelCodeCatalogWarm) and what a job card is offered of the   *)
(* franchises (modules/franchise-service-depts).                           *)
(*                                                                         *)
(* A table is a sequence of rows: `key` has the columns of its unique      *)
(* index, `label` what a sync refreshes and `active` what an administrator *)
(* decides.  None is NULL or blank.                                        *)
(***************************************************************************)
EXTENDS Integers, SequencesExt, FiniteSets

None == 0

-----------------------------------------------------------------------------
(* What is taken from an answer.                                           *)

\* Rows without a code are none, a name that is missing is the code.
Named(rows) ==
  LET coded == SelectSeq(rows, LAMBDA r : r.code # None)
  IN [n \in DOMAIN coded |-> IF coded[n].name = None THEN [coded[n] EXCEPT !.name = coded[n].code] ELSE coded[n]]

\* Technicians and advisors that an account may be mapped to.
Mappable(rows) == {r \in rows : r.active /\ r.number > 0}

\* fetchModelCodesForSeries: the first row of each code and year.
FirstOfEach(rows) ==
  LET fresh(n) == rows[n].code # None /\ \A m \in 1 .. n - 1 : <<rows[m].code, rows[m].year>> # <<rows[n].code, rows[n].year>>
      kept == SelectSeq([n \in DOMAIN rows |-> <<fresh(n), rows[n]>>], LAMBDA p : p[1])
  IN [n \in DOMAIN kept |-> kept[n][2]]

-----------------------------------------------------------------------------
(* Writing it: INSERT .. ON CONFLICT DO UPDATE, one statement per table.   *)

\* NULL is like nothing in a unique index.
Conflict(k, l) == k = l /\ \A n \in DOMAIN k : k[n] # None

Refreshed(table, old, new) ==
  CASE table = "models" -> old
    [] table = "pairs"  -> [old EXCEPT !.label = new.label, !.active = TRUE]
    [] OTHER            -> [old EXCEPT !.label = new.label]

\* One statement may not write a row twice.
Upsert(table, rows, data) ==
  IF \E m \in DOMAIN data, n \in DOMAIN data : m # n /\ Conflict(data[m].key, data[n].key)
  THEN [ok |-> FALSE, rows |-> rows]
  ELSE LET met(row, others) == {n \in DOMAIN others : Conflict(row.key, others[n].key)}
           updated == [n \in DOMAIN rows |->
                         IF met(rows[n], data) = {} THEN rows[n]
                         ELSE Refreshed(table, rows[n], data[CHOOSE m \in met(rows[n], data) : TRUE])]
       IN [ok |-> TRUE, rows |-> updated \o SelectSeq(data, LAMBDA row : met(row, rows) = {})]

\* syncAllMasterData: makes by name, models per make, then the other lists.
SyncOrder == <<"makes", "models", "conditions", "colours", "provinces", "serviceTypes", "roStatuses", "advisors", "pairs">>

\* Each statement commits by itself; the first that fails ends the sync.
SyncAll(db, data) ==
  FoldLeft(LAMBDA done, table :
             IF ~done.ok \/ data[table] = <<>> THEN done
             ELSE LET u == Upsert(table, done.db[table], data[table])
                  IN [ok |-> u.ok, db |-> [done.db EXCEPT ![table] = u.rows]],
           [ok |-> TRUE, db |-> db], SelectSeq(SyncOrder, LAMBDA table : table \in DOMAIN db))

\* warmCatalogForMake: the codes of a model, a year that is not told is NULL.
WarmCodes(rows, model, answer) ==
  LET fetched == FirstOfEach(answer)
  IN Upsert("codes", rows,
            [n \in DOMAIN fetched |-> [key |-> <<model, fetched[n].code, fetched[n].year>>, label |-> fetched[n].name, active |-> TRUE]])

-----------------------------------------------------------------------------
(* Franchises and departments.                                             *)

Labelled(row) == \A n \in DOMAIN row.label : row.label[n] # None

\* company_id IS NULL: a partial index keeps these rows apart by the other columns.
Everyone == -1

\* listFsd for a job card: of its company and of none.  The key is <<company, franchise, department>>.
OfferedPairs(rows, company) ==
  {row \in Range(rows) : row.active /\ Labelled(row) /\ row.key[1] \in {company, Everyone}}

-----------------------------------------------------------------------------
(* What is said of it.                                                     *)

\* "Idempotent upsert": the same answer a second time changes nothing.
SyncTwiceIsOnce(db, data) == SyncAll(SyncAll(db, data).db, data) = SyncAll(db, data)

\* An answer that names a row twice in one list fails whatever is cached: the lists before it are
\* refreshed and those after it are not, at this sync and at every later one.
BlockedForGood(db, other, data) ==
  LET done == SyncAll(db, data)
      at == CHOOSE n \in DOMAIN SyncOrder : SyncOrder[n] \in DOMAIN db /\ ~Upsert(SyncOrder[n], db[SyncOrder[n]], data[SyncOrder[n]]).ok
                /\ \A m \in 1 .. n - 1 : SyncOrder[m] \in DOMAIN db => Upsert(SyncOrder[m], db[SyncOrder[m]], data[SyncOrder[m]]).ok
  IN ~done.ok =>
       /\ ~SyncAll(other, data).ok
       /\ \A n \in at .. Len(SyncOrder) : SyncOrder[n] \in DOMAIN db => done.db[SyncOrder[n]] = db[SyncOrder[n]]

\* What was cached is never removed, so a card that names a row by its id still finds it.
NothingIsRemoved(db, data) ==
  \A table \in DOMAIN db : \A n \in DOMAIN db[table] : SyncAll(db, data).db[table][n].key = db[table][n].key

\* "Refreshes is_active": a pair that an administrator disabled or labelled is offered as Evolve
\* has it after a sync that brings it, and is hidden again if Evolve has no label for it.
EvolveDecides(db, data, company) ==
  SyncAll(db, data).ok =>
    \A n \in DOMAIN data["pairs"] :
      LET pair == data["pairs"][n]
      IN pair.key[1] \in {company, Everyone} =>
           (\E row \in OfferedPairs(SyncAll(db, data).db["pairs"], company) : row.key = pair.key) <=> Labelled(pair)

\* A warm that is repeated finds the codes that have a year, and adds those without one again.
YearlessCodesPileUp(rows, model, answer) ==
  LET once == WarmCodes(rows, model, answer)
      twice == WarmCodes(once.rows, model, answer)
      yearless == Len(SelectSeq(FirstOfEach(answer), LAMBDA r : r.year = None))
  IN /\ once.ok /\ twice.ok
     /\ Len(twice.rows) = Len(once.rows) + yearless
     /\ Range(twice.rows) = Range(once.rows)
==============================================================================
