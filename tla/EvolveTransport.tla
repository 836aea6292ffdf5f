--------------------------- MODULE EvolveTransport ---------------------------
(***************************************************************************)
(* What the client of Evolve (evolveIrm.service.ts) makes of the answers   *)
(* it gets: how often each call is tried, what a lookup is taken to say,   *)
(* and in which spellings a phone is kept and looked for.  EvolveSync and  *)
(* EvolveCustomers have the calls as actions; here one call is an operator *)
(* from the answers its attempts would get.                                *)
(*                                                                         *)
(* An answer is a record: `transport` is "ok", or how the request broke;   *)
(* `http` the class of the status; and of the body `parses`, the status    *)
(* of the request and of its row, the marker in its message and its rows.  *)
(***************************************************************************)
EXTENDS Integers, SequencesExt

\* What the connection may do to a request; only the transient ones are worth a retry.
Transports == {"ok", "transient", "fatal"}

Https == {"2xx", "4xx", "5xx"}

Markers == {"none", "no record", "no session"}

\* isTransientEvolveFailure: a body that names no record is an answer, whatever else it says.
IsTransientFailure(answer) == answer.marker = "no session"

\* How each call goes about its attempts.
Policies ==
  [callIrm             |-> [attempts |-> 2, transport |-> TRUE,  http |-> {}],
   callIrmAll          |-> [attempts |-> 3, transport |-> TRUE,  http |-> {}],
   postEvolveXml       |-> [attempts |-> 2, transport |-> TRUE,  http |-> {}],
   customerMaintenance |-> [attempts |-> 2, transport |-> FALSE, http |-> {"4xx", "5xx"}],
   roMaintenance       |-> [attempts |-> 2, transport |-> TRUE,  http |-> {"5xx"}]]

\* Whether one more attempt would follow this answer, if any is left.
Retries(call, answer) ==
  \/ answer.transport = "transient" /\ Policies[call].transport
  \/ answer.transport = "ok" /\ answer.http # "2xx" /\ answer.http \in Policies[call].http
  \/ answer.transport = "ok" /\ answer.http = "2xx" /\ IsTransientFailure(answer)

\* The attempt a call ends with.
Ends(call, answers) ==
  CHOOSE n \in 1 .. Policies[call].attempts :
    /\ n = Policies[call].attempts \/ ~Retries(call, answers[n])
    /\ \A m \in 1 .. n - 1 : Retries(call, answers[m])

LastAnswer(call, answers) == answers[Ends(call, answers)]

Throws(answer) == answer.transport # "ok" \/ answer.http # "2xx"

-----------------------------------------------------------------------------
(* What the answer is taken to say.                                        *)

\* Without a status S there are no rows, and a row without data is none.
Rows(answer) == IF answer.parses /\ answer.status = "S" THEN {r \in answer.rows : r # 0} ELSE {}

Classified(answer) ==
  IF Rows(answer) # {} THEN "FOUND"
  ELSE IF answer.marker = "no record" \/ answer.status = "S" THEN "NOT_FOUND" ELSE "UNAVAILABLE"

\* lookupCustomers, lookupCustomersOnly: never thrown.
LookUpAll(answers) ==
  LET last == LastAnswer("callIrmAll", answers) IN IF Throws(last) THEN "UNAVAILABLE" ELSE Classified(last)

\* lookupCustomer, lookupVehicleByVin, lookupByCustSequenceId: thrown, or empty for every other reason.
LookUpOne(answers) ==
  LET last == LastAnswer("callIrm", answers)
  IN IF Throws(last) THEN "thrown" ELSE IF Rows(last) # {} THEN "FOUND" ELSE "empty"

\* lookupRoHistory: ok with the entries that have a number or a reference, or not ok.
LookUpHistory(answers) ==
  LET last == LastAnswer("postEvolveXml", answers)
  IN IF Throws(last) \/ ~last.parses \/ last.status # "S" THEN [ok |-> FALSE] ELSE [ok |-> TRUE, entries |-> Rows(last)]

\* lookupPartInfo: whatever is not S with a part is no such part.
LookUpPart(answers) ==
  LET last == LastAnswer("postEvolveXml", answers)
  IN IF Throws(last) \/ ~last.parses THEN "UNAVAILABLE" ELSE IF Rows(last) # {} THEN "FOUND" ELSE "NOT_FOUND"

\* lookupCustomerArAccounts: one attempt, and every failure is no account.
LookUpAccounts(answer, accounts) ==
  IF Throws(answer) \/ ~answer.parses \/ answer.status \notin {"S", "none"} THEN <<>> ELSE accounts

\* customerMaintenance, roMaintenance: a warning of the row is a success.
Maintained(answer) == answer.parses /\ answer.status = "S" /\ answer.rowStatus \in {"S", "W"}

Maintenance(call, answers) ==
  LET last == LastAnswer(call, answers) IN IF Throws(last) THEN "thrown" ELSE IF Maintained(last) THEN "success" ELSE "refused"

\* parseArAccounts: the rows, then the blocks of each kind of account; a blank number is no
\* account and a number that came before is the same one.
Accounts(rows, blocks) ==
  LET numbered == SelectSeq(rows \o blocks, LAMBDA a : a.number # 0)
  IN SelectSeq([n \in DOMAIN numbered |-> [numbered[n] EXCEPT !.first = \A m \in 1 .. n - 1 : numbered[m].number # numbered[n].number]],
               LAMBDA a : a.first)

-----------------------------------------------------------------------------
(* Phones: sequences of digits, all that is left of what was written.      *)

CountryCode == <<2, 7>>

StartsWith(digits, prefix) == Len(digits) >= Len(prefix) /\ SubSeq(digits, 1, Len(prefix)) = prefix

WithoutZeros(digits) ==
  LET zeros == {n \in 0 .. Len(digits) : \A m \in 1 .. n : digits[m] = 0}
  IN SubSeq(digits, 1 + CHOOSE n \in zeros : \A m \in zeros : m <= n, Len(digits))

ToEvolvePhone(digits) ==
  IF digits = <<>> THEN <<>>
  ELSE LET d == WithoutZeros(digits) IN IF StartsWith(d, CountryCode) THEN d ELSE CountryCode \o d

SplitNumber(digits) == SubSeq(ToEvolvePhone(digits), 3, Len(ToEvolvePhone(digits)))

LegacyZeroPhone(digits) ==
  LET d == IF StartsWith(digits, CountryCode) /\ Len(digits) > 10 THEN SubSeq(digits, 3, Len(digits)) ELSE digits
  IN IF digits = <<>> THEN <<>> ELSE IF StartsWith(d, <<0>>) THEN d ELSE <<0>> \o d

PhoneSearchCandidates(digits) ==
  IF digits = <<>> THEN <<>>
  ELSE IF ToEvolvePhone(digits) = LegacyZeroPhone(digits) THEN <<ToEvolvePhone(digits)>>
  ELSE <<ToEvolvePhone(digits), LegacyZeroPhone(digits)>>

-----------------------------------------------------------------------------
(* The message of a repair order (buildRoMaintenanceXml).                  *)

\* Some fields are left out where there is nothing to say; the others are sent even blank.
LeftOutIfBlank == {"EngineNumber", "RegistrationDate", "SellingDealer", "ARAccountNo"}

RoFields(p) == [f \in {g \in DOMAIN p : g \in LeftOutIfBlank => p[g] # 0} |-> p[f]]

\* A card without jobs of its own is sent as one job.
JobRows(jobs, single) == IF jobs = <<>> THEN <<single>> ELSE jobs

\* What Evolve holds after a message: its fields, and of the others what was there.
Updated(held, message) == message @@ held

-----------------------------------------------------------------------------
(* What is said of it.                                                     *)

\* A request is sent again only while Evolve has not answered it, or had no session free: a
\* "no record" is an answer, whatever else its message says, and is never asked again.
SentAgainOnlyInDoubt(call, answers) ==
  \A n \in 1 .. Ends(call, answers) - 1 :
    /\ answers[n].transport # "fatal"
    /\ ~Throws(answers[n]) => answers[n].marker = "no session"

\* callIrmAll: a customer is said to be missing only by an answer of Evolve that says so, and
\* trouble on the way never hides one that the last attempt brings.
MissingIsSaidByEvolve(answers) ==
  LET last == LastAnswer("callIrmAll", answers)
  IN /\ LookUpAll(answers) = "NOT_FOUND" => ~Throws(last) /\ (last.status = "S" \/ last.marker = "no record")
     /\ LookUpAll(answers) = "FOUND" <=> ~Throws(last) /\ Rows(last) # {}
     /\ (\A n \in DOMAIN answers : Throws(answers[n])) => LookUpAll(answers) = "UNAVAILABLE"

\* lookupRoHistory: "no prior RO" is never said because the lookup failed.
NoHistoryIsAuthoritative(answers) ==
  LookUpHistory(answers).ok => \E n \in DOMAIN answers : ~Throws(answers[n]) /\ answers[n].status = "S"

\* A part that is not in Evolve is so on its word only where the sessions did not run out twice.
PartMissingIsSaid(answers) ==
  LET last == LastAnswer("postEvolveXml", answers)
  IN LookUpPart(answers) = "NOT_FOUND" /\ ~IsTransientFailure(last) /\ last.status = "S" => Rows(last) = {} /\ ~Throws(last)

\* "An authoritative NOT_FOUND": refuted where every attempt found no session free.
PartIsMissingForWantOfSessions(answers) ==
  (\A n \in DOMAIN answers : ~Throws(answers[n]) /\ answers[n].parses /\ answers[n].status = "F" /\ IsTransientFailure(answers[n]))
    => LookUpPart(answers) = "NOT_FOUND" /\ LookUpAll(answers) = "UNAVAILABLE"

\* parseArAccounts: every account that has a number is offered once.
AccountsAreOfferedOnce(rows, blocks) ==
  LET offered == Accounts(rows, blocks)
      numbers == {(rows \o blocks)[n].number : n \in DOMAIN (rows \o blocks)} \ {0}
  IN /\ {offered[n].number : n \in DOMAIN offered} = numbers
     /\ Len(offered) = Cardinality(numbers)

\* toEvolvePhone, "idempotent"; and a number written with a zero, with the country's code, with
\* both or bare is the same one, which both spellings look for.  The number of an area whose
\* code is the country's is not: written bare or with a zero it passes for an international one.
SpellingsAgree(national) ==
  LET written == {national, <<0>> \o national, CountryCode \o national, <<0, 0>> \o CountryCode \o national}
  IN /\ \A d \in written : ToEvolvePhone(ToEvolvePhone(d)) = ToEvolvePhone(d)
     /\ ~StartsWith(national, CountryCode) =>
          \A d \in written :
            /\ ToEvolvePhone(d) = CountryCode \o national
            /\ SplitNumber(d) = national
            /\ ~StartsWith(d, <<0, 0>>) => PhoneSearchCandidates(d) = <<CountryCode \o national, <<0>> \o national>>
     /\ StartsWith(national, CountryCode) => ToEvolvePhone(<<0>> \o national) # ToEvolvePhone(CountryCode \o national)

\* "An UPDATE can never blank a value Evolve already holds": so it is of the fields that are left out.
OptionalIsNeverBlanked(held, p) ==
  \A f \in LeftOutIfBlank \cap DOMAIN held : held[f] # 0 => Updated(held, RoFields(p))[f] # 0
==============================================================================
