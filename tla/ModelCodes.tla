------------------------------ MODULE ModelCodes ------------------------------
(***************************************************************************)
(* The model code a repair order is sent with: the match of a vehicle's    *)
(* model against the cached catalogue (services/modelCodeMatcher), the     *)
(* memory of its answers (modelCodeResolver), what is kept with the        *)
(* vehicle (vehicleModelCode) and what a sync does without a code          *)
(* (gateModelCode in jobCardEvolveSync).                                   *)
(*                                                                         *)
(* A description is a sequence of words, a word a sequence of letters;     *)
(* case and signs are gone.  The catalogue is a set of [code, description].*)
(***************************************************************************)
EXTENDS Integers, SequencesExt, FiniteSets

NoCode == 0

-----------------------------------------------------------------------------
(* The matcher.                                                            *)

\* normalise
Letters(description) == FlattenSeq(description)

Tokens(description) == Range(description) \ {<<>>}

\* A score is a fraction <<part, whole>>.
AtLeast(s, t) == s[1] * t[2] >= t[1] * s[2]

Jaccard(a, b) ==
  IF a = {} \/ b = {} THEN <<0, 1>> ELSE <<Cardinality(a \cap b), Cardinality(a \cup b)>>

Includes(long, short) == \E k \in 0 .. Len(long) - Len(short) : SubSeq(long, k + 1, k + Len(short)) = short

Containment(s, t) ==
  IF s # <<>> /\ Includes(s, t) THEN <<Len(t), Len(s)>>
  ELSE IF s # <<>> /\ Includes(t, s) THEN <<Len(s), Len(t)>> ELSE <<0, 1>>

FuzzyThreshold == <<3, 5>>

Codes(catalogue) == {r.code : r \in catalogue} \ {NoCode}

Scores(model, catalogue, code) ==
  LET descriptions == {r.description : r \in {x \in catalogue : x.code = code}}
  IN {Jaccard(Tokens(model), Tokens(d)) : d \in descriptions} \cup {Containment(Letters(d), Letters(model)) : d \in descriptions}

Reaching(model, catalogue, score) ==
  {c \in Codes(catalogue) : \E s \in Scores(model, catalogue, c) : AtLeast(s, score)}

Exact(model, catalogue) ==
  {r.code : r \in {x \in catalogue : x.code # NoCode /\ Letters(x.description) = Letters(model)}}

OneOf(codes, confidence) ==
  IF \E c \in codes : codes = {c} THEN <<confidence, CHOOSE c \in codes : TRUE>> ELSE <<"AMBIGUOUS", NoCode>>

\* matchModelCode: <<confidence, code>>
Match(model, catalogue) ==
  LET exact == Exact(model, catalogue)
      near == Reaching(model, catalogue, FuzzyThreshold)
      some == {c \in Codes(catalogue) : \E s \in Scores(model, catalogue, c) : s[1] > 0}
  IN IF Letters(model) = <<>> \/ Codes(catalogue) = {} THEN <<"UNRESOLVED", NoCode>>
     ELSE IF exact # {} THEN OneOf(exact, "HIGH")
     ELSE IF some = {} THEN <<"UNRESOLVED", NoCode>>
     ELSE IF near # {} THEN OneOf(near, "MEDIUM") ELSE <<"LOW", NoCode>>

-----------------------------------------------------------------------------
(* The resolver.                                                           *)

\* RESOLVE_MEMO_TTL_MS, in steps of the clock.
MemoTtl == 2

NoMemo == [at |-> -MemoTtl - 1]

\* resolveModelCode: a failed read is an answer that is not remembered.
Resolve(memo, now, model, catalogue, fails) ==
  LET result == Match(model, catalogue)
  IN IF Letters(model) = <<>> THEN [answer |-> <<"UNRESOLVED", NoCode>>, memo |-> memo]
     ELSE IF now - memo.at < MemoTtl THEN [answer |-> memo.result, memo |-> memo]
     ELSE IF fails THEN [answer |-> <<"UNRESOLVED", NoCode>>, memo |-> memo]
     ELSE [answer |-> result, memo |-> [at |-> now, result |-> result]]

Modes == {"OFF", "LOG", "WARN", "ENFORCE"}

\* gateModelCode: <<action, code>>
Gate(mode, stored, answer) ==
  IF stored # NoCode THEN <<"PROCEED", stored>>
  ELSE IF mode # "OFF" /\ answer[1] = "HIGH" THEN <<"PROCEED", answer[2]>>
  ELSE IF mode # "ENFORCE" THEN <<"PROCEED", NoCode>>
  ELSE IF answer[1] = "AMBIGUOUS" THEN <<"MANUAL", NoCode>> ELSE <<"DEFER", NoCode>>

\* resolveAndPersistModelCode, the read of the vehicle and the write: what the row holds by then
\* is overwritten.
Persisted(mode, read, answer, held) ==
  IF mode \in {"WARN", "ENFORCE"} /\ read = NoCode /\ answer[1] = "HIGH" THEN answer[2] ELSE held

-----------------------------------------------------------------------------
(* What is said of it.                                                     *)

\* "NO first-code fallback": a code that is sent is the only one of its description, so more
\* rows of the catalogue may take it away and never put another in its place.
MoreRowsNeverChangeTheCode(model, catalogue, more) ==
  LET before == Match(model, catalogue)
      after == Match(model, catalogue \cup more)
  IN before[1] = "HIGH" => after \in {before, <<"AMBIGUOUS", NoCode>>}

\* A code is given for HIGH and MEDIUM only, and it is one of the catalogue.
GivenCodesExist(model, catalogue) ==
  LET m == Match(model, catalogue)
  IN (m[1] \in {"HIGH", "MEDIUM"} <=> m[2] # NoCode) /\ (m[2] # NoCode => m[2] \in Codes(catalogue))

\* How words are separated does not matter where a code is sent; it does for a suggestion.
SpacingDoesNotMatter(model, other, catalogue) ==
  Letters(model) = Letters(other) => (Match(model, catalogue)[1] = "HIGH" <=> Match(other, catalogue)[1] = "HIGH")

\* Of a run of attempts each answer is one that a catalogue of the last MemoTtl steps gave, or
\* that the database could not give.  `history` is a sequence of [catalogue, fails].
AnswersAreRecent(model, history) ==
  LET run == FoldLeft(LAMBDA done, now :
                        LET r == Resolve(done.memo, now, model, history[now].catalogue, history[now].fails)
                        IN [memo |-> r.memo, answers |-> Append(done.answers, r.answer)],
                      [memo |-> NoMemo, answers |-> <<>>], [n \in DOMAIN history |-> n])
  IN \A now \in DOMAIN history :
       \/ \E then \in DOMAIN history : now - MemoTtl < then /\ then <= now /\ run.answers[now] = Match(model, history[then].catalogue)
       \/ history[now].fails /\ run.answers[now] = <<"UNRESOLVED", NoCode>>

\* "Fail-closed": under ENFORCE nothing proceeds without a code, and what proceeds with one that
\* was not stored had exactly one match.
FailsClosed(mode, stored, model, catalogue) ==
  LET gate == Gate(mode, stored, Match(model, catalogue))
  IN /\ mode = "ENFORCE" /\ gate[1] = "PROCEED" => gate[2] # NoCode
     /\ gate[2] # NoCode => gate[2] = stored \/ Exact(model, catalogue) = {gate[2]}

\* "Fill-blanks-only": a code that was there when the vehicle was read stays; one that is set
\* between the read and the write does not.
BlanksOnly(mode, read, answer, held) ==
  Persisted(mode, read, answer, held) # held => read = NoCode /\ answer[1] = "HIGH"
==============================================================================
