----------------------------- MODULE MCBackOffice -----------------------------
EXTENDS BackOffice, MCWorklists, Integers, Sequences, FiniteSets

MCNothing == [admin |-> 0, changes |-> 0, hours |-> 0, ticks |-> 0, requests |-> 0, completions |-> 0]

\* The permission and the store; the users; the users and the alerts; the
\* completions and the alerts; the completions and the store.
MCSeeds ==
  {[MCNothing EXCEPT !.changes = 2, !.requests = 2],
   [MCNothing EXCEPT !.admin = 3],
   [MCNothing EXCEPT !.admin = 1, !.hours = 2, !.ticks = 3],
   [MCNothing EXCEPT !.completions = 1, !.hours = 2, !.ticks = 2],
   [MCNothing EXCEPT !.completions = 2, !.requests = 1]}

------------------------------------------------------------------------------
(* Two lists and the franchises, with at most two rows in an answer.        *)

D == INSTANCE MasterData

UpTo(rows, max) == UNION {[1 .. n -> rows] : n \in 0 .. max}

MakeRows == {[key |-> <<k>>, label |-> l, active |-> TRUE] : k \in 1 .. 2, l \in 1 .. 2}

PairRows == {[key |-> <<c, 1, 1>>, label |-> <<1, l>>, active |-> TRUE] : c \in {D!Everyone, 1}, l \in {0, 2}}

Answered == [makes : UpTo(MakeRows, 2), colours : {<<>>, <<[key |-> <<2>>, label |-> 1, active |-> TRUE]>>}, pairs : UpTo(PairRows, 2)]

Cached ==
  {[makes |-> m, colours |-> c, pairs |-> p] :
     m \in UpTo({[key |-> <<1>>, label |-> l, active |-> TRUE] : l \in 1 .. 2}, 1), c \in {<<>>, <<[key |-> <<2>>, label |-> 3, active |-> TRUE]>>},
     p \in UpTo({[r EXCEPT !.active = a] : r \in PairRows, a \in BOOLEAN}, 1)}

ASSUME SyncsAreSound ==
  \A db \in Cached, data \in Answered :
    /\ D!SyncTwiceIsOnce(db, data)
    /\ D!NothingIsRemoved(db, data)
    /\ D!BlockedForGood(db, [makes |-> <<>>, colours |-> <<>>, pairs |-> <<>>], data)
    /\ D!EvolveDecides(db, data, 1)

ASSUME WarmsAreSound ==
  \A answer \in UpTo([code : 0 .. 2, year : 0 .. 1, name : 1 .. 2], 3) : D!YearlessCodesPileUp(<<>>, 1, answer)

\* "Until a per-company sync supersedes them": the pair of no company is still offered beside it.
ASSUME NotSuperseded ==
  \E db \in Cached, data \in Answered : Cardinality(D!OfferedPairs(D!SyncAll(db, data).db["pairs"], 1)) = 2

------------------------------------------------------------------------------
(* Descriptions of one or two words, catalogues of up to three rows.        *)

C == INSTANCE ModelCodes

Words == {<<1>>, <<2>>, <<1, 2>>, <<1, 2, 1>>}

Descriptions == {<<>>} \cup {<<w>> : w \in Words} \cup (Words \X Words)

FewDescriptions == {<<>>, <<<<1, 2>>>>, <<<<1>>, <<2>>>>, <<<<1, 2, 1>>>>}

CatalogueRows == {[code |-> c, description |-> d] : c \in 0 .. 2, d \in FewDescriptions}

Catalogues == {{r, s, t} : r \in CatalogueRows, s \in CatalogueRows, t \in CatalogueRows} \cup {{}}

ASSUME MatchesAreSound ==
  \A model \in Descriptions, catalogue \in Catalogues :
    /\ C!GivenCodesExist(model, catalogue)
    /\ \A mode \in C!Modes, stored \in {0, 9} : C!FailsClosed(mode, stored, model, catalogue)

ASSUME MoreRowsAreSound ==
  \A model \in FewDescriptions, catalogue \in Catalogues :
    /\ \A row \in CatalogueRows : C!MoreRowsNeverChangeTheCode(model, catalogue, {row})
    /\ \A other \in FewDescriptions : C!SpacingDoesNotMatter(model, other, catalogue)

ASSUME ResolverIsSound ==
  LET rows == {{}, {[code |-> 1, description |-> <<<<1, 2>>>>]}, {[code |-> 2, description |-> <<<<1, 2>>>>]}}
  IN \A history \in [1 .. 4 -> {[catalogue |-> c, fails |-> f] : c \in rows, f \in BOOLEAN}] :
       C!AnswersAreRecent(<<<<1>>, <<2>>>>, history)

\* A code may have been set meanwhile, and it is overwritten.
ASSUME FillingBlanks ==
  /\ \A mode \in C!Modes, read \in 0 .. 2, held \in 0 .. 2, a \in {<<"HIGH", 1>>, <<"MEDIUM", 1>>, <<"LOW", 0>>} :
       C!BlanksOnly(mode, read, a, held)
  /\ C!Persisted("WARN", 0, <<"HIGH", 1>>, 2) = 1
==============================================================================
