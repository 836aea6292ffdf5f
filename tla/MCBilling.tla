----------------------------- MODULE MCBilling -----------------------------
(* Instances of Billing for TLC. *)
EXTENDS Billing, FiniteSets, SequencesExt, TLC

\* Ids of a kind are interchangeable.
IdSymmetry == Permutations(Invoices) \cup Permutations(GatePasses) \cup Permutations(Requests)

-----------------------------------------------------------------------------
(* Every sequence of four calls on a card with two lines.                  *)

L == INSTANCE InvoiceLines

Line(name, manual, warranty) ==
  [name |-> name, parts |-> 10, evolve |-> 20, manual |-> manual, labour |-> 7, quantity |-> 2, warranty |-> warranty]

Lines == {<<Line("a", L!NoPrice, w), Line("b", 33, FALSE)>> : w \in BOOLEAN}

CardCalls ==
  {[op |-> "edit", lines |-> lines, percentage |-> 15] : lines \in Lines}
  \cup {[op |-> "available", name |-> name, unitPrice |-> 9, quantity |-> 2, extraLabour |-> 3] : name \in {"a", "c"}}
  \cup {[op |-> "approve", ticked |-> ticked] : ticked \in {{}, {1}, {3}}}
  \cup {[op |-> op] : op \in {"share", "reject"}}

Invoiced == {<<adjustments, discount>> : adjustments \in {<<>>, <<500>>, <<-70, 4>>}, discount \in {-20, 0, 32, 90, 9000}}

ASSUME InvoicesAreSound ==
  \A lines \in Lines, calls \in [1 .. 4 -> CardCalls] :
    LET card == L!After(L!ShareJobCard(L!Created(lines, 15)), calls)
    IN /\ L!PreviewIsTheInvoice(card)
       /\ \A i \in Invoiced : L!InvoiceAddsUp(card, i[1], i[2])
       /\ L!ShownIsInvoiced(card)
       /\ L!TotalIsInvoiced(card)
       /\ L!RefusedIsNotInvoiced(card)

\* Two visits with up to two cards each.
CardRow == [created : 1 .. 2, invoice : {"none", "GENERATED", "PAID"}, paid : {0, 5}]

VisitCards ==
  {cards \in SUBSET {c \in CardRow : c.paid = 5 <=> c.invoice = "PAID"} :
     Cardinality({c.created : c \in cards}) = Cardinality(cards)}

ASSUME QueueIsSound ==
  \A visits \in [1 .. 2 -> VisitCards] :
    /\ L!StatsAgree(visits)
    /\ L!PaidOwesNothing(visits[1])
=============================================================================
