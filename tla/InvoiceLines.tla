----------------------------- MODULE InvoiceLines -----------------------------
(***************************************************************************)
(* What a job card costs: its estimate (modules/service-advisors), the     *)
(* parts added to it while the work goes on (modules/parts-manager), what  *)
(* the customer refuses (modules/customer-approval) and the invoice that   *)
(* is made of it (modules/invoicing).  A call is an operator from the card *)
(* to the card it leaves; calls come one after the other here, Estimate    *)
(* and Billing have those that overlap.                                    *)
(*                                                                         *)
(* Money is a number of cents; amounts a client sends with an invoice are  *)
(* in mills, tenths of a cent.  Half a cent is left out: which way toFixed *)
(* takes it depends on the binary fraction.                                *)
(***************************************************************************)
EXTENDS Integers, SequencesExt, FiniteSetsExt

Rounded(n, d) == (2 * n + d) \div (2 * d)

AtLeast0(n) == IF n < 0 THEN 0 ELSE n

NoPrice == -1

\* resolveItemPrice: by hand, or from Evolve, or what the line says.
EffectivePrice(line) ==
  CASE line.manual # NoPrice -> line.manual
    [] line.manual = NoPrice /\ line.evolve # NoPrice -> line.evolve
    [] OTHER -> line.parts

LineTotal(item) == item.parts * item.quantity + item.labour

SumOf(seq, amount(_)) == MapThenSumSet(LAMBDA n : amount(seq[n]), DOMAIN seq)

SumSeq(seq) == SumOf(seq, LAMBDA n : n)

Totalled(card, subtotal) ==
  LET tax == Rounded(subtotal * card.percentage, 100)
  IN [card EXCEPT !.subtotal = subtotal, !.tax = tax, !.total = subtotal + tax]

-----------------------------------------------------------------------------
(* The card.  An item has the answer of the customer, "none" is NULL; an   *)
(* extra is a part a technician asked for, with the item that was made of  *)
(* it.                                                                     *)

Items(lines) ==
  [n \in DOMAIN lines |->
     [name |-> lines[n].name, parts |-> EffectivePrice(lines[n]), labour |-> lines[n].labour,
      quantity |-> lines[n].quantity, warranty |-> lines[n].warranty, answer |-> "none"]]

Priced(card, lines, percentage) ==
  LET items == Items(lines)
  IN Totalled([card EXCEPT !.items = items, !.extras = <<>>, !.percentage = percentage], SumOf(items, LineTotal))

Created(lines, percentage) ==
  Priced([status |-> "DRAFT", approved |-> FALSE, percentage |-> 0, subtotal |-> 0, tax |-> 0, total |-> 0,
          items |-> <<>>, extras |-> <<>>], lines, percentage)

\* isEstimateAffecting: the order of the lines is not looked at, nor is the warranty.
Signature(items) ==
  LET sig(n) == <<items[n].name, items[n].parts, items[n].labour, items[n].quantity>>
  IN [s \in {sig(n) : n \in DOMAIN items} |-> Cardinality({n \in DOMAIN items : sig(n) = s})]

\* An edit that leaves the estimate alone writes no item.
UpdateJobCard(card, lines, percentage) ==
  CASE card.status = "REJECTED" -> card
    [] card.status # "REJECTED" /\ percentage = card.percentage /\ Signature(Items(lines)) = Signature(card.items) -> card
    [] OTHER -> [Priced(card, lines, percentage) EXCEPT
                   !.status = IF @ = "DRAFT" THEN @ ELSE "PARTS_CONFIRMED",
                   !.approved = @ /\ card.status \in {"DRAFT", "PARTS_CONFIRMED"}]

ShareJobCard(card) ==
  IF card.status \in {"DRAFT", "PARTS_CONFIRMED", "MODIFICATION_REQUESTED"}
    THEN [card EXCEPT !.status = "SHARED"] ELSE card

\* markAvailable of a technician's part: a line of its own, that nobody has answered.
MarkAvailable(card, name, unitPrice, quantity, extraLabour) ==
  IF unitPrice <= 0 THEN card
  ELSE LET line == [name |-> name, parts |-> unitPrice, labour |-> extraLabour, quantity |-> quantity,
                    warranty |-> FALSE, answer |-> "none"]
       IN Totalled([card EXCEPT !.items = Append(@, line), !.status = "MODIFICATION_REQUESTED",
                                !.extras = Append(@, [item |-> Len(card.items) + 1, answer |-> "PENDING"])],
                   card.subtotal + LineTotal(line))

Supplementary(card) == {card.extras[k].item : k \in DOMAIN card.extras}

PendingItems(card) ==
  {card.extras[k].item : k \in {k \in DOMAIN card.extras : card.extras[k].answer = "PENDING"}}

Answered(card, items, answer) ==
  [card EXCEPT !.items = [n \in DOMAIN @ |-> IF n \in items THEN [@[n] EXCEPT !.answer = answer] ELSE @[n]]]

Settled(card, answer) ==
  [card EXCEPT !.extras = [k \in DOMAIN @ |-> IF @[k].answer = "PENDING" THEN [@[k] EXCEPT !.answer = answer] ELSE @[k]]]

AwaitsAnswer(card) == card.status \in {"SHARED", "MODIFICATION_REQUESTED"}

\* Whatever is ticked, each part that waits is approved, and its item with it.
Approve(card, ticked) ==
  LET extraRound == \/ card.approved /\ card.status = "MODIFICATION_REQUESTED"
                    \/ ticked # {} /\ ticked \subseteq Supplementary(card)
      partial == ~extraRound /\ ticked # {} /\ Cardinality(ticked) < Len(card.items)
      originals == {n \in DOMAIN card.items : n \notin Supplementary(card)}
      marked == CASE extraRound -> Answered(card, ticked \cap Supplementary(card), "yes")
                  [] partial    -> Answered(Answered(card, ticked, "yes"), DOMAIN card.items \ ticked, "no")
                  [] OTHER      -> card
      status == CASE partial -> "PARTIALLY_APPROVED"
                  [] extraRound /\ \E n \in originals : card.items[n].answer # "yes" -> card.status
                  [] OTHER -> "APPROVED"
  IN IF AwaitsAnswer(card)
       THEN [Settled(Answered(marked, PendingItems(card), "yes"), "APPROVED") EXCEPT
               !.status = status, !.approved = @ \/ ~extraRound]
       ELSE card

\* The items of the parts that are refused are found by their names.
Reject(card) ==
  LET names == {card.items[n].name : n \in PendingItems(card)}
      reverted == MapThenSumSet(LAMBDA n : LineTotal(card.items[n]), PendingItems(card))
      refused == Answered(card, {n \in DOMAIN card.items : card.items[n].name \in names}, "no")
  IN CASE card.status = "MODIFICATION_REQUESTED" ->
            [Totalled(Settled(refused, "REJECTED"), AtLeast0(card.subtotal - reverted)) EXCEPT !.status = "APPROVED"]
       [] card.status = "SHARED" -> [card EXCEPT !.status = "REJECTED"]
       [] OTHER -> card

\* The page does not offer what was refused before.
Offered(card) == {n \in DOMAIN card.items : card.items[n].answer # "no"}

Apply(card, call) ==
  CASE call.op = "edit"      -> UpdateJobCard(card, call.lines, call.percentage)
    [] call.op = "share"     -> ShareJobCard(card)
    [] call.op = "available" -> MarkAvailable(card, call.name, call.unitPrice, call.quantity, call.extraLabour)
    [] call.op = "approve"   -> Approve(card, call.ticked \cap Offered(card))
    [] call.op = "reject"    -> Reject(card)

After(card, calls) == FoldLeft(Apply, card, calls)

-----------------------------------------------------------------------------
(* The page of the customer (getEstimateByToken).                          *)

NewTotal(card) ==
  LET pending == {n \in Supplementary(card) : card.items[n].answer = "none"}
      approved == {n \in DOMAIN card.items \ pending : card.items[n].answer # "no"}
      sum(ns) == MapThenSumSet(LAMBDA n : LineTotal(card.items[n]), ns)
  IN Rounded((sum(approved) + sum(pending)) * (100 + card.percentage), 100)

-----------------------------------------------------------------------------
(* The invoice.                                                            *)

\* buildLinesForJobCard: what was refused is left out, what was never asked is not.
BuildLines(card) ==
  LET billed == SelectSeq(card.items, LAMBDA item : item.answer # "no")
  IN [n \in DOMAIN billed |->
        [unitPrice |-> IF billed[n].warranty THEN 0 ELSE billed[n].parts,
         quantity  |-> IF billed[n].quantity = 0 THEN 1 ELSE billed[n].quantity,
         lineTotal |-> IF billed[n].warranty THEN 0 ELSE LineTotal(billed[n]),
         isWarranty |-> billed[n].warranty]]

\* An invoice without lines is not made.
Invoiceable(card) == BuildLines(card) # <<>>

Preview(card) ==
  LET subtotal == SumOf(BuildLines(card), LAMBDA line : line.lineTotal)
  IN [subtotal |-> subtotal, tax |-> Rounded(subtotal * card.percentage, 100),
      total |-> Rounded(subtotal * (100 + card.percentage), 100)]

\* generate: `adjustments` and the discount in mills; rows and totals are rounded one by one.
Generate(card, adjustments, discount) ==
  LET lines == BuildLines(card)
      sum == 10 * SumOf(lines, LAMBDA line : line.lineTotal) + SumSeq(adjustments)
      base == AtLeast0(sum - AtLeast0(discount))
  IN [rows |-> [n \in DOMAIN lines |-> lines[n].lineTotal] \o [n \in DOMAIN adjustments |-> Rounded(adjustments[n], 10)],
      subtotal |-> Rounded(sum, 10), discount |-> Rounded(AtLeast0(discount), 10),
      tax |-> Rounded(base * card.percentage, 1000), total |-> Rounded(base * (100 + card.percentage), 1000)]

-----------------------------------------------------------------------------
(* The billing queue.  `cards` are those of a visit, each with the status  *)
(* of its live invoice, "none" without one.                                *)

NewestCard(cards) == CHOOSE c \in cards : \A d \in cards : d.created <= c.created

\* listReadyForBilling looks at the newest card of a visit, whatever its status.
Bucket(cards) ==
  CASE cards = {} \/ NewestCard(cards).invoice = "none" -> "pending"
    [] cards # {} /\ NewestCard(cards).invoice = "PAID" -> "paid"
    [] OTHER -> "generated"

BillingStats(visits) ==
  LET count(bucket) == Quantify(DOMAIN visits, LAMBDA v : Bucket(visits[v]) = bucket)
      collected == MapThenSumSet(LAMBDA v : NewestCard(visits[v]).paid, {v \in DOMAIN visits : Bucket(visits[v]) = "paid"})
  IN [pending |-> count("pending"), generated |-> count("generated"), collected |-> collected,
      avg |-> IF count("paid") = 0 THEN 0 ELSE collected \div count("paid")]

-----------------------------------------------------------------------------
(* What is said of it.                                                     *)

Originals(card) == {n \in DOMAIN card.items : n \notin Supplementary(card)}

Free(card) == {n \in DOMAIN card.items : card.items[n].warranty}

\* buildPreview "lets finance preview totals before generating the invoice".
PreviewIsTheInvoice(card) ==
  LET preview == Preview(card)
      invoice == Generate(card, <<>>, 0)
  IN /\ Invoiceable(card) =>
          preview.subtotal = invoice.subtotal /\ preview.tax = invoice.tax /\ preview.total = invoice.total
     /\ preview.total = preview.subtotal + preview.tax

\* The rows that are printed add up to what is due, as long as amounts are whole cents;
\* a discount that is too high gives nothing back.
InvoiceAddsUp(card, adjustments, discount) ==
  LET invoice == Generate(card, adjustments, discount)
  IN /\ invoice.total >= 0
     /\ (\A n \in DOMAIN adjustments : adjustments[n] % 10 = 0) /\ discount % 10 = 0 =>
          /\ SumSeq(invoice.rows) = invoice.subtotal
          /\ invoice.total = AtLeast0(invoice.subtotal - invoice.discount) + invoice.tax

\* What the customer is shown is what is invoiced, but for what the warranty pays.
ShownIsInvoiced(card) == Free(card) = {} => NewTotal(card) = Preview(card).total

\* The stored total follows the extras that come and go.  It does so as long as no line of
\* the estimate is refused by itself, none is under warranty and names tell the items apart:
\* a partial approval leaves the total, and a refusal finds its items by name.
TotalIsInvoiced(card) ==
  /\ \A n \in Originals(card) : card.items[n].answer # "no"
  /\ Free(card) = {}
  /\ Cardinality({card.items[n].name : n \in DOMAIN card.items}) = Len(card.items)
  => card.total = Preview(card).total

\* A part the customer has refused is not on the invoice, whatever is answered later.
RefusedIsNotInvoiced(card) ==
  \A k \in DOMAIN card.extras : card.extras[k].answer = "REJECTED" => card.items[card.extras[k].item].answer = "no"

\* No visit whose bucket is "paid" has a card without a paid invoice, as long as it has one
\* card: a newer one hides those before.
PaidOwesNothing(cards) ==
  Bucket(cards) = "paid" /\ Cardinality(cards) = 1 => \A c \in cards : c.invoice = "PAID"

\* The cards of the dashboard count every visit that waits, and no money of an open invoice.
StatsAgree(visits) ==
  LET stats == BillingStats(visits)
      paid == {v \in DOMAIN visits : \E c \in visits[v] : c.invoice = "PAID"}
  IN /\ stats.pending + stats.generated + Cardinality(paid) >= Cardinality(DOMAIN visits)
     /\ stats.collected <= MapThenSumSet(LAMBDA v : MapThenSumSet(LAMBDA c : c.paid, visits[v]), DOMAIN visits)
     /\ \A v \in DOMAIN visits : visits[v] # {} /\ Bucket(visits[v]) = "paid" => v \in paid
==============================================================================
