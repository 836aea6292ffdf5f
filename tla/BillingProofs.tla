--------------------------- MODULE BillingProofs ---------------------------
(***************************************************************************)
(* Proofs about Billing, for any number of cards, invoices, passes and     *)
(* overlapping requests, and for any totals and amounts.                   *)
(*                                                                         *)
(* The argument: what recordPayment has read can only be too low.  The sum *)
(* of the payment rows of an invoice never falls and its total never       *)
(* changes, so an old balance still backs the payment computed from it.    *)
(***************************************************************************)
EXTENDS Billing, TLAPS

\* A request q holds rows that exist; one in recordPayment remembers a balance the
\* payments made so far (col) cover, and records no more than was due on it.
Sound(q, inv, col, passes) ==
  /\ q.at = "generate" => q.card \in JobCards
  /\ q.at \in {"pay", "void"} => q.invoice \in Invoices /\ inv[q.invoice].status # "unused"
  /\ q.at = "pay" =>
       /\ q.paid <= col[q.invoice]
       /\ 10 * q.paid + q.amount <= 10 * inv[q.invoice].total
  /\ q.at = "redeem" => q.pass \in GatePasses /\ passes[q.pass].status # "unused"

RequestsSound == \A r \in Requests : Sound(req[r], invoice, collected, pass)

\* A pass belongs to an invoice that exists.
PassHasInvoice ==
  \A p \in GatePasses :
    pass[p].status # "unused" =>
      pass[p].invoice \in Invoices /\ invoice[pass[p].invoice].status # "unused"

IInv ==
  /\ TypeOK
  /\ RequestsSound
  /\ PassHasInvoice
  /\ PaidIsBacked
  /\ PassIsPaidFor
  /\ PaidHasPass
  /\ ActivePassIsOfLiveInvoice

\* What a step does to the rows: none goes, no total changes, no payment is undone.
Grows ==
  /\ \A i \in Invoices :
       /\ collected[i] <= collected'[i]
       /\ invoice[i].status # "unused" =>
            invoice'[i].status # "unused" /\ invoice'[i].total = invoice[i].total
  /\ \A p \in GatePasses :
       pass[p].status # "unused" =>
         pass'[p].status # "unused" /\ pass'[p].invoice = pass[p].invoice

-----------------------------------------------------------------------------
(* Rounding.                                                               *)

\* Whole cents pass through the rounding.
LEMMA CentsAdd ==
  ASSUME NEW p \in Nat, NEW m \in Nat
  PROVE  Cents(m) \in Nat /\ Cents(10 * p + m) = p + Cents(m)
  BY DEF Cents

\* An amount within a total of t cents rounds to t cents at most; one that misses the
\* total by a mill at most rounds to t cents at least.
LEMMA CentsBounds ==
  ASSUME NEW t \in Nat, NEW m \in Nat
  PROVE  /\ m <= 10 * t => Cents(m) <= t
         /\ m + 1 >= 10 * t => Cents(m) >= t
  BY DEF Cents

-----------------------------------------------------------------------------
(* Requests.                                                               *)

\* What a request has read stays good while rows grow.
LEMMA SoundStays ==
  ASSUME TypeOK, TypeOK', Grows, NEW q \in Request, Sound(q, invoice, collected, pass)
  PROVE  Sound(q, invoice', collected', pass')
  <1>1. q.at = "generate" => q.card \in JobCards
    BY DEF Sound
  <1>2. ASSUME q.at \in {"pay", "void"}
        PROVE  q.invoice \in Invoices /\ invoice'[q.invoice].status # "unused"
    BY <1>2 DEF Sound, Grows
  <1>3. ASSUME q.at = "pay"
        PROVE  /\ q.paid <= collected'[q.invoice]
               /\ 10 * q.paid + q.amount <= 10 * invoice'[q.invoice].total
    <2>1. /\ q.invoice \in Invoices
          /\ invoice'[q.invoice].total = invoice[q.invoice].total
          /\ collected[q.invoice] <= collected'[q.invoice]
      BY <1>3 DEF Sound, Grows
    <2>2. /\ q.paid \in Nat /\ collected[q.invoice] \in Nat /\ collected'[q.invoice] \in Nat
      BY <2>1 DEF Request, TypeOK
    <2> QED
      BY <1>3, <2>1, <2>2 DEF Sound
  <1>4. ASSUME q.at = "redeem"
        PROVE  q.pass \in GatePasses /\ pass'[q.pass].status # "unused"
    BY <1>4 DEF Sound, Grows
  <1> QED
    BY <1>1, <1>2, <1>3, <1>4 DEF Sound

\* The request that makes a step becomes q; the others stay as they are.
LEMMA RequestsStaySound ==
  ASSUME TypeOK, TypeOK', Grows, RequestsSound, NEW r \in Requests, NEW q \in Request,
         req' = [req EXCEPT ![r] = q], Sound(q, invoice', collected', pass')
  PROVE  RequestsSound'
  <1> SUFFICES ASSUME NEW s \in Requests PROVE Sound(req'[s], invoice', collected', pass')
    BY DEF RequestsSound
  <1>1. CASE s = r
    BY <1>1 DEF TypeOK
  <1>2. CASE s # r
    <2>1. req'[s] = req[s] /\ req[s] \in Request /\ Sound(req[s], invoice, collected, pass)
      BY <1>2 DEF TypeOK, RequestsSound
    <2> QED
      BY <2>1, SoundStays
  <1> QED
    BY <1>1, <1>2

\* An idle request has nothing to remember.
LEMMA IdleSound ==
  /\ Idle \in Request
  /\ \A inv, col, passes : Sound(Idle, inv, col, passes)
  BY DEF Idle, Request, Sound

\* A request that begins, or fails, changes no row: the invariant holds when what it
\* remembers is sound.
LEMMA ReadKeeps ==
  ASSUME IInv, NEW r \in Requests, NEW q \in Request, req' = [req EXCEPT ![r] = q],
         Sound(q, invoice, collected, pass), UNCHANGED <<invoice, collected, pass>>
  PROVE  IInv'
  <1> USE DEF IInv
  <1>1. TypeOK'
    BY DEF TypeOK
  <1>2. Grows
    <2>1. \A i \in Invoices : collected[i] <= collected'[i]
      BY DEF TypeOK
    <2> QED
      BY <2>1 DEF Grows
  <1>3. RequestsSound'
    BY <1>1, <1>2, RequestsStaySound
  <1>4. PassHasInvoice' /\ PaidIsBacked' /\ PassIsPaidFor'
    BY DEF PassHasInvoice, PaidIsBacked, PassIsPaidFor
  <1>5. PaidHasPass' /\ ActivePassIsOfLiveInvoice'
    BY DEF PaidHasPass, ActivePassIsOfLiveInvoice
  <1> QED
    BY <1>1, <1>3, <1>4, <1>5

-----------------------------------------------------------------------------
(* Reads.                                                                  *)

LEMMA PaymentReadKeeps ==
  ASSUME IInv, NEW r \in Requests, NEW i \in Invoices, NEW sent \in Amounts,
         PaymentRead(r, i, sent)
  PROVE  IInv'
  <1> DEFINE due == 10 * (invoice[i].total - invoice[i].paid)
             amount == IF sent <= due THEN sent ELSE due
             q == [Idle EXCEPT !.at = "pay", !.invoice = i, !.paid = invoice[i].paid,
                               !.amount = amount]
  <1>1. /\ invoice[i].status # "unused"
        /\ amount > 0
        /\ req' = [req EXCEPT ![r] = q]
        /\ UNCHANGED <<invoice, collected, pass>>
    BY DEF PaymentRead, Begin
  <1>2. /\ invoice[i].total \in Nat /\ invoice[i].paid \in Nat
        /\ invoice[i].paid <= collected[i] /\ sent \in Nat
    BY BillingAssumption DEF IInv, TypeOK, InvoiceRow, PaidIsBacked
  <1>3. amount \in Nat /\ 10 * invoice[i].paid + amount <= 10 * invoice[i].total
    BY <1>1, <1>2
  <1> HIDE DEF amount
  <1>4. q \in Request
    BY <1>2, <1>3 DEF Idle, Request
  <1>5. q.at = "pay" /\ q.invoice = i /\ q.paid = invoice[i].paid /\ q.amount = amount
    BY DEF Idle
  <1>6. Sound(q, invoice, collected, pass)
    BY <1>1, <1>2, <1>3, <1>5 DEF Sound
  <1> HIDE DEF q
  <1> QED
    BY <1>1, <1>4, <1>6, ReadKeeps

LEMMA OtherReadsKeep ==
  ASSUME IInv, NEW r \in Requests,
         \/ \E j \in JobCards : GenerateRead(r, j)
         \/ \E i \in Invoices : VoidRead(r, i)
         \/ \E p \in GatePasses : RedeemRead(r, p)
         \/ GenerateConflict(r) \/ PaymentConflict(r) \/ Fail(r)
  PROVE  IInv'
  <1>1. ASSUME NEW j \in JobCards, GenerateRead(r, j) PROVE IInv'
    <2> DEFINE q == [Idle EXCEPT !.at = "generate", !.card = j]
    <2>1. q \in Request /\ Sound(q, invoice, collected, pass)
      BY DEF Idle, Request, Sound
    <2> QED
      BY <1>1, <2>1, ReadKeeps DEF GenerateRead, Begin
  <1>2. ASSUME NEW i \in Invoices, VoidRead(r, i) PROVE IInv'
    <2> DEFINE q == [Idle EXCEPT !.at = "void", !.invoice = i]
    <2>1. q \in Request /\ Sound(q, invoice, collected, pass)
      BY <1>2 DEF VoidRead, Idle, Request, Sound
    <2> QED
      BY <1>2, <2>1, ReadKeeps DEF VoidRead, Begin
  <1>3. ASSUME NEW p \in GatePasses, RedeemRead(r, p) PROVE IInv'
    <2> DEFINE q == [Idle EXCEPT !.at = "redeem", !.pass = p]
    <2>1. q \in Request /\ Sound(q, invoice, collected, pass)
      BY <1>3 DEF RedeemRead, Idle, Request, Sound
    <2> QED
      BY <1>3, <2>1, ReadKeeps DEF RedeemRead, Begin
  <1>4. CASE GenerateConflict(r) \/ PaymentConflict(r) \/ Fail(r)
    BY <1>4, IdleSound, ReadKeeps DEF GenerateConflict, PaymentConflict, Fail, Finish
  <1> QED
    BY <1>1, <1>2, <1>3, <1>4

-----------------------------------------------------------------------------
(* Writes.                                                                 *)

LEMMA GenerateKeeps ==
  ASSUME IInv, NEW r \in Requests, GenerateCommit(r)
  PROVE  IInv'
  <1> USE DEF IInv
  <1>1. PICK i \in Invoices, t \in Totals :
          /\ invoice[i].status = "unused"
          /\ invoice' = [invoice EXCEPT ![i] = [status |-> "GENERATED", card |-> req[r].card,
                                                total |-> t, paid |-> 0]]
    BY DEF GenerateCommit
  <1>2. UNCHANGED <<collected, pass>> /\ req' = [req EXCEPT ![r] = Idle] /\ req[r].at = "generate"
    BY DEF GenerateCommit, Finish
  <1>3. req[r].card \in JobCards /\ t \in Nat
    BY <1>2, BillingAssumption DEF RequestsSound, Sound
  <1>4. /\ invoice'[i] = [status |-> "GENERATED", card |-> req[r].card, total |-> t, paid |-> 0]
        /\ \A k \in Invoices : k # i => invoice'[k] = invoice[k]
    BY <1>1 DEF TypeOK
  <1>5. TypeOK'
    <2>1. invoice' \in [Invoices -> InvoiceRow]
      BY <1>1, <1>3 DEF TypeOK, InvoiceRow
    <2> QED
      BY <1>2, <2>1, IdleSound DEF TypeOK
  <1>6. Grows
    <2>1. \A k \in Invoices : collected[k] <= collected'[k]
      BY <1>2 DEF TypeOK
    <2> QED
      BY <1>1, <1>2, <1>4, <2>1 DEF Grows
  <1>7. RequestsSound'
    BY <1>2, <1>5, <1>6, IdleSound, RequestsStaySound
  \* No pass is of the invoice that is new.
  <1>8. \A p \in GatePasses :
          pass[p].status # "unused" =>
            pass[p].invoice \in Invoices /\ invoice'[pass[p].invoice] = invoice[pass[p].invoice]
    BY <1>1, <1>4 DEF PassHasInvoice
  <1>9. PassHasInvoice' /\ PassIsPaidFor' /\ ActivePassIsOfLiveInvoice'
    BY <1>2, <1>8 DEF PassHasInvoice, PassIsPaidFor, ActivePassIsOfLiveInvoice
  <1>10. PaidIsBacked'
    BY <1>2, <1>3, <1>4 DEF PaidIsBacked, TypeOK
  <1>11. PaidHasPass'
    BY <1>2, <1>4 DEF PaidHasPass
  <1> QED
    BY <1>5, <1>7, <1>9, <1>10, <1>11

\* The payment: its amount counts for the invoice it was computed for, and a gate pass
\* is minted only on payments that cover the total.
LEMMA PaymentKeeps ==
  ASSUME IInv, NEW r \in Requests, PaymentCommit(r)
  PROVE  IInv'
  <1> USE DEF IInv
  <1> DEFINE i == req[r].invoice
             old == req[r].paid
             amount == req[r].amount
             total == invoice[i].total
             newStatus == IF FullyPaid(r) THEN "PAID" ELSE "PARTIALLY_PAID"
             row == [invoice[i] EXCEPT !.paid = Cents(NewPaid(r)), !.status = newStatus]
  <1>1. /\ req[r].at = "pay"
        /\ collected' = [collected EXCEPT ![i] = @ + Cents(amount)]
        /\ invoice' = [invoice EXCEPT ![i] = row]
        /\ req' = [req EXCEPT ![r] = Idle]
    BY DEF PaymentCommit, Finish
  <1>2. /\ i \in Invoices
        /\ invoice[i].status # "unused"
        /\ old <= collected[i]
        /\ 10 * old + amount <= 10 * total
    BY <1>1 DEF RequestsSound, Sound
  <1>3. /\ old \in Nat /\ amount \in Nat /\ total \in Nat /\ collected[i] \in Nat
        /\ invoice[i] \in InvoiceRow
    BY <1>2 DEF TypeOK, Request, InvoiceRow
  <1>4. /\ NewPaid(r) = 10 * old + amount /\ NewPaid(r) \in Nat
        /\ Cents(NewPaid(r)) = old + Cents(amount) /\ Cents(amount) \in Nat
        /\ Cents(NewPaid(r)) <= total
        /\ FullyPaid(r) => Cents(NewPaid(r)) >= total
    <2>1. NewPaid(r) = 10 * old + amount
      BY DEF NewPaid
    <2>2. NewPaid(r) \in Nat
      BY <1>3, <2>1
    <2>3. Cents(NewPaid(r)) = old + Cents(amount) /\ Cents(amount) \in Nat
      BY <1>3, <2>1, CentsAdd
    <2>4. Cents(NewPaid(r)) <= total
      BY <1>2, <1>3, <2>1, <2>2, CentsBounds
    <2>5. FullyPaid(r) => Cents(NewPaid(r)) >= total
      BY <1>3, <2>2, CentsBounds DEF FullyPaid
    <2> QED
      BY <2>1, <2>2, <2>3, <2>4, <2>5
  <1>5. /\ row \in InvoiceRow
        /\ row.paid = Cents(NewPaid(r)) /\ row.total = total
        /\ row.status = newStatus
    <2>1. Cents(NewPaid(r)) \in Nat
      BY <1>3, <1>4
    <2>2. newStatus \in {"PAID", "PARTIALLY_PAID"}
      OBVIOUS
    <2> HIDE DEF newStatus
    <2> QED
      BY <1>3, <2>1, <2>2 DEF InvoiceRow
  <1> HIDE DEF row
  <1>6. /\ invoice'[i] = row /\ collected'[i] = collected[i] + Cents(amount)
        /\ \A k \in Invoices : k # i => invoice'[k] = invoice[k] /\ collected'[k] = collected[k]
    BY <1>1, <1>2 DEF TypeOK
  \* The recorded payments back the balance, and a full balance means a covered total.
  <1>7. /\ collected'[i] \in Nat /\ collected[i] <= collected'[i]
        /\ row.paid <= collected'[i]
        /\ FullyPaid(r) => total <= collected'[i]
    BY <1>2, <1>3, <1>4, <1>5, <1>6
  <1>8. \/ pass' = pass /\ (FullyPaid(r) => ActiveOf(i) # {})
        \/ /\ FullyPaid(r)
           /\ \E p \in GatePasses :
                 /\ pass[p].status = "unused"
                 /\ pass' = [pass EXCEPT ![p] = [status |-> "ACTIVE", invoice |-> i]]
    BY DEF PaymentCommit
  <1>9. pass' \in [GatePasses -> PassRow]
    BY <1>2, <1>8 DEF TypeOK, PassRow
  <1>10. \A p \in GatePasses :
           \/ pass'[p] = pass[p]
           \/ /\ FullyPaid(r) /\ pass[p].status = "unused"
              /\ pass'[p] = [status |-> "ACTIVE", invoice |-> i]
    BY <1>8 DEF TypeOK
  <1>11. FullyPaid(r) => \E p \in GatePasses : pass'[p].invoice = i /\ pass'[p].status = "ACTIVE"
    <2>1. CASE pass' = pass /\ (FullyPaid(r) => ActiveOf(i) # {})
      BY <2>1 DEF ActiveOf
    <2>2. ASSUME NEW p \in GatePasses, pass' = [pass EXCEPT ![p] = [status |-> "ACTIVE", invoice |-> i]]
          PROVE  \E g \in GatePasses : pass'[g].invoice = i /\ pass'[g].status = "ACTIVE"
      <3>1. pass'[p] = [status |-> "ACTIVE", invoice |-> i]
        BY <2>2 DEF TypeOK
      <3> QED
        BY <3>1
    <2> QED
      BY <1>8, <2>1, <2>2
  <1> HIDE DEF i, old, amount, total
  <1>12. TypeOK'
    <2>1. invoice' \in [Invoices -> InvoiceRow]
      BY <1>1, <1>5 DEF TypeOK
    <2>2. collected' \in [Invoices -> Nat]
      BY <1>1, <1>6, <1>7 DEF TypeOK
    <2>3. req' \in [Requests -> Request]
      BY <1>1, IdleSound DEF TypeOK
    <2> QED
      BY <1>9, <2>1, <2>2, <2>3 DEF TypeOK
  <1>13. Grows
    <2>1. \A k \in Invoices : collected[k] <= collected'[k]
      BY <1>6, <1>7 DEF TypeOK
    <2>2. \A k \in Invoices : invoice[k].status # "unused" =>
            invoice'[k].status # "unused" /\ invoice'[k].total = invoice[k].total
      BY <1>5, <1>6 DEF total
    <2>3. \A p \in GatePasses : pass[p].status # "unused" =>
            pass'[p].status # "unused" /\ pass'[p].invoice = pass[p].invoice
      BY <1>10
    <2> QED
      BY <2>1, <2>2, <2>3 DEF Grows
  <1>14. RequestsSound'
    BY <1>1, <1>12, <1>13, IdleSound, RequestsStaySound
  <1>15. PassHasInvoice'
    BY <1>2, <1>5, <1>6, <1>10, <1>13 DEF PassHasInvoice, Grows
  <1>16. PaidIsBacked'
    BY <1>4, <1>5, <1>6, <1>7 DEF PaidIsBacked
  <1>17. PassIsPaidFor'
    <2> SUFFICES ASSUME NEW p \in GatePasses, pass'[p].status # "unused"
                 PROVE  collected'[pass'[p].invoice] >= invoice'[pass'[p].invoice].total
      BY DEF PassIsPaidFor
    <2>1. CASE pass'[p] = pass[p]
      <3> DEFINE k == pass[p].invoice
      <3>1. /\ k \in Invoices /\ invoice[k].status # "unused"
            /\ collected[k] >= invoice[k].total
        BY <2>1 DEF PassHasInvoice, PassIsPaidFor
      <3>2. /\ invoice'[k].total = invoice[k].total /\ collected[k] <= collected'[k]
        BY <1>13, <3>1 DEF Grows
      <3>3. collected[k] \in Nat /\ collected'[k] \in Nat /\ invoice[k].total \in Nat
        BY <1>12, <3>1 DEF TypeOK, InvoiceRow
      <3> QED
        BY <2>1, <3>1, <3>2, <3>3
    <2>2. CASE FullyPaid(r) /\ pass'[p] = [status |-> "ACTIVE", invoice |-> i]
      <3>1. total \in Nat
        BY <1>3
      <3>2. pass'[p].invoice = i /\ invoice'[i].total = total /\ total <= collected'[i]
        BY <1>5, <1>6, <1>7, <2>2
      <3> QED
        BY <1>7, <3>1, <3>2
    <2> QED
      BY <1>10, <2>1, <2>2
  <1>18. PaidHasPass'
    <2> SUFFICES ASSUME NEW k \in Invoices, invoice'[k].status = "PAID"
                 PROVE  \E p \in GatePasses :
                          pass'[p].invoice = k /\ pass'[p].status \in {"ACTIVE", "REDEEMED"}
      BY DEF PaidHasPass
    <2>1. CASE k = i
      <3>1. FullyPaid(r)
        BY <1>5, <1>6, <2>1
      <3> QED
        BY <1>11, <2>1, <3>1
    <2>2. CASE k # i
      <3>1. PICK p \in GatePasses : pass[p].invoice = k /\ pass[p].status \in {"ACTIVE", "REDEEMED"}
        BY <1>6, <2>2 DEF PaidHasPass
      <3>2. pass'[p] = pass[p]
        BY <1>10, <3>1
      <3> QED
        BY <3>1, <3>2
    <2> QED
      BY <2>1, <2>2
  <1>19. ActivePassIsOfLiveInvoice'
    <2> SUFFICES ASSUME NEW p \in GatePasses, pass'[p].status = "ACTIVE"
                 PROVE  invoice'[pass'[p].invoice].status \in {"PARTIALLY_PAID", "PAID"}
      BY DEF ActivePassIsOfLiveInvoice
    <2>1. invoice'[i].status \in {"PARTIALLY_PAID", "PAID"}
      BY <1>5, <1>6
    <2>2. CASE pass'[p] = pass[p]
      BY <1>6, <2>1, <2>2 DEF ActivePassIsOfLiveInvoice, PassHasInvoice
    <2>3. CASE pass'[p] = [status |-> "ACTIVE", invoice |-> i]
      BY <2>1, <2>3
    <2> QED
      BY <1>10, <2>2, <2>3
  <1> QED
    BY <1>12, <1>14, <1>15, <1>16, <1>17, <1>18, <1>19

LEMMA VoidKeeps ==
  ASSUME IInv, NEW r \in Requests, VoidCommit(r)
  PROVE  IInv'
  <1> USE DEF IInv
  <1> DEFINE i == req[r].invoice
  <1>1. /\ req[r].at = "void"
        /\ invoice' = [invoice EXCEPT ![i].status = "VOID"]
        /\ pass' = [p \in GatePasses |->
                      IF p \in ActiveOf(i) THEN [pass[p] EXCEPT !.status = "VOIDED"] ELSE pass[p]]
        /\ req' = [req EXCEPT ![r] = Idle]
        /\ collected' = collected
    BY DEF VoidCommit, Finish
  <1>2. i \in Invoices /\ invoice[i].status # "unused"
    BY <1>1 DEF RequestsSound, Sound
  <1>3. \A p \in GatePasses :
          IF pass[p].invoice = i /\ pass[p].status = "ACTIVE"
            THEN pass'[p].status = "VOIDED" /\ pass'[p].invoice = i
            ELSE pass'[p] = pass[p]
    BY <1>1 DEF ActiveOf, TypeOK, PassRow
  <1>4. /\ invoice'[i].status = "VOID"
        /\ \A k \in Invoices : k # i => invoice'[k] = invoice[k]
        /\ \A k \in Invoices : invoice'[k].total = invoice[k].total /\ invoice'[k].paid = invoice[k].paid
    BY <1>1, <1>2 DEF TypeOK, InvoiceRow
  <1>5. TypeOK'
    <2>1. invoice' \in [Invoices -> InvoiceRow]
      BY <1>1 DEF TypeOK, InvoiceRow
    <2>2. pass' \in [GatePasses -> PassRow]
      <3>1. \A p \in GatePasses : [pass[p] EXCEPT !.status = "VOIDED"] \in PassRow
        BY DEF TypeOK, PassRow
      <3> QED
        BY <1>1, <3>1 DEF TypeOK
    <2> QED
      BY <1>1, <2>1, <2>2, IdleSound DEF TypeOK
  <1> HIDE DEF i
  <1>6. Grows
    <2>1. \A k \in Invoices : collected[k] <= collected'[k]
      BY <1>1 DEF TypeOK
    <2> QED
      BY <1>3, <1>4, <2>1 DEF Grows
  <1>7. RequestsSound'
    BY <1>1, <1>5, <1>6, IdleSound, RequestsStaySound
  <1>8. \A p \in GatePasses :
          /\ pass'[p].invoice = pass[p].invoice
          /\ pass'[p].status # "unused" => pass[p].status # "unused"
    BY <1>3
  <1>9. PassHasInvoice'
    BY <1>6, <1>8 DEF PassHasInvoice, Grows
  <1>10. PaidIsBacked' /\ PassIsPaidFor'
    <2>1. PaidIsBacked'
      BY <1>1, <1>4 DEF PaidIsBacked
    <2>2. PassIsPaidFor'
      BY <1>1, <1>4, <1>8 DEF PassIsPaidFor, PassHasInvoice
    <2> QED
      BY <2>1, <2>2
  <1>11. PaidHasPass'
    BY <1>3, <1>4 DEF PaidHasPass
  <1>12. ActivePassIsOfLiveInvoice'
    BY <1>3, <1>4 DEF ActivePassIsOfLiveInvoice, PassHasInvoice
  <1> QED
    BY <1>5, <1>7, <1>9, <1>10, <1>11, <1>12

LEMMA RedeemKeeps ==
  ASSUME IInv, NEW r \in Requests, Redeem(r)
  PROVE  IInv'
  <1> USE DEF IInv
  <1> DEFINE g == req[r].pass
  <1>1. /\ req[r].at = "redeem"
        /\ pass' = [pass EXCEPT ![g].status = "REDEEMED"]
        /\ req' = [req EXCEPT ![r] = Idle]
        /\ UNCHANGED <<invoice, collected>>
    BY DEF Redeem, Finish
  <1>2. g \in GatePasses /\ pass[g].status # "unused"
    BY <1>1 DEF RequestsSound, Sound
  <1>3. /\ pass'[g].status = "REDEEMED"
        /\ \A p \in GatePasses : pass'[p].invoice = pass[p].invoice
        /\ \A p \in GatePasses : p # g => pass'[p] = pass[p]
    BY <1>1, <1>2 DEF TypeOK, PassRow
  <1>4. TypeOK'
    BY <1>1, IdleSound DEF TypeOK, PassRow
  <1> HIDE DEF g
  <1>5. Grows
    <2>1. \A k \in Invoices : collected[k] <= collected'[k]
      BY <1>1 DEF TypeOK
    <2> QED
      BY <1>1, <1>3, <2>1 DEF Grows
  <1>6. RequestsSound'
    BY <1>1, <1>4, <1>5, IdleSound, RequestsStaySound
  <1>7. \A p \in GatePasses : pass'[p].status # "unused" => pass[p].status # "unused"
    BY <1>2, <1>3
  <1>8. PassHasInvoice' /\ PassIsPaidFor' /\ PaidIsBacked'
    BY <1>1, <1>3, <1>7 DEF PassHasInvoice, PassIsPaidFor, PaidIsBacked
  <1>9. PaidHasPass'
    BY <1>1, <1>3 DEF PaidHasPass
  <1>10. ActivePassIsOfLiveInvoice'
    BY <1>1, <1>3 DEF ActivePassIsOfLiveInvoice
  <1> QED
    BY <1>4, <1>6, <1>8, <1>9, <1>10

-----------------------------------------------------------------------------

(* The inductive invariant. *)
LEMMA Inductive == Spec => []IInv
  <1>1. Init => IInv
    <2> SUFFICES ASSUME Init PROVE IInv
      OBVIOUS
    <2>1. TypeOK
      BY IdleSound DEF Init, TypeOK, InvoiceRow, PassRow
    <2>2. RequestsSound
      BY IdleSound DEF Init, RequestsSound
    <2>3. \A p \in GatePasses : pass[p].status = "unused"
      BY DEF Init
    <2>4. PassHasInvoice /\ PassIsPaidFor /\ ActivePassIsOfLiveInvoice
      BY <2>3 DEF PassHasInvoice, PassIsPaidFor, ActivePassIsOfLiveInvoice
    <2>5. PaidIsBacked /\ PaidHasPass
      BY DEF Init, PaidIsBacked, PaidHasPass
    <2> QED
      BY <2>1, <2>2, <2>4, <2>5 DEF IInv
  <1>2. IInv /\ [Next]_vars => IInv'
    <2> SUFFICES ASSUME IInv, [Next]_vars PROVE IInv'
      OBVIOUS
    <2>1. CASE UNCHANGED vars
      BY <2>1 DEF vars, IInv, TypeOK, RequestsSound, Sound, PassHasInvoice, PaidIsBacked,
                  PassIsPaidFor, PaidHasPass, ActivePassIsOfLiveInvoice
    <2> QED
      BY <2>1, PaymentReadKeeps, OtherReadsKeep, GenerateKeeps, PaymentKeeps, VoidKeeps,
         RedeemKeeps DEF Next
  <1> QED
    BY <1>1, <1>2, PTL DEF Spec

(* Every reachable state is well typed; stored money is never negative. *)
THEOREM TypeCorrect == Spec => []TypeOK
  BY Inductive, PTL DEF IInv

(* The payments recorded on the invoice of a gate pass cover its total. *)
THEOREM PassesArePaidFor == Spec => []PassIsPaidFor
  BY Inductive, PTL DEF IInv

(* The balance an invoice shows is backed by recorded payments and within its total. *)
THEOREM PaidBacked == Spec => []PaidIsBacked
  BY Inductive, PTL DEF IInv

(* A PAID invoice has a gate pass that opens, or opened, the gate. *)
THEOREM PaidCanLeave == Spec => []PaidHasPass
  BY Inductive, PTL DEF IInv

(* An ACTIVE gate pass is of an invoice that is not VOID. *)
THEOREM ActivePassesAreLive == Spec => []ActivePassIsOfLiveInvoice
  BY Inductive, PTL DEF IInv

(* A redeemed gate pass stays redeemed: a void looks for ACTIVE passes only, and a
   payment mints a row of its own. *)
THEOREM RedeemedForGood == Spec => RedeemedStays
  <1>1. TypeOK /\ [Next]_vars =>
          [\A p \in GatePasses : pass[p].status = "REDEEMED" => pass'[p].status = "REDEEMED"]_vars
    <2> SUFFICES ASSUME TypeOK, Next, NEW p \in GatePasses, pass[p].status = "REDEEMED"
                 PROVE  pass'[p].status = "REDEEMED"
      OBVIOUS
    <2>1. ASSUME NEW r \in Requests, PaymentCommit(r) PROVE pass'[p].status = "REDEEMED"
      BY <2>1 DEF PaymentCommit, TypeOK, PassRow
    <2>2. ASSUME NEW r \in Requests, VoidCommit(r) PROVE pass'[p].status = "REDEEMED"
      BY <2>2 DEF VoidCommit, ActiveOf, TypeOK, PassRow
    <2>3. ASSUME NEW r \in Requests, Redeem(r) PROVE pass'[p].status = "REDEEMED"
      BY <2>3 DEF Redeem, TypeOK, PassRow
    <2>4. pass' = pass => pass'[p].status = "REDEEMED"
      OBVIOUS
    <2> QED
      BY <2>1, <2>2, <2>3, <2>4 DEF Next, GenerateRead, VoidRead, PaymentRead, RedeemRead,
         GenerateCommit, GenerateConflict, PaymentConflict, Fail
  <1> QED
    BY <1>1, TypeCorrect, PTL DEF Spec, RedeemedStays

=============================================================================
