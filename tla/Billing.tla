------------------------------ MODULE Billing ------------------------------
(***************************************************************************)
(* Invoices, payments and gate passes (modules/invoicing, modules/         *)
(* gate-pass) as requests that overlap: each reads a row, decides, and     *)
(* writes in a transaction that does not look again.  The row lock on the  *)
(* invoice orders the transactions of one invoice; partial unique indexes  *)
(* allow one invoice per job card that is not VOID and one ACTIVE gate     *)
(* pass per invoice.                                                       *)
(*                                                                         *)
(* Stored money is a number of cents (numeric(12,2)); the amount a client  *)
(* sends is a JSON number and is kept in mills, tenths of a cent.          *)
(***************************************************************************)
EXTENDS Integers

CONSTANTS
  JobCards,
  Invoices,     \* ids invoices rows get: bounds how many are generated
  GatePasses,   \* ids gate_passes rows get: bounds how many are minted
  Requests,     \* slots for requests in flight
  Totals,       \* totals, in cents, an invoice built from a card may have
  Amounts,      \* amounts, in mills, a client may send
  NoJobCard, NoInvoice, NoGatePass

\* Amounts half way between two cents are left out: which way toFixed(2) rounds them
\* depends on the binary fraction.
ASSUME BillingAssumption ==
  /\ Totals \subseteq Nat
  /\ Amounts \subseteq {m \in Nat : m % 10 # 5}
  /\ NoJobCard \notin JobCards /\ NoInvoice \notin Invoices /\ NoGatePass \notin GatePasses

VARIABLES
  invoice,      \* invoice -> its row; "unused" is an id nothing has yet
  collected,    \* invoice -> the sum of its invoice_payments rows
  pass,         \* gate pass -> its row
  req           \* request -> where it is and what it has read

vars == <<invoice, collected, pass, req>>

InvoiceRow ==
  [status : {"unused", "GENERATED", "PARTIALLY_PAID", "PAID", "VOID"},
   card : JobCards \cup {NoJobCard}, total : Nat, paid : Nat]

PassRow ==
  [status : {"unused", "ACTIVE", "REDEEMED", "VOIDED"}, invoice : Invoices \cup {NoInvoice}]

\* paid and amount: what recordPayment has read and is going to record.
Request ==
  [at : {"idle", "generate", "pay", "void", "redeem"}, card : JobCards \cup {NoJobCard},
   invoice : Invoices \cup {NoInvoice}, pass : GatePasses \cup {NoGatePass},
   paid : Nat, amount : Nat]

Idle == [at |-> "idle", card |-> NoJobCard, invoice |-> NoInvoice, pass |-> NoGatePass,
         paid |-> 0, amount |-> 0]

TypeOK ==
  /\ invoice \in [Invoices -> InvoiceRow]
  /\ collected \in [Invoices -> Nat]
  /\ pass \in [GatePasses -> PassRow]
  /\ req \in [Requests -> Request]

Init ==
  /\ invoice = [i \in Invoices |->
                  [status |-> "unused", card |-> NoJobCard, total |-> 0, paid |-> 0]]
  /\ collected = [i \in Invoices |-> 0]
  /\ pass = [p \in GatePasses |-> [status |-> "unused", invoice |-> NoInvoice]]
  /\ req = [r \in Requests |-> Idle]

-----------------------------------------------------------------------------

\* toFixed(2) of an amount in mills.
Cents(mills) == (mills + 5) \div 10

\* Invoices of a card that are not VOID: the index allows one.
LiveOf(j) == {i \in Invoices : invoice[i].card = j /\ invoice[i].status \notin {"unused", "VOID"}}

AnyPassOf(i) == {p \in GatePasses : pass[p].invoice = i}    \* mutant

ActiveOf(i) == {p \in GatePasses : pass[p].invoice = i /\ pass[p].status = "ACTIVE"}

Begin(r, q) == req[r].at = "idle" /\ req' = [req EXCEPT ![r] = q]

Finish(r) == req' = [req EXCEPT ![r] = Idle]

-----------------------------------------------------------------------------
(* generate.                                                               *)

GenerateRead(r, j) ==
  /\ LiveOf(j) = {}
  /\ Begin(r, [Idle EXCEPT !.at = "generate", !.card = j])
  /\ UNCHANGED <<invoice, collected, pass>>

\* The insert, of an invoice whose total the approved items of the card gave.
GenerateCommit(r) ==
  /\ req[r].at = "generate"
  /\ LiveOf(req[r].card) = {}
  /\ \E i \in Invoices, t \in Totals :
       /\ invoice[i].status = "unused"
       /\ invoice' = [invoice EXCEPT ![i] = [status |-> "GENERATED", card |-> req[r].card,
                                             total |-> t, paid |-> 0]]
  /\ Finish(r)
  /\ UNCHANGED <<collected, pass>>

\* The index refuses the second invoice of a card.
GenerateConflict(r) ==
  /\ req[r].at = "generate"
  /\ LiveOf(req[r].card) # {}
  /\ Finish(r)
  /\ UNCHANGED <<invoice, collected, pass>>

-----------------------------------------------------------------------------
(* recordPayment.                                                          *)

\* Mutant: the amount is not capped.
PaymentReadUncapped(r, i, sent) ==
  /\ invoice[i].status \in {"GENERATED", "PARTIALLY_PAID"}
  /\ sent > 0
  /\ Begin(r, [Idle EXCEPT !.at = "pay", !.invoice = i, !.paid = invoice[i].paid,
                           !.amount = sent])
  /\ UNCHANGED <<invoice, collected, pass>>

\* Read the invoice and cap the amount at what it says is due.
PaymentRead(r, i, sent) ==
  LET due == 10 * (invoice[i].total - invoice[i].paid)
      amount == IF sent <= due THEN sent ELSE due
  IN /\ invoice[i].status \in {"GENERATED", "PARTIALLY_PAID"}
     /\ amount > 0
     /\ Begin(r, [Idle EXCEPT !.at = "pay", !.invoice = i, !.paid = invoice[i].paid,
                              !.amount = amount])
     /\ UNCHANGED <<invoice, collected, pass>>

\* What the invoice is going to have paid, in mills, and whether that is all.
NewPaid(r) == 10 * req[r].paid + req[r].amount

FullyPaidWithinACent(r) == NewPaid(r) + 10 >= 10 * invoice[req[r].invoice].total    \* mutant

FullyPaid(r) == NewPaid(r) + 1 >= 10 * invoice[req[r].invoice].total

\* Some other invoice of the card is live, so this one, VOID by now, cannot be.
IndexRefuses(r) == LiveOf(invoice[req[r].invoice].card) \ {req[r].invoice} # {}

\* The payment row, the invoice as computed from what was read, and the gate pass,
\* unless one is active.
PaymentCommit(r) ==
  LET i == req[r].invoice
  IN /\ req[r].at = "pay"
     /\ ~IndexRefuses(r)
     /\ collected' = [collected EXCEPT ![i] = @ + Cents(req[r].amount)]
     /\ invoice' = [invoice EXCEPT ![i] =
                      [@ EXCEPT !.paid = Cents(NewPaid(r)),
                                !.status = IF FullyPaid(r) THEN "PAID" ELSE "PARTIALLY_PAID"]]
     /\ IF FullyPaid(r) /\ ActiveOf(i) = {}
          THEN \E p \in GatePasses :
                 /\ pass[p].status = "unused"
                 /\ pass' = [pass EXCEPT ![p] = [status |-> "ACTIVE", invoice |-> i]]
          ELSE UNCHANGED pass
     /\ Finish(r)

PaymentConflict(r) ==
  /\ req[r].at = "pay"
  /\ IndexRefuses(r)
  /\ Finish(r)
  /\ UNCHANGED <<invoice, collected, pass>>

-----------------------------------------------------------------------------
(* voidInvoice and redeem.                                                 *)

VoidRead(r, i) ==
  /\ invoice[i].status \notin {"unused", "VOID"}
  /\ invoice[i].paid = 0
  /\ Begin(r, [Idle EXCEPT !.at = "void", !.invoice = i])
  /\ UNCHANGED <<invoice, collected, pass>>

\* Mutants: the gate passes are left alone; the invoice gets the status of a pass.
VoidInvoiceOnly(r) ==
  /\ req[r].at = "void"
  /\ invoice' = [invoice EXCEPT ![req[r].invoice].status = "VOID"]
  /\ Finish(r)
  /\ UNCHANGED <<collected, pass>>

\* The invoice and its ACTIVE passes, in one transaction.
VoidCommit(r) ==
  /\ req[r].at = "void"
  /\ invoice' = [invoice EXCEPT ![req[r].invoice].status = "VOID"]
  /\ pass' = [p \in GatePasses |->
                IF p \in ActiveOf(req[r].invoice) THEN [pass[p] EXCEPT !.status = "VOIDED"]
                                                  ELSE pass[p]]
  /\ Finish(r)
  /\ UNCHANGED collected

RedeemRead(r, p) ==
  /\ pass[p].status = "ACTIVE"
  /\ Begin(r, [Idle EXCEPT !.at = "redeem", !.pass = p])
  /\ UNCHANGED <<invoice, collected, pass>>

\* The visit is closed next (module ServiceVisit).
Redeem(r) ==
  /\ req[r].at = "redeem"
  /\ pass' = [pass EXCEPT ![req[r].pass].status = "REDEEMED"]
  /\ Finish(r)
  /\ UNCHANGED <<invoice, collected>>

-----------------------------------------------------------------------------

\* The process stops or a transaction rolls back.
Fail(r) ==
  /\ req[r].at # "idle"
  /\ Finish(r)
  /\ UNCHANGED <<invoice, collected, pass>>

Next ==
  \E r \in Requests :
    \/ \E j \in JobCards : GenerateRead(r, j)
    \/ \E i \in Invoices : VoidRead(r, i) \/ \E m \in Amounts : PaymentRead(r, i, m)
    \/ \E p \in GatePasses : RedeemRead(r, p)
    \/ GenerateCommit(r) \/ GenerateConflict(r) \/ PaymentCommit(r) \/ PaymentConflict(r)
    \/ VoidCommit(r) \/ Redeem(r) \/ Fail(r)

Spec == Init /\ [][Next]_vars

-----------------------------------------------------------------------------

(* Nobody leaves on money that never came: when a gate pass is minted the payments
   recorded on its invoice cover the total, whatever the payments, voids and
   re-issues it raced with. *)
PassIsPaidFor ==
  \A p \in GatePasses :
    pass[p].status # "unused" =>
      collected[pass[p].invoice] >= invoice[pass[p].invoice].total

(* The invoice never credits a customer with more than was recorded (two payments
   that read the same balance lose one of the two, never invent one), nor with more
   than its total. *)
PaidIsBacked ==
  \A i \in Invoices : invoice[i].paid <= collected[i] /\ invoice[i].paid <= invoice[i].total

(* Who has paid can leave: a PAID invoice has a gate pass that is ACTIVE or was used,
   also when it was VOID for a moment. *)
PaidHasPass ==
  \A i \in Invoices :
    invoice[i].status = "PAID" =>
      \E p \in GatePasses : pass[p].invoice = i /\ pass[p].status \in {"ACTIVE", "REDEEMED"}

(* No pass opens the gate for an invoice that is VOID ("Gate-pass lifecycle: ACTIVE ->
   REDEEMED (or VOIDED if invoice voided)"). *)
ActivePassIsOfLiveInvoice ==
  \A p \in GatePasses :
    pass[p].status = "ACTIVE" => invoice[pass[p].invoice].status \in {"PARTIALLY_PAID", "PAID"}

(* A pass that let a vehicle out stays on record as redeemed, whatever happens to
   its invoice. *)
RedeemedStays ==
  [][\A p \in GatePasses : pass[p].status = "REDEEMED" => pass'[p].status = "REDEEMED"]_vars
=============================================================================
