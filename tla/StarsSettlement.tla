-------------------------- MODULE StarsSettlement ---------------------------
(***************************************************************************)
(* A Telegram Stars payment, from the invoice to the delivery of credits   *)
(* or of a subscription: app/payments/service.py and the Stars handlers of *)
(* app/bot/handlers/payments.py.                                           *)
(*                                                                         *)
(* Handlers run concurrently.  A transaction that locks the payment row    *)
(* and ends without waiting for anyone outside the database is one step:   *)
(* the others wait for the row, and a crash inside it leaves no trace.     *)
(* process_star_success is two such steps, because it commits the receipt  *)
(* and locks the row again; its session does not expire objects on commit  *)
(* and the second SELECT ... FOR UPDATE does not refresh the object it     *)
(* still holds, so the second step sees the payment as the first left it.  *)
(* The creator of an order goes on in the same way: it commits the row,    *)
(* asks Telegram for the invoice without a lock, and writes what it got    *)
(* into the object it has kept, whatever has happened to the row since.    *)
(***************************************************************************)
EXTENDS Naturals

CONSTANTS Payments,     \* rows of payments with provider telegram_stars
          PlanPayments, \* those that buy a subscription; the others buy credits
          Charges,      \* telegram_payment_charge_id values
          Sessions,     \* concurrent runs of the successful_payment handler
          MaxPreCheckouts, \* bound on the approvals of one invoice
          NoPayment, NoCharge

ASSUME StarsAssumption ==
  /\ PlanPayments \subseteq Payments
  /\ MaxPreCheckouts \in Nat
  /\ NoPayment \notin Payments /\ NoCharge \notin Charges

VARIABLES payment,   \* the committed rows
          invoice,   \* sendInvoice: not called, asked for, shown to the buyer, refused
          creating,  \* orders whose creator still waits for sendInvoice
          overdue,   \* payments past their expires_at
          approved,  \* pre-checkouts answered ok and not yet charged
          charged,   \* the payment each charge was taken for, at Telegram
          delivered, \* times the credits were granted or the plan extended
          settling   \* per session, the charge whose receipt it has committed

vars == <<payment, invoice, creating, overdue, approved, charged, delivered, settling>>

Statuses == {"none", "pending", "paid", "failed", "expired"}

NewRow == [status |-> "none", external_id |-> NoCharge, expires |-> FALSE]

TypeOK ==
  /\ payment \in [Payments -> [status: Statuses,
                               external_id: Charges \cup {NoCharge},
                               expires: BOOLEAN]]
  /\ invoice \in [Payments -> {"none", "asked", "shown", "refused"}]
  /\ creating \in SUBSET Payments
  /\ overdue \in SUBSET Payments
  /\ approved \in [Payments -> 0..MaxPreCheckouts]
  /\ charged \in [Charges -> Payments \cup {NoPayment}]
  /\ delivered \in [Payments -> Nat]
  /\ settling \in [Sessions -> Charges \cup {NoCharge}]

Init ==
  /\ payment = [p \in Payments |-> NewRow]
  /\ invoice = [p \in Payments |-> "none"]
  /\ creating = {}
  /\ overdue = {}
  /\ approved = [p \in Payments |-> 0]
  /\ charged = [c \in Charges |-> NoPayment]
  /\ delivered = [p \in Payments |-> 0]
  /\ settling = [s \in Sessions |-> NoCharge]

-----------------------------------------------------------------------------
(* create_payment and create_credit_payment: the local order is committed   *)
(* and its row unlocked before the invoice is asked for.                    *)
OpenOrder(p) ==
  /\ payment[p].status = "none"
  /\ payment' = [payment EXCEPT ![p].status = "pending"]
  /\ invoice' = [invoice EXCEPT ![p] = "asked"]
  /\ creating' = creating \cup {p}
  /\ UNCHANGED <<overdue, approved, charged, delivered, settling>>

\* Telegram takes the request: the buyer has the invoice, and may have it long
\* before its creator hears of it, or after its creator has given up.
InvoiceShown(p) ==
  /\ invoice[p] = "asked"
  /\ invoice' = [invoice EXCEPT ![p] = "shown"]
  /\ UNCHANGED <<payment, creating, overdue, approved, charged, delivered, settling>>

\* sendInvoice returned: set_provider_created stores the 30 minute deadline,
\* and None for the external id Telegram does not give, over whatever is there.
InvoiceSent(p) ==
  /\ p \in creating /\ invoice[p] = "shown"
  /\ payment' = [payment EXCEPT ![p].expires = TRUE, ![p].external_id = NoCharge]
  /\ creating' = creating \ {p}
  /\ UNCHANGED <<invoice, overdue, approved, charged, delivered, settling>>

\* A terminal creation error, raised before anything was sent: a failed order.
InvoiceRefused(p) ==
  /\ p \in creating /\ invoice[p] = "asked"
  /\ invoice' = [invoice EXCEPT ![p] = "refused"]
  /\ payment' = [payment EXCEPT ![p].status = "failed"]
  /\ creating' = creating \ {p}
  /\ UNCHANGED <<overdue, approved, charged, delivered, settling>>

\* A transport error or a crash during the call: the order stays pending with
\* no deadline, and the buyer has the invoice, will have it, or never will.
InvoiceAmbiguous(p) ==
  /\ p \in creating
  /\ creating' = creating \ {p}
  /\ UNCHANGED <<payment, invoice, overdue, approved, charged, delivered, settling>>

DeadlinePasses(p) ==
  /\ payment[p].expires
  /\ p \notin overdue
  /\ overdue' = overdue \cup {p}
  /\ UNCHANGED <<payment, invoice, creating, approved, charged, delivered, settling>>

-----------------------------------------------------------------------------
\* An invoice the buyer has, whether or not its creator has come back.  Its
\* pre-checkouts may be several, from several devices, and one may be handled
\* after another has been charged.
Payable(p) == invoice[p] = "shown"

(* validate_star_precheckout under the row lock, then the handler's answer. *)
ApprovePreCheckout(p) ==
  /\ Payable(p)
  /\ payment[p].status = "pending"
  /\ p \notin overdue
  /\ approved[p] < MaxPreCheckouts
  /\ approved' = [approved EXCEPT ![p] = @ + 1]
  /\ UNCHANGED <<payment, invoice, creating, overdue, charged, delivered, settling>>

\* Too late: the refusal is caught by the handler, so the status is committed.
ExpireAtPreCheckout(p) ==
  /\ Payable(p)
  /\ payment[p].status = "pending"
  /\ p \in overdue
  /\ payment' = [payment EXCEPT ![p].status = "expired"]
  /\ UNCHANGED <<invoice, creating, overdue, approved, charged, delivered, settling>>

\* Telegram takes the Stars of an approved pre-checkout, sooner or later.
TakeCharge(p, c) ==
  /\ approved[p] > 0
  /\ charged[c] = NoPayment
  /\ approved' = [approved EXCEPT ![p] = @ - 1]
  /\ charged' = [charged EXCEPT ![c] = p]
  /\ UNCHANGED <<payment, invoice, creating, overdue, delivered, settling>>

-----------------------------------------------------------------------------
\* Mutants of RecordReceipt: the row is marked paid together with its receipt;
\* a charge is not compared with the recorded one.
RecordReceiptAsPaid(s, c) ==
  LET p == charged[c] IN
  /\ settling[s] = NoCharge /\ p \in Payments
  /\ payment[p].status = "pending" /\ payment[p].external_id \in {NoCharge, c}
  /\ payment' = [payment EXCEPT ![p].external_id = c, ![p].status = "paid"]
  /\ settling' = [settling EXCEPT ![s] = c]
  /\ UNCHANGED <<invoice, creating, overdue, approved, charged, delivered>>

RecordAnyReceipt(s, c) ==
  LET p == charged[c] IN
  /\ settling[s] = NoCharge /\ p \in Payments
  /\ payment[p].status = "pending"
  /\ payment' = [payment EXCEPT ![p].external_id = c]
  /\ settling' = [settling EXCEPT ![s] = c]
  /\ UNCHANGED <<invoice, creating, overdue, approved, charged, delivered>>

(* process_star_success, first transaction.  An update is delivered at      *)
(* least once, so any charge may be received again.  A paid order is        *)
(* acknowledged and another status or charge is refused: no change.         *)
RecordReceipt(s, c) ==
  LET p == charged[c] IN
  /\ settling[s] = NoCharge
  /\ p \in Payments
  /\ payment[p].status = "pending"
  /\ payment[p].external_id \in {NoCharge, c}
  /\ payment' = [payment EXCEPT ![p].external_id = c]
  /\ settling' = [settling EXCEPT ![s] = c]
  /\ UNCHANGED <<invoice, creating, overdue, approved, charged, delivered>>

\* Mutant of KeyFree: the grant carries no idempotency key.
NoKey(p) == p \in Payments

\* The credit ledger accepts payment-credit:<id> once; a subscription is
\* extended by every settlement.
KeyFree(p) == p \in PlanPayments \/ delivered[p] = 0
Delivery(p) == [delivered EXCEPT ![p] = IF KeyFree(p) THEN @ + 1 ELSE @]

(* Second transaction: the object in memory is still pending with this      *)
(* charge, so the checks after the second lock pass and _settle_locked      *)
(* delivers and marks the row paid.  The charge is what the object already  *)
(* holds, so the UPDATE does not write it.                                  *)
Settle(s) ==
  LET p == charged[settling[s]] IN
  /\ settling[s] # NoCharge
  /\ payment' = [payment EXCEPT ![p].status = "paid"]
  /\ delivered' = Delivery(p)
  /\ settling' = [settling EXCEPT ![s] = NoCharge]
  /\ UNCHANGED <<invoice, creating, overdue, approved, charged>>

\* The settlement raises and is rolled back, or the bot is killed.
AbandonSettlement(s) ==
  /\ settling[s] # NoCharge
  /\ settling' = [settling EXCEPT ![s] = NoCharge]
  /\ UNCHANGED <<payment, invoice, creating, overdue, approved, charged, delivered>>

Next ==
  \/ \E p \in Payments :
       \/ OpenOrder(p) \/ InvoiceShown(p) \/ InvoiceSent(p) \/ InvoiceRefused(p)
       \/ InvoiceAmbiguous(p)
       \/ DeadlinePasses(p) \/ ApprovePreCheckout(p) \/ ExpireAtPreCheckout(p)
  \/ \E p \in Payments, c \in Charges : TakeCharge(p, c)
  \/ \E s \in Sessions : Settle(s) \/ AbandonSettlement(s)
  \/ \E s \in Sessions, c \in Charges : RecordReceipt(s, c)

Spec == Init /\ [][Next]_vars

-----------------------------------------------------------------------------
(* A paid order has been delivered, and nothing else has: the receipt, the   *)
(* delivery and the status never come apart, whatever crashes in between.    *)
PaidMeansDelivered ==
  \A p \in Payments : payment[p].status = "paid" <=> delivered[p] > 0

(* Only the late write of its creator takes a recorded charge out of a row:  *)
(* of two charged pre-checkouts the second is refused, and a handler that    *)
(* settles from an old copy puts no charge back.  Once the creator has       *)
(* returned, the receipt is there for good.                                  *)
ReceiptIsKept ==
  [][\A p \in Payments :
       payment[p].external_id # NoCharge /\ payment'[p].external_id # payment[p].external_id
         => /\ payment'[p].external_id = NoCharge
            /\ p \in creating /\ p \notin creating']_vars

(* A credit order keeps the buyer's promise (PaymentPromise).                *)
CreditOrders == Payments \ PlanPayments

OrderOf(status) ==
  CASE status = "none" -> "none"
    [] status = "pending" -> "open"
    [] status = "paid" -> "paid"
    [] OTHER -> "closed"

Buyer == INSTANCE PaymentPromise WITH
  Orders <- CreditOrders,
  order <- [p \in CreditOrders |-> OrderOf(payment[p].status)],
  money <- [p \in CreditOrders |-> \E c \in Charges : charged[c] = p],
  goods <- [p \in CreditOrders |-> delivered[p]]

KeepsPromise == Buyer!Promise

(* README.md:399 "Settlement also locks the local payment row, so a repeated *)
(* provider callback cannot grant the subscription twice."                   *)
PlanExtendedOnce == \A p \in PlanPayments : delivered[p] <= 1
=============================================================================
