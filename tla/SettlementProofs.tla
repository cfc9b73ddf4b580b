--------------------------- MODULE SettlementProofs --------------------------
(* What StarsSettlement promises holds for every set of orders, charges and *)
(* handlers, and what ReferralRewards promises of the rewards that follow a *)
(* first payment for any users, any tree of invitations and any overlap of  *)
(* transactions.                                                            *)
EXTENDS StarsSettlement, ReferralRewards, FiniteSetTheorems, TLAPS

-----------------------------------------------------------------------------
(* PART 1: StarsSettlement.                                                 *)
(*                                                                          *)
(* Two handlers may both have committed the receipt of one charge, and each *)
(* then settles from a copy it does not refresh, while the creator of the   *)
(* order may still erase that receipt.  What keeps this in order is not the *)
(* receipt in the row but that a handler settles a charge that was taken for*)
(* this very order, and that an order whose invoice may still be refused was*)
(* never charged.                                                           *)


\* How far an order has come limits what Telegram may do for it.
OrderedFirst ==
  \A p \in Payments :
    /\ payment[p].status = "none" <=> invoice[p] = "none"
    /\ invoice[p] = "asked" => payment[p].status = "pending"
    /\ approved[p] > 0 => invoice[p] = "shown"
    /\ \A c \in Charges : charged[c] = p => invoice[p] = "shown"

\* A handler that is about to settle has a charge of its order, and nothing but
\* a settlement or the deadline has closed the order meanwhile.
SettlingIsCharged ==
  \A s \in Sessions : settling[s] # NoCharge =>
    LET p == charged[settling[s]] IN
    /\ p \in Payments
    /\ payment[p].status \in {"pending", "expired", "paid"}

\* The ledger key: credits are granted once.
CreditedOnce == \A p \in CreditOrders : delivered[p] <= 1

IInv ==
  /\ TypeOK /\ OrderedFirst /\ SettlingIsCharged
  /\ PaidMeansDelivered /\ CreditedOnce

-----------------------------------------------------------------------------
(* A step that gives one order another status and touches neither charges,  *)
(* deliveries nor handlers preserves what they rely on, provided the order  *)
(* is neither paid before nor after and no handler settles it, or it        *)
(* expires.                                                                 *)
LEMMA StatusIInv ==
  ASSUME IInv, NEW p \in Payments, NEW st \in {"pending", "failed", "expired"},
         payment[p].status # "paid",
         payment' = [payment EXCEPT ![p].status = st],
         st = "expired" \/ invoice[p] # "shown",
         UNCHANGED <<charged, delivered, settling>>
  PROVE  SettlingIsCharged' /\ PaidMeansDelivered' /\ CreditedOnce'
<1>1. /\ payment'[p].status = st
      /\ \A q \in Payments \ {p} : payment'[q] = payment[q]
  BY DEF IInv, TypeOK
<1>2. PaidMeansDelivered' /\ CreditedOnce'
  BY <1>1 DEF IInv, PaidMeansDelivered, CreditedOnce
<1>3. SettlingIsCharged'
  <2> SUFFICES ASSUME NEW s \in Sessions, settling[s] # NoCharge
               PROVE  /\ charged[settling[s]] \in Payments
                      /\ payment'[charged[settling[s]]].status \in {"pending", "expired", "paid"}
    BY DEF SettlingIsCharged
  <2>1. /\ settling[s] \in Charges /\ charged[settling[s]] \in Payments
        /\ payment[charged[settling[s]]].status \in {"pending", "expired", "paid"}
    BY DEF IInv, TypeOK, SettlingIsCharged
  <2>2. charged[settling[s]] = p => st = "expired"
    BY <2>1 DEF IInv, OrderedFirst
  <2>3. QED BY <1>1, <2>1, <2>2
<1>4. QED BY <1>2, <1>3

-----------------------------------------------------------------------------
(* A new order is pending and has nothing else.                             *)
LEMMA OpenOrderIInv == ASSUME IInv, NEW p \in Payments, OpenOrder(p) PROVE IInv'
<1>1. invoice[p] = "none" /\ payment[p].status = "none"
  BY DEF IInv, OrderedFirst, OpenOrder
<1>2. TypeOK'
  BY DEF IInv, TypeOK, OpenOrder, Statuses
<1>3. SettlingIsCharged' /\ PaidMeansDelivered' /\ CreditedOnce'
  BY <1>1, StatusIInv DEF OpenOrder
<1>4. OrderedFirst'
  BY <1>1 DEF IInv, TypeOK, OrderedFirst, OpenOrder, Statuses
<1>5. QED BY <1>2, <1>3, <1>4 DEF IInv

(* What the buyer sees and what the creator writes of it moves no money and *)
(* no status.                                                               *)
LEMMA InvoiceIInv ==
  ASSUME IInv, NEW p \in Payments,
         InvoiceShown(p) \/ InvoiceSent(p) \/ InvoiceAmbiguous(p)
  PROVE  IInv'
<1>1. /\ UNCHANGED <<overdue, approved, charged, delivered, settling>>
      /\ creating' \in {creating, creating \ {p}}
  BY DEF InvoiceShown, InvoiceSent, InvoiceAmbiguous
<1>2. /\ payment' \in [Payments -> [status: Statuses,
                                    external_id: Charges \cup {NoCharge},
                                    expires: BOOLEAN]]
      /\ \A q \in Payments : payment'[q].status = payment[q].status
  <2>1. CASE InvoiceSent(p)
    <3> DEFINE r == [payment[p] EXCEPT !.expires = TRUE, !.external_id = NoCharge]
    <3>1. payment' = [payment EXCEPT ![p] = r]
      BY <2>1 DEF InvoiceSent, IInv, TypeOK
    <3>2. /\ r \in [status: Statuses, external_id: Charges \cup {NoCharge}, expires: BOOLEAN]
          /\ r.status = payment[p].status
      BY DEF IInv, TypeOK
    <3> HIDE DEF r
    <3>3. QED BY <3>1, <3>2 DEF IInv, TypeOK
  <2>2. CASE InvoiceShown(p) \/ InvoiceAmbiguous(p)
    BY <2>2 DEF InvoiceShown, InvoiceAmbiguous, IInv, TypeOK
  <2>3. QED BY <2>1, <2>2
<1>3. \/ invoice' = invoice
      \/ invoice[p] = "asked" /\ invoice' = [invoice EXCEPT ![p] = "shown"]
  BY DEF InvoiceShown, InvoiceSent, InvoiceAmbiguous
<1>4. TypeOK'
  <2>1. invoice' \in [Payments -> {"none", "asked", "shown", "refused"}]
    BY <1>3 DEF IInv, TypeOK
  <2>2. QED BY <1>1, <1>2, <2>1 DEF IInv, TypeOK
<1>5. OrderedFirst'
  <2>1. /\ \A q \in Payments : invoice'[q] = "none" <=> invoice[q] = "none"
        /\ \A q \in Payments : invoice'[q] = "asked" => invoice[q] = "asked"
        /\ \A q \in Payments : invoice[q] = "shown" => invoice'[q] = "shown"
    BY <1>3 DEF IInv, TypeOK
  <2>2. QED BY <1>1, <1>2, <2>1 DEF IInv, OrderedFirst
<1>6. SettlingIsCharged' /\ PaidMeansDelivered' /\ CreditedOnce'
  BY <1>1, <1>2 DEF IInv, SettlingIsCharged, PaidMeansDelivered, CreditedOnce
<1>7. QED BY <1>4, <1>5, <1>6 DEF IInv

(* An order whose creation failed for good was never shown to its buyer.    *)
LEMMA RefusedIInv ==
  ASSUME IInv, NEW p \in Payments, InvoiceRefused(p) PROVE IInv'
<1>1. invoice[p] = "asked" /\ payment[p].status = "pending"
  BY DEF IInv, OrderedFirst, InvoiceRefused
<1>2. TypeOK'
  BY DEF IInv, TypeOK, InvoiceRefused, Statuses
<1>3. SettlingIsCharged' /\ PaidMeansDelivered' /\ CreditedOnce'
  BY <1>1, StatusIInv DEF InvoiceRefused
<1>4. OrderedFirst'
  BY <1>1 DEF IInv, TypeOK, OrderedFirst, InvoiceRefused
<1>5. QED BY <1>2, <1>3, <1>4 DEF IInv

(* Time, approvals and charges leave every row as it is.                    *)
LEMMA OutsideIInv ==
  ASSUME IInv,
         \E p \in Payments :
           DeadlinePasses(p) \/ ApprovePreCheckout(p) \/ \E c \in Charges : TakeCharge(p, c)
  PROVE  IInv'
<1>1. UNCHANGED <<payment, invoice, creating, delivered, settling>>
  BY DEF DeadlinePasses, ApprovePreCheckout, TakeCharge
<1>2. TypeOK'
  <2>1. PICK p \in Payments :
          DeadlinePasses(p) \/ ApprovePreCheckout(p) \/ \E c \in Charges : TakeCharge(p, c)
    OBVIOUS
  <2>2. overdue' \in SUBSET Payments
    BY <2>1 DEF IInv, TypeOK, DeadlinePasses, ApprovePreCheckout, TakeCharge
  <2>3. approved' \in [Payments -> 0..MaxPreCheckouts]
    BY <2>1, StarsAssumption
    DEF IInv, TypeOK, DeadlinePasses, ApprovePreCheckout, TakeCharge
  <2>4. charged' \in [Charges -> Payments \cup {NoPayment}]
    BY <2>1 DEF IInv, TypeOK, DeadlinePasses, ApprovePreCheckout, TakeCharge
  <2>5. QED BY <1>1, <2>2, <2>3, <2>4 DEF IInv, TypeOK
<1>3. \A c \in Charges : charged[c] \in Payments => charged'[c] = charged[c]
  BY StarsAssumption DEF IInv, TypeOK, DeadlinePasses, ApprovePreCheckout, TakeCharge
<1>4. OrderedFirst'
  BY StarsAssumption
  DEF IInv, TypeOK, OrderedFirst, Payable, DeadlinePasses, ApprovePreCheckout, TakeCharge
<1>5. SettlingIsCharged'
  BY <1>1, <1>3 DEF IInv, TypeOK, SettlingIsCharged
<1>6. PaidMeansDelivered' /\ CreditedOnce'
  BY <1>1 DEF IInv, PaidMeansDelivered, CreditedOnce
<1>7. QED BY <1>2, <1>4, <1>5, <1>6 DEF IInv

(* Only a pending order expires, and it may still be settled.               *)
LEMMA ExpireIInv ==
  ASSUME IInv, NEW p \in Payments, ExpireAtPreCheckout(p) PROVE IInv'
<1>1. TypeOK' /\ OrderedFirst'
  BY DEF IInv, TypeOK, OrderedFirst, ExpireAtPreCheckout, Payable, Statuses
<1>2. SettlingIsCharged' /\ PaidMeansDelivered' /\ CreditedOnce'
  BY StatusIInv DEF ExpireAtPreCheckout
<1>3. QED BY <1>1, <1>2 DEF IInv

(* A receipt is recorded for the order its charge was taken for.            *)
LEMMA RecordReceiptIInv ==
  ASSUME IInv, NEW s \in Sessions, NEW c \in Charges, RecordReceipt(s, c) PROVE IInv'
<1>1. PICK p \in Payments :
      /\ p = charged[c] /\ payment[p].status = "pending"
      /\ payment' = [payment EXCEPT ![p].external_id = c]
      /\ settling' = [settling EXCEPT ![s] = c]
      /\ UNCHANGED <<invoice, creating, overdue, approved, charged, delivered>>
  BY DEF RecordReceipt
<1>2. TypeOK'
  BY <1>1 DEF IInv, TypeOK
<1>3. \A q \in Payments : payment'[q].status = payment[q].status
  BY <1>1 DEF IInv, TypeOK
<1>4. OrderedFirst' /\ PaidMeansDelivered' /\ CreditedOnce'
  BY <1>1, <1>3 DEF IInv, OrderedFirst, PaidMeansDelivered, CreditedOnce
<1>5. SettlingIsCharged'
  <2>1. \A t \in Sessions : settling'[t] = IF t = s THEN c ELSE settling[t]
    BY <1>1 DEF IInv, TypeOK
  <2>2. QED BY <1>1, <1>3, <2>1 DEF IInv, SettlingIsCharged
<1>6. QED BY <1>2, <1>4, <1>5 DEF IInv

(* A settlement never grants credits a second time, even from a stale copy  *)
(* of the row.                                                              *)
LEMMA SettleIInv ==
  ASSUME IInv, NEW s \in Sessions, Settle(s) PROVE IInv'
<1>1. PICK c \in Charges, p \in Payments :
      /\ c = settling[s] /\ p = charged[c]
      /\ payment' = [payment EXCEPT ![p].status = "paid"]
      /\ delivered' = Delivery(p)
      /\ settling' = [settling EXCEPT ![s] = NoCharge]
      /\ UNCHANGED <<invoice, creating, overdue, approved, charged>>
      /\ payment[p].status \in {"pending", "expired", "paid"}
  BY DEF Settle, IInv, TypeOK, SettlingIsCharged
<1>2. /\ delivered'[p] \in Nat /\ delivered'[p] > 0
      /\ p \in CreditOrders => delivered'[p] = 1
      /\ \A q \in Payments \ {p} : delivered'[q] = delivered[q]
      /\ delivered' \in [Payments -> Nat]
  <2>1. delivered \in [Payments -> Nat] /\ (p \in CreditOrders => delivered[p] <= 1)
    BY DEF IInv, TypeOK, CreditedOnce
  <2>2. CASE KeyFree(p)
    <3>1. delivered' = [delivered EXCEPT ![p] = @ + 1]
      BY <1>1, <2>2 DEF Delivery
    <3>2. p \in CreditOrders => delivered[p] = 0
      BY <2>2 DEF KeyFree, CreditOrders
    <3>3. QED BY <1>1, <2>1, <3>1, <3>2
  <2>3. CASE ~KeyFree(p)
    <3>1. delivered' = delivered
      BY <1>1, <2>1, <2>3 DEF Delivery
    <3>2. delivered[p] # 0
      BY <2>3 DEF KeyFree
    <3>3. QED BY <1>1, <2>1, <3>1, <3>2
  <2>4. QED BY <2>2, <2>3
<1>3. /\ payment'[p].status = "paid"
      /\ \A q \in Payments \ {p} : payment'[q] = payment[q]
  BY <1>1 DEF IInv, TypeOK
<1>4. TypeOK'
  <2>1. payment' \in [Payments -> [status: Statuses,
                                   external_id: Charges \cup {NoCharge},
                                   expires: BOOLEAN]]
    BY <1>1 DEF IInv, TypeOK, Statuses
  <2>2. settling' \in [Sessions -> Charges \cup {NoCharge}]
    BY <1>1 DEF IInv, TypeOK
  <2>3. QED BY <1>1, <1>2, <2>1, <2>2 DEF IInv, TypeOK
<1>5. OrderedFirst'
  <2>1. invoice[p] = "shown"
    BY <1>1 DEF IInv, OrderedFirst
  <2>2. QED BY <1>1, <1>3, <2>1 DEF IInv, OrderedFirst
<1>6. SettlingIsCharged'
  <2>1. \A t \in Sessions : settling'[t] # NoCharge => settling'[t] = settling[t]
    BY <1>1 DEF IInv, TypeOK
  <2>2. \A q \in Payments : payment[q].status \in {"pending", "expired", "paid"}
                            => payment'[q].status \in {"pending", "expired", "paid"}
    BY <1>3
  <2>3. charged' = charged
    BY <1>1
  <2>4. QED BY <2>1, <2>2, <2>3 DEF IInv, SettlingIsCharged
<1>7. PaidMeansDelivered' /\ CreditedOnce'
  BY <1>2, <1>3 DEF IInv, PaidMeansDelivered, CreditedOnce, CreditOrders
<1>8. QED BY <1>4, <1>5, <1>6, <1>7 DEF IInv

(* A settlement that fails leaves the order for the next delivery.          *)
LEMMA AbandonIInv ==
  ASSUME IInv, NEW s \in Sessions, AbandonSettlement(s) PROVE IInv'
<1>1. /\ settling' = [settling EXCEPT ![s] = NoCharge]
      /\ UNCHANGED <<payment, invoice, creating, overdue, approved, charged, delivered>>
  BY DEF AbandonSettlement
<1>2. \A t \in Sessions : settling'[t] # NoCharge => settling'[t] = settling[t]
  BY <1>1 DEF IInv, TypeOK
<1>3. TypeOK' /\ SettlingIsCharged'
  BY <1>1, <1>2 DEF IInv, TypeOK, SettlingIsCharged
<1>4. QED
  BY <1>1, <1>3 DEF IInv, OrderedFirst, PaidMeansDelivered, CreditedOnce

-----------------------------------------------------------------------------
(* Every step preserves the inductive invariant.                            *)
LEMMA NextIInv == IInv /\ [Next]_vars => IInv'
<1> SUFFICES ASSUME IInv, [Next]_vars PROVE IInv'
  OBVIOUS
<1>1. CASE UNCHANGED vars
  BY <1>1 DEF vars, IInv, TypeOK, OrderedFirst, SettlingIsCharged,
              PaidMeansDelivered, CreditedOnce
<1>2. CASE \E p \in Payments : OpenOrder(p)
  BY <1>2, OpenOrderIInv
<1>3. CASE \E p \in Payments : InvoiceShown(p) \/ InvoiceSent(p) \/ InvoiceAmbiguous(p)
  BY <1>3, InvoiceIInv
<1>4. CASE \E p \in Payments : InvoiceRefused(p)
  BY <1>4, RefusedIInv
<1>5. CASE \E p \in Payments :
          DeadlinePasses(p) \/ ApprovePreCheckout(p) \/ \E c \in Charges : TakeCharge(p, c)
  BY <1>5, OutsideIInv
<1>6. CASE \E p \in Payments : ExpireAtPreCheckout(p)
  BY <1>6, ExpireIInv
<1>7. CASE \E s \in Sessions, c \in Charges : RecordReceipt(s, c)
  BY <1>7, RecordReceiptIInv
<1>8. CASE \E s \in Sessions : Settle(s)
  BY <1>8, SettleIInv
<1>9. CASE \E s \in Sessions : AbandonSettlement(s)
  BY <1>9, AbandonIInv
<1>10. QED
  BY <1>1, <1>2, <1>3, <1>4, <1>5, <1>6, <1>7, <1>8, <1>9 DEF Next

(* Without orders nothing is asked, charged or delivered.                   *)
LEMMA InitIInv == Init => IInv
BY StarsAssumption
DEF Init, NewRow, IInv, TypeOK, Statuses, OrderedFirst, SettlingIsCharged,
    PaidMeansDelivered, CreditedOnce, CreditOrders

(* Every reachable state satisfies the inductive invariant.                 *)
THEOREM SpecIInv == Spec => []IInv
BY InitIInv, NextIInv, PTL DEF Spec

-----------------------------------------------------------------------------
(* The rows, the invoices and the handlers keep their types.                *)
THEOREM TypeCorrect == Spec => []TypeOK
<1>1. IInv => TypeOK
  BY DEF IInv
<1>2. QED BY <1>1, SpecIInv, PTL

(* An order is paid exactly when it was delivered, also when its receipt    *)
(* was erased between the handler's two transactions.                       *)
THEOREM PaidIsDelivered == Spec => []PaidMeansDelivered
<1>1. IInv => PaidMeansDelivered
  BY DEF IInv
<1>2. QED BY <1>1, SpecIInv, PTL

(* No second charge and no stale handler replaces a recorded receipt, and   *)
(* none but the order's creator, once, takes it away.                       *)
THEOREM ReceiptKept == Spec => ReceiptIsKept
<1> DEFINE Kept == \A p \in Payments :
                     payment[p].external_id # NoCharge
                     /\ payment'[p].external_id # payment[p].external_id
                       => /\ payment'[p].external_id = NoCharge
                          /\ p \in creating /\ p \notin creating'
<1>1. ASSUME IInv, [Next]_vars PROVE [Kept]_vars
  <2> SUFFICES ASSUME NEW q \in Payments, payment[q].external_id # NoCharge,
                      payment'[q].external_id # payment[q].external_id
               PROVE  /\ payment'[q].external_id = NoCharge
                      /\ q \in creating /\ q \notin creating'
    OBVIOUS
  <2>1. CASE \E p \in Payments : InvoiceSent(p)
    <3>1. PICK p \in Payments : InvoiceSent(p)
      BY <2>1
    <3>2. /\ p \in creating /\ creating' = creating \ {p}
          /\ payment' = [payment EXCEPT ![p].expires = TRUE, ![p].external_id = NoCharge]
      BY <3>1 DEF InvoiceSent
    <3>3. /\ payment'[p].external_id = NoCharge
          /\ \A r \in Payments \ {p} : payment'[r] = payment[r]
      BY <1>1, <3>2 DEF IInv, TypeOK
    <3>4. QED BY <3>2, <3>3
  <2>2. CASE \E s \in Sessions, c \in Charges : RecordReceipt(s, c)
    BY <1>1, <2>2 DEF RecordReceipt, IInv, TypeOK
  <2>3. CASE \E s \in Sessions : Settle(s)
    <3>1. PICK s \in Sessions :
            payment' = [payment EXCEPT ![charged[settling[s]]].status = "paid"]
      BY <2>3 DEF Settle
    <3>2. payment'[q].external_id = payment[q].external_id
      BY <1>1, <3>1 DEF IInv, TypeOK
    <3>3. QED BY <3>2
  <2>4. CASE \E p \in Payments : OpenOrder(p) \/ InvoiceRefused(p) \/ ExpireAtPreCheckout(p)
    BY <1>1, <2>4 DEF OpenOrder, InvoiceRefused, ExpireAtPreCheckout, IInv, TypeOK
  <2>5. CASE UNCHANGED payment
    BY <2>5
  <2>6. QED
    BY <1>1, <2>1, <2>2, <2>3, <2>4, <2>5
    DEF Next, vars, InvoiceShown, InvoiceAmbiguous, DeadlinePasses, ApprovePreCheckout,
        TakeCharge, AbandonSettlement
<1>2. QED BY <1>1, SpecIInv, PTL DEF Spec, ReceiptIsKept

-----------------------------------------------------------------------------
(* The refinement: the abstract state of the credit orders.                 *)
orders == [p \in CreditOrders |-> OrderOf(payment[p].status)]
moneys == [p \in CreditOrders |-> \E c \in Charges : charged[c] = p]
goods == [p \in CreditOrders |-> delivered[p]]

(* Nothing is ordered at first.                                             *)
LEMMA PromiseStarts == Init => Buyer!PromiseInit
<1> SUFFICES ASSUME Init PROVE Buyer!PromiseInit
  OBVIOUS
<1>1. orders = [p \in CreditOrders |-> "none"]
  BY DEF Init, NewRow, orders, OrderOf, CreditOrders
<1>2. moneys = [p \in CreditOrders |-> FALSE]
  BY StarsAssumption DEF Init, moneys, CreditOrders
<1>3. goods = [p \in CreditOrders |-> 0]
  BY DEF Init, goods, CreditOrders
<1>4. QED BY <1>1, <1>2, <1>3 DEF Buyer!PromiseInit, orders, moneys, goods

(* A step that changes neither status, charges nor deliveries of credit     *)
(* orders is a stutter of the promise.                                      *)
LEMMA PromiseStutters ==
  ASSUME \A p \in CreditOrders : payment'[p].status = payment[p].status
                                /\ delivered'[p] = delivered[p],
         charged' = charged
  PROVE  UNCHANGED Buyer!promise
<1>1. orders' = orders
  BY DEF orders, OrderOf
<1>2. moneys' = moneys
  BY DEF moneys
<1>3. goods' = goods
  BY DEF goods
<1>4. QED BY <1>1, <1>2, <1>3 DEF Buyer!promise, orders, moneys, goods

(* A step that moves the status of one credit order is Place or Close.      *)
LEMMA PromiseMoves ==
  ASSUME IInv, NEW p \in Payments, NEW st \in Statuses,
         payment' = [payment EXCEPT ![p].status = st],
         \/ payment[p].status = "none" /\ st = "pending"
         \/ payment[p].status = "pending" /\ st \in {"failed", "expired"},
         UNCHANGED <<charged, delivered>>
  PROVE  [Buyer!PromiseNext]_(Buyer!promise)
<1>1. payment'[p].status = st /\ \A q \in Payments \ {p} : payment'[q] = payment[q]
  BY DEF IInv, TypeOK
<1>2. CASE p \notin CreditOrders
  BY <1>1, <1>2, PromiseStutters DEF CreditOrders
<1>3. CASE p \in CreditOrders
  <2>1. moneys' = moneys /\ goods' = goods
    BY DEF moneys, goods
  <2>2. orders' = [orders EXCEPT ![p] = OrderOf(st)]
    BY <1>1, <1>3 DEF orders, CreditOrders, OrderOf
  <2>3. orders[p] = OrderOf(payment[p].status)
    BY <1>3 DEF orders
  <2>4. CASE payment[p].status = "none" /\ st = "pending"
    <3>1. orders[p] = "none" /\ OrderOf(st) = "open"
      BY <2>3, <2>4 DEF OrderOf
    <3>2. Buyer!Place(p)
      BY <2>1, <2>2, <3>1 DEF Buyer!Place, orders, moneys, goods
    <3>3. QED BY <1>3, <3>2 DEF Buyer!PromiseNext
  <2>5. CASE payment[p].status = "pending" /\ st \in {"failed", "expired"}
    <3>1. orders[p] = "open" /\ OrderOf(st) = "closed"
      BY <2>3, <2>5 DEF OrderOf
    <3>2. Buyer!Close(p)
      BY <2>1, <2>2, <3>1 DEF Buyer!Close, orders, moneys, goods
    <3>3. QED BY <1>3, <3>2 DEF Buyer!PromiseNext
  <2>6. QED BY <2>4, <2>5
<1>4. QED BY <1>2, <1>3

(* A charge is the buyer's money, for an order that was placed.             *)
LEMMA PromisePays ==
  ASSUME IInv, NEW p \in Payments, NEW c \in Charges, TakeCharge(p, c)
  PROVE  [Buyer!PromiseNext]_(Buyer!promise)
<1>1. orders' = orders /\ goods' = goods
  BY DEF TakeCharge, orders, goods
<1>2. \A d \in Charges : charged'[d] = IF d = c THEN p ELSE charged[d]
  BY DEF TakeCharge, IInv, TypeOK
<1>3. charged[c] = NoPayment
  BY DEF TakeCharge
<1>4. \A q \in CreditOrders :
        (\E d \in Charges : charged'[d] = q) <=> q = p \/ \E d \in Charges : charged[d] = q
  BY <1>2, <1>3, StarsAssumption DEF CreditOrders
<1>5. CASE p \notin CreditOrders
  <2>1. moneys' = moneys
    BY <1>4, <1>5 DEF moneys
  <2>2. QED BY <1>1, <2>1 DEF Buyer!promise, orders, moneys, goods
<1>6. CASE p \in CreditOrders
  <2>1. moneys' = [moneys EXCEPT ![p] = TRUE]
    BY <1>4, <1>6 DEF moneys
  <2>2. payment[p].status # "none" /\ payment[p].status \in Statuses
    BY DEF TakeCharge, IInv, TypeOK, OrderedFirst
  <2>3. orders[p] # "none"
    BY <1>6, <2>2 DEF orders, OrderOf
  <2>4. Buyer!Pay(p)
    BY <1>1, <2>1, <2>3 DEF Buyer!Pay, orders, moneys, goods
  <2>5. QED BY <1>6, <2>4 DEF Buyer!PromiseNext
<1>7. QED BY <1>5, <1>6

(* A settlement delivers what was paid for and not yet delivered, or does   *)
(* again what another handler of the same receipt has done.                 *)
LEMMA PromiseDelivers ==
  ASSUME IInv, NEW s \in Sessions, Settle(s)
  PROVE  [Buyer!PromiseNext]_(Buyer!promise)
<1>1. PICK p \in Payments, c \in Charges : c = settling[s] /\ charged[c] = p
  BY DEF Settle, IInv, TypeOK, SettlingIsCharged
<1>2. /\ payment' = [payment EXCEPT ![p].status = "paid"]
      /\ delivered' = Delivery(p)
      /\ charged' = charged
  BY <1>1 DEF Settle
<1>3. payment[p].status \in {"pending", "expired", "paid"}
  BY <1>1 DEF Settle, IInv, SettlingIsCharged
<1>4. payment'[p].status = "paid" /\ \A q \in Payments \ {p} : payment'[q] = payment[q]
  BY <1>2 DEF IInv, TypeOK
<1>5. delivered \in [Payments -> Nat]
  BY DEF IInv, TypeOK
<1>6. \A q \in Payments \ {p} : delivered'[q] = delivered[q]
  BY <1>2, <1>5 DEF Delivery
<1>7. CASE p \notin CreditOrders
  BY <1>2, <1>4, <1>6, <1>7, PromiseStutters DEF CreditOrders
<1>8. CASE p \in CreditOrders /\ delivered[p] # 0
  <2>1. payment[p].status = "paid"
    BY <1>3, <1>5, <1>8 DEF IInv, PaidMeansDelivered
  <2>2. delivered'[p] = delivered[p]
    BY <1>2, <1>5, <1>8 DEF Delivery, KeyFree, CreditOrders
  <2>3. QED BY <1>2, <1>4, <1>6, <2>1, <2>2, PromiseStutters DEF CreditOrders
<1>9. CASE p \in CreditOrders /\ delivered[p] = 0
  <2>1. delivered' = [delivered EXCEPT ![p] = 1]
    BY <1>2, <1>5, <1>9 DEF Delivery, KeyFree
  <2>2. goods' = [goods EXCEPT ![p] = 1] /\ goods[p] = 0
    BY <1>5, <1>9, <2>1 DEF goods, CreditOrders
  <2>3. moneys' = moneys /\ moneys[p]
    BY <1>1, <1>2, <1>9 DEF moneys
  <2>4. orders' = [orders EXCEPT ![p] = "paid"]
    BY <1>4, <1>9 DEF orders, OrderOf, CreditOrders
  <2>5. payment[p].status \in {"pending", "expired"}
    BY <1>3, <1>9 DEF IInv, PaidMeansDelivered
  <2>6. orders[p] \in {"open", "closed"}
    BY <1>9, <2>5 DEF orders, OrderOf
  <2>7. Buyer!Deliver(p)
    BY <2>2, <2>3, <2>4, <2>6 DEF Buyer!Deliver, orders, moneys, goods
  <2>8. QED BY <1>9, <2>7 DEF Buyer!PromiseNext
<1>10. QED BY <1>7, <1>8, <1>9

(* Every step of the handlers is a step of the promise or changes nothing   *)
(* the buyer sees.                                                          *)
LEMMA PromiseStep == IInv /\ [Next]_vars => [Buyer!PromiseNext]_(Buyer!promise)
<1> SUFFICES ASSUME IInv, [Next]_vars PROVE [Buyer!PromiseNext]_(Buyer!promise)
  OBVIOUS
<1>1. ASSUME \A p \in Payments : payment'[p].status = payment[p].status,
             UNCHANGED <<charged, delivered>>
      PROVE  [Buyer!PromiseNext]_(Buyer!promise)
  BY <1>1, PromiseStutters DEF CreditOrders
<1>2. CASE UNCHANGED vars \/ \E p \in Payments :
             InvoiceShown(p) \/ InvoiceAmbiguous(p) \/ DeadlinePasses(p) \/ ApprovePreCheckout(p)
  BY <1>1, <1>2 DEF vars, InvoiceShown, InvoiceAmbiguous, DeadlinePasses, ApprovePreCheckout
<1>3. CASE \E s \in Sessions : AbandonSettlement(s)
  BY <1>1, <1>3 DEF AbandonSettlement
<1>4. CASE \E p \in Payments : InvoiceSent(p)
  BY <1>1, <1>4 DEF InvoiceSent, IInv, TypeOK
<1>5. CASE \E s \in Sessions, c \in Charges : RecordReceipt(s, c)
  BY <1>1, <1>5 DEF RecordReceipt, IInv, TypeOK
<1>6. CASE \E p \in Payments : OpenOrder(p)
  BY <1>6, PromiseMoves DEF OpenOrder, Statuses
<1>7. CASE \E p \in Payments : InvoiceRefused(p)
  BY <1>7, PromiseMoves DEF InvoiceRefused, Statuses, IInv, OrderedFirst
<1>8. CASE \E p \in Payments : ExpireAtPreCheckout(p)
  BY <1>8, PromiseMoves DEF ExpireAtPreCheckout, Statuses
<1>9. CASE \E p \in Payments, c \in Charges : TakeCharge(p, c)
  BY <1>9, PromisePays
<1>10. CASE \E s \in Sessions : Settle(s)
  BY <1>10, PromiseDelivers
<1>11. QED
  BY <1>2, <1>3, <1>4, <1>5, <1>6, <1>7, <1>8, <1>9, <1>10 DEF Next

(* The Stars handlers keep the promise to every buyer of credits: delivered *)
(* at most once, only for money, and final.                                 *)
THEOREM StarsKeepPromise == Spec => KeepsPromise
<1>1. Init => Buyer!PromiseInit
  BY PromiseStarts
<1>2. IInv /\ [Next]_vars => [Buyer!PromiseNext]_(Buyer!promise)
  BY PromiseStep
<1>3. QED BY <1>1, <1>2, SpecIInv, PTL DEF Spec, KeepsPromise, Buyer!Promise

-----------------------------------------------------------------------------
(* PART 2: ReferralRewards.                                                 *)
(*                                                                          *)
(* Rewards are paid once, and with the payment they reward.  A key has one  *)
(* writer: the transaction that inserts it is the only one that can see it  *)
(* before it commits, and it pays all it has inserted before it commits.    *)


PaymentRewards(u) == Level1("first_payment", u) \cup Level2("first_payment:l2", u)

\* u is to be served by the transaction.
OwedTo(w, u) == \E i \in DOMAIN w.owed : w.owed[i] = u

\* No reward waits committed; what is granted is applied.
CommittedIsPaid ==
  \A k \in RewardKeys :
    /\ rewards[k] \in {"none", "applied"}
    /\ granted[k] = IF rewards[k] = "applied" THEN 1 ELSE 0

\* What a transaction has inserted is new, its own, and paid or still owed.
WorkIsSound(s) ==
  LET w == work[s] IN
  /\ w.applied \subseteq w.inserted
  /\ \A k \in w.inserted : rewards[k] = "none"
  /\ w.phase # "paying" => w.inserted = {}
  /\ w.phase = "inserting" => \A k \in w.wanted : OwedTo(w, k.to)
  /\ w.phase = "paying" => \A k \in w.inserted \ w.applied : OwedTo(w, k.to)
  /\ w.first =>
       /\ w.phase \in {"inserting", "paying"} /\ Inviter[w.user] # NoUser
       /\ w.phase = "inserting" => PaymentRewards(w.user) \subseteq w.wanted
       /\ w.phase = "paying" =>
            \A k \in PaymentRewards(w.user) : k \in w.inserted \/ rewards[k] = "applied"
  /\ w # Idle => w.user \in Users

WorksAreSound == \A s \in Transactions : WorkIsSound(s)

InsertedApart ==
  \A s, t \in Transactions : s # t => work[s].inserted \cap work[t].inserted = {}

\* Only a user with an inviter has a referral row to mark.
PaidAreInvited == \A u \in paid : Inviter[u] # NoUser

RewardsIInv ==
  /\ PaidAreInvited
  /\ RewardsTypeOK /\ CommittedIsPaid /\ WorksAreSound /\ InsertedApart /\ PaidRewardsUplines

-----------------------------------------------------------------------------
LEMMA UplinesAreUsers ==
  ASSUME NEW u \in Users
  PROVE  /\ Uplines(u) \subseteq Users /\ IsFiniteSet(Uplines(u)) /\ Cardinality(Uplines(u)) \in Nat
         /\ Inviter[u] # NoUser => Inviter[u] \in Uplines(u)
<1>1. Uplines(u) \subseteq Users
  BY ReferralAssumption DEF Uplines
<1>2. IsFiniteSet(Uplines(u))
  BY <1>1, FS_Subset, ReferralAssumption
<1>3. QED BY <1>1, <1>2, FS_CardinalityType, ReferralAssumption DEF Uplines

LEMMA OrdersServe ==
  ASSUME NEW u \in Users, NEW q \in Orders(Uplines(u))
  PROVE  q \in Seq(Users) /\ \A x \in Uplines(u) : \E i \in DOMAIN q : q[i] = x
<1>1. /\ q \in [1..Cardinality(Uplines(u)) -> Uplines(u)]
      /\ \A x \in Uplines(u) : \E i \in DOMAIN q : q[i] = x
  BY DEF Orders
<1>2. q \in [1..Cardinality(Uplines(u)) -> Users] /\ Cardinality(Uplines(u)) \in Nat
  BY <1>1, UplinesAreUsers
<1>3. QED BY <1>1, <1>2

\* The rewards of a first payment, or a registration, are keys of their own,
\* one for each upline.
LEMMA LevelKeys ==
  ASSUME NEW u \in Users, Inviter[u] # NoUser, NEW r1 \in Reasons, NEW r2 \in Reasons
  PROVE  \A k \in Level1(r1, u) \cup Level2(r2, u) : k \in RewardKeys /\ k.to \in Uplines(u)
BY UplinesAreUsers DEF Level1, Level2, RewardKeys, Reward

LEMMA MilestoneKeys ==
  ASSUME RewardsIInv, NEW u \in Users, Inviter[u] # NoUser
  PROVE  \A k \in MilestoneFor(Inviter[u], u) : k \in RewardKeys /\ k.to \in Uplines(u)
<1> DEFINE by == Inviter[u]
           F == PayingFriends(by, u)
<1>1. by \in Users /\ by \in Uplines(u)
  BY UplinesAreUsers, ReferralAssumption
<1>2. F \subseteq Users /\ u \in F
  BY DEF PayingFriends, RewardsIInv, RewardsTypeOK
<1>3. /\ IsFiniteSet(F) /\ Cardinality(F) \in Nat /\ Cardinality(F) <= Cardinality(Users)
      /\ Cardinality(Users) \in Nat
  BY <1>2, FS_Subset, FS_CardinalityType, ReferralAssumption
<1>4. Cardinality(F) # 0
  BY <1>2, <1>3, FS_EmptySet
<1>5. Cardinality(F) \in 1..Cardinality(Users)
  BY <1>3, <1>4
<1>6. \A k \in MilestoneFor(by, u) : k = Milestone(by, Cardinality(F))
  BY DEF MilestoneFor
<1>7. Milestone(by, Cardinality(F)) \in RewardKeys /\ Milestone(by, Cardinality(F)).to = by
  BY <1>1, <1>5 DEF RewardKeys, Milestone
<1>8. QED BY <1>1, <1>6, <1>7

(* A step of one open transaction, before it ends.                          *)
LEMMA OpenStep ==
  ASSUME RewardsIInv, NEW s \in Transactions, NEW w \in Work,
         work' = [work EXCEPT ![s] = w], WorkIsSound(s)', RewardsTypeOK',
         UNCHANGED <<users, paid, rewards, granted>>,
         \A t \in Transactions \ {s} : w.inserted \cap work[t].inserted = {}
  PROVE  RewardsIInv'
<1>1. work'[s] = w /\ \A t \in Transactions \ {s} : work'[t] = work[t]
  BY DEF RewardsIInv, RewardsTypeOK
<1>2. CommittedIsPaid' /\ PaidRewardsUplines' /\ PaidAreInvited'
  BY DEF RewardsIInv, CommittedIsPaid, PaidRewardsUplines, PaidAreInvited
<1>3. \A t \in Transactions \ {s} : WorkIsSound(t)'
  BY <1>1 DEF RewardsIInv, WorksAreSound, WorkIsSound, OwedTo
<1>4. WorksAreSound' /\ InsertedApart'
  BY <1>1, <1>3 DEF RewardsIInv, WorksAreSound, InsertedApart
<1>5. QED BY <1>2, <1>4 DEF RewardsIInv

LEMMA IdleWorks ==
  Idle \in Work /\ Idle.inserted = {} /\ Idle.applied = {} /\ ~Idle.first /\ Idle.phase = "idle"
BY DEF Idle, Work

LEMMA BeginStep ==
  ASSUME RewardsIInv, NEW s \in Transactions, NEW u \in Users, BeginRegistration(s, u) \/ BeginPayment(s, u)
  PROVE  RewardsIInv'
<1>1. /\ work[s] = Idle /\ RewardsTypeOK
      /\ UNCHANGED <<users, paid, rewards, granted, referral_lock>>
  BY DEF BeginRegistration, BeginPayment, RewardsIInv
<1>2. wallet_lock' \in [Users -> Transactions \cup {NoTransaction}]
  BY <1>1 DEF BeginRegistration, BeginPayment, RewardsTypeOK
<1>3. ASSUME NEW w \in Work, work' = [work EXCEPT ![s] = w], w.user = u, w.inserted = {},
             w.applied = {}, ~w.first, w.phase # "paying",
             w.phase = "inserting" => \A k \in w.wanted : OwedTo(w, k.to)
      PROVE  RewardsIInv'
  <2>1. RewardsTypeOK'
    BY <1>1, <1>2, <1>3 DEF RewardsTypeOK
  <2>2. work'[s] = w
    BY <1>1, <1>3 DEF RewardsTypeOK
  <2>3. WorkIsSound(s)'
    BY <1>3, <2>2 DEF WorkIsSound, OwedTo
  <2>4. QED BY <1>1, <1>3, <2>1, <2>3, OpenStep
<1>4. CASE BeginPayment(s, u)
  <2> DEFINE w == [Idle EXCEPT !.phase = "settling", !.user = u]
  <2>1. /\ w \in Work /\ w.user = u /\ w.inserted = {} /\ w.applied = {} /\ ~w.first
        /\ w.phase = "settling"
    BY IdleWorks DEF Work
  <2>2. work' = [work EXCEPT ![s] = w]
    BY <1>4 DEF BeginPayment
  <2> HIDE DEF w
  <2>3. QED BY <1>3, <2>1, <2>2
<1>5. CASE BeginRegistration(s, u) /\ Inviter[u] = NoUser
  <2> DEFINE w == [Idle EXCEPT !.phase = "done", !.user = u]
  <2>1. /\ w \in Work /\ w.user = u /\ w.inserted = {} /\ w.applied = {} /\ ~w.first
        /\ w.phase = "done"
    BY IdleWorks DEF Work
  <2>2. work' = [work EXCEPT ![s] = w]
    BY <1>5 DEF BeginRegistration
  <2> HIDE DEF w
  <2>3. QED BY <1>3, <2>1, <2>2
<1>6. CASE BeginRegistration(s, u) /\ Inviter[u] # NoUser
  <2> DEFINE W == Level1("registration", u) \cup Level2("registration:l2", u)
  <2>1. PICK q \in Orders(Uplines(u)) :
          work' = [work EXCEPT ![s] =
            [Idle EXCEPT !.phase = "inserting", !.user = u, !.owed = q, !.wanted = W]]
    BY <1>6 DEF BeginRegistration
  <2>2. \A k \in W : k \in RewardKeys /\ k.to \in Uplines(u)
    BY <1>6, LevelKeys DEF Reasons
  <2>3. q \in Seq(Users) /\ \A x \in Uplines(u) : \E i \in DOMAIN q : q[i] = x
    BY OrdersServe
  <2> HIDE DEF W
  <2> DEFINE w == [Idle EXCEPT !.phase = "inserting", !.user = u, !.owed = q, !.wanted = W]
  <2>4. W \subseteq RewardKeys
    BY <2>2
  <2>5. /\ w \in Work /\ w.user = u /\ w.inserted = {} /\ w.applied = {} /\ ~w.first
        /\ w.phase = "inserting" /\ w.wanted = W /\ w.owed = q
    BY <2>3, <2>4 DEF Idle, Work
  <2> HIDE DEF w
  <2>6. \A k \in w.wanted : OwedTo(w, k.to)
    BY <2>2, <2>3, <2>5 DEF OwedTo
  <2>7. QED BY <1>3, <2>1, <2>5, <2>6 DEF w
<1>7. QED BY <1>4, <1>5, <1>6

LEMMA SettlingStep ==
  ASSUME RewardsIInv, NEW s \in Transactions, NoFirstPayment(s) \/ FirstPayment(s)
  PROVE  RewardsIInv'
<1>1. /\ work[s].phase = "settling" /\ RewardsTypeOK /\ work[s] \in Work
      /\ UNCHANGED <<users, paid, rewards, granted, wallet_lock>>
  BY DEF NoFirstPayment, FirstPayment, RewardsIInv, RewardsTypeOK
<1>2. /\ work[s].inserted = {} /\ work[s].applied = {} /\ ~work[s].first
      /\ work[s].user \in Users
  BY <1>1 DEF RewardsIInv, WorksAreSound, WorkIsSound, Idle, Work
<1>3. CASE NoFirstPayment(s)
  <2> DEFINE w == [work[s] EXCEPT !.phase = "done"]
  <2>1. /\ w \in Work /\ w.inserted = {} /\ w.applied = {} /\ ~w.first /\ w.phase = "done"
        /\ w.user = work[s].user
    BY <1>1, <1>2 DEF Work
  <2>2. work' = [work EXCEPT ![s] = w] /\ UNCHANGED referral_lock
    BY <1>3 DEF NoFirstPayment
  <2> HIDE DEF w
  <2>3. RewardsTypeOK' /\ work'[s] = w
    BY <1>1, <2>1, <2>2 DEF RewardsTypeOK
  <2>4. WorkIsSound(s)'
    BY <1>2, <2>1, <2>3 DEF WorkIsSound
  <2>5. QED BY <1>1, <2>1, <2>2, <2>3, <2>4, OpenStep
<1>4. CASE FirstPayment(s)
  <2>1. PICK u \in Users : u = work[s].user
    BY <1>2
  <2>2. Inviter[u] # NoUser /\ referral_lock' = [referral_lock EXCEPT ![u] = s]
    BY <1>4, <2>1 DEF FirstPayment
  <2> DEFINE W == PaymentRewards(u) \cup MilestoneFor(Inviter[u], u)
  <2>3. PICK q \in Orders(Uplines(u)) :
          work' = [work EXCEPT ![s] =
            [work[s] EXCEPT !.phase = "inserting", !.owed = q, !.first = TRUE, !.wanted = W]]
    BY <1>4, <2>1 DEF FirstPayment, PaymentRewards
  <2>4. \A k \in W : k \in RewardKeys /\ k.to \in Uplines(u)
    BY <2>2, LevelKeys, MilestoneKeys DEF Reasons, PaymentRewards
  <2>5. q \in Seq(Users) /\ \A x \in Uplines(u) : \E i \in DOMAIN q : q[i] = x
    BY OrdersServe
  <2>6. PaymentRewards(u) \subseteq W
    OBVIOUS
  <2> HIDE DEF W
  <2> DEFINE w == [work[s] EXCEPT !.phase = "inserting", !.owed = q, !.first = TRUE, !.wanted = W]
  <2>7. W \subseteq RewardKeys
    BY <2>4
  <2>8. /\ w \in Work /\ w.inserted = {} /\ w.applied = {} /\ w.user = u
        /\ w.phase = "inserting" /\ w.wanted = W /\ w.owed = q
    BY <1>1, <1>2, <2>1, <2>5, <2>7 DEF Work
  <2>9. work' = [work EXCEPT ![s] = w]
    BY <2>3
  <2> HIDE DEF w
  <2>10. \A k \in w.wanted : OwedTo(w, k.to)
    BY <2>4, <2>5, <2>8 DEF OwedTo
  <2>11. RewardsTypeOK' /\ work'[s] = w
    BY <1>1, <2>2, <2>8, <2>9 DEF RewardsTypeOK
  <2>12. WorkIsSound(s)'
    BY <2>2, <2>6, <2>8, <2>10, <2>11 DEF WorkIsSound, OwedTo
  <2>13. QED BY <1>1, <2>8, <2>9, <2>11, <2>12, OpenStep
<1>5. QED BY <1>3, <1>4

LEMMA InsertStep ==
  ASSUME RewardsIInv, NEW s \in Transactions, InsertRewards(s)
  PROVE  RewardsIInv'
<1>1. /\ work[s].phase = "inserting" /\ RewardsTypeOK /\ work[s] \in Work
      /\ UNCHANGED <<users, paid, rewards, granted, wallet_lock, referral_lock>>
      /\ \A t \in Transactions \ {s} : work[t].inserted \cap work[s].wanted = {}
  BY DEF InsertRewards, RewardsIInv, RewardsTypeOK
<1>2. WorkIsSound(s)
  BY DEF RewardsIInv, WorksAreSound
<1>3. PICK N \in SUBSET RewardKeys : N = {k \in work[s].wanted : rewards[k] = "none"}
  BY <1>1 DEF Work
<1> DEFINE w == [work[s] EXCEPT !.phase = "paying", !.wanted = {}, !.inserted = N]
<1>4. /\ w \in Work /\ w.inserted = N /\ w.applied = work[s].applied /\ w.user = work[s].user
      /\ w.phase = "paying" /\ w.owed = work[s].owed /\ w.first = work[s].first
  BY <1>1, <1>3 DEF Work
<1>5. work' = [work EXCEPT ![s] = w]
  BY <1>3 DEF InsertRewards
<1> HIDE DEF w
<1>6. RewardsTypeOK' /\ work'[s] = w
  BY <1>1, <1>4, <1>5 DEF RewardsTypeOK
<1>7. w.applied = {} /\ w # Idle /\ work[s] # Idle
  BY <1>1, <1>2, <1>4 DEF WorkIsSound, Idle
<1>8. \A k \in N : OwedTo(w, k.to)
  BY <1>1, <1>2, <1>3, <1>4 DEF WorkIsSound, OwedTo
<1>9. w.first => \A k \in PaymentRewards(w.user) : k \in N \/ rewards[k] = "applied"
  <2>1. w.first => PaymentRewards(w.user) \subseteq work[s].wanted
    BY <1>1, <1>2, <1>4 DEF WorkIsSound
  <2>2. \A k \in work[s].wanted : rewards[k] \in {"none", "applied"}
    BY <1>1 DEF RewardsIInv, CommittedIsPaid, Work
  <2>3. QED BY <1>3, <2>1, <2>2
<1>10. WorkIsSound(s)'
  BY <1>1, <1>2, <1>3, <1>4, <1>6, <1>7, <1>8, <1>9 DEF WorkIsSound, OwedTo
<1>11. \A t \in Transactions \ {s} : w.inserted \cap work[t].inserted = {}
  BY <1>1, <1>3, <1>4
<1>12. QED BY <1>1, <1>4, <1>5, <1>6, <1>10, <1>11, OpenStep

LEMMA HeadOrTail ==
  ASSUME NEW q \in Seq(Users), q # <<>>
  PROVE  /\ Head(q) \in Users /\ Tail(q) \in Seq(Users)
         /\ \A i \in DOMAIN q : q[i] = Head(q) \/ \E j \in DOMAIN Tail(q) : Tail(q)[j] = q[i]
<1>1. Head(q) \in Users /\ Tail(q) \in Seq(Users)
  OBVIOUS
<1>2. ASSUME NEW i \in DOMAIN q, q[i] # Head(q)
      PROVE  \E j \in DOMAIN Tail(q) : Tail(q)[j] = q[i]
  <2>1. i \in 2..Len(q)
    BY <1>2
  <2>2. i - 1 \in 1..Len(Tail(q)) /\ Tail(q)[i - 1] = q[i]
    BY <2>1
  <2>3. QED BY <2>2
<1>3. QED BY <1>1, <1>2

(* The recipients that are left are owed all that is not applied.           *)
LEMMA PayStep ==
  ASSUME RewardsIInv, NEW s \in Transactions, PayNext(s)
  PROVE  RewardsIInv'
<1>1. /\ work[s].phase = "paying" /\ RewardsTypeOK /\ work[s] \in Work /\ work[s].owed # <<>>
      /\ work[s].owed \in Seq(Users)
      /\ UNCHANGED <<users, paid, rewards, granted, referral_lock>>
  BY DEF PayNext, RewardsIInv, RewardsTypeOK, Work
<1>2. WorkIsSound(s)
  BY DEF RewardsIInv, WorksAreSound
<1>3. PICK to \in Users, rest \in Seq(Users) : to = Head(work[s].owed) /\ rest = Tail(work[s].owed)
  BY <1>1, HeadOrTail
<1>4. PICK due \in SUBSET RewardKeys : due = Pending(s, to)
  BY DEF Pending
<1>5. \A k \in due : k \in work[s].inserted
  BY <1>4 DEF Pending, RewardsIInv, CommittedIsPaid
<1>6. \A k \in work[s].inserted \ work[s].applied : k.to = to => k \in due
  BY <1>1, <1>4 DEF Pending, Work
<1> DEFINE w == [work[s] EXCEPT !.owed = rest, !.applied = work[s].applied \cup due]
<1>7. /\ w \in Work /\ w.inserted = work[s].inserted /\ w.applied = work[s].applied \cup due
      /\ w.user = work[s].user /\ w.phase = "paying" /\ w.owed = rest /\ w.first = work[s].first
  BY <1>1 DEF Work
<1>8. work' = [work EXCEPT ![s] = w]
  <2>1. work' = [work EXCEPT ![s] = [work[s] EXCEPT !.owed = Tail(work[s].owed),
                   !.applied = work[s].applied \cup Pending(s, Head(work[s].owed))]]
    BY DEF PayNext
  <2>2. QED BY <1>3, <1>4, <2>1
<1> HIDE DEF w
<1>9. wallet_lock' \in [Users -> Transactions \cup {NoTransaction}]
  BY <1>1, <1>3, <1>4 DEF PayNext, RewardsTypeOK
<1>10. RewardsTypeOK' /\ work'[s] = w
  BY <1>1, <1>7, <1>8, <1>9 DEF RewardsTypeOK
<1>11. \A k \in w.inserted \ w.applied : OwedTo(w, k.to)
  <2> SUFFICES ASSUME NEW k \in w.inserted \ w.applied PROVE OwedTo(w, k.to)
    OBVIOUS
  <2>1. k \in work[s].inserted \ work[s].applied /\ k.to # to
    BY <1>6, <1>7
  <2>2. PICK i \in DOMAIN work[s].owed : work[s].owed[i] = k.to
    BY <1>1, <1>2, <2>1 DEF WorkIsSound, OwedTo
  <2>3. \E j \in DOMAIN rest : rest[j] = k.to
    BY <1>1, <1>3, <2>1, <2>2, HeadOrTail
  <2>4. QED BY <1>7, <2>3 DEF OwedTo
<1>12. /\ w.applied \subseteq w.inserted /\ w # Idle /\ work[s] # Idle
  BY <1>1, <1>2, <1>5, <1>7 DEF WorkIsSound, Idle
<1>13. WorkIsSound(s)'
  BY <1>1, <1>2, <1>7, <1>10, <1>11, <1>12 DEF WorkIsSound, OwedTo
<1>14. \A t \in Transactions \ {s} : w.inserted \cap work[t].inserted = {}
  BY <1>7 DEF RewardsIInv, InsertedApart
<1>15. QED BY <1>1, <1>7, <1>8, <1>10, <1>13, <1>14, OpenStep

LEMMA EndTypes ==
  ASSUME RewardsTypeOK, NEW s \in Transactions, EndTransaction(s)
  PROVE  /\ wallet_lock' \in [Users -> Transactions \cup {NoTransaction}]
         /\ referral_lock' \in [Users -> Transactions \cup {NoTransaction}]
         /\ work' \in [Transactions -> Work]
         /\ work'[s] = Idle /\ \A t \in Transactions \ {s} : work'[t] = work[t]
BY IdleWorks DEF EndTransaction, RewardsTypeOK

LEMMA IdleSound ==
  ASSUME NEW s \in Transactions, work'[s] = Idle PROVE WorkIsSound(s)'
BY DEF WorkIsSound, Idle

LEMMA AbortStep ==
  ASSUME RewardsIInv, NEW s \in Transactions, Abort(s)
  PROVE  RewardsIInv'
<1>1. /\ RewardsTypeOK /\ EndTransaction(s) /\ UNCHANGED <<users, paid, rewards, granted>>
  BY DEF Abort, RewardsIInv
<1>2. RewardsTypeOK' /\ work'[s] = Idle
  BY <1>1, EndTypes DEF RewardsTypeOK
<1>3. WorkIsSound(s)'
  BY <1>2, IdleSound
<1>4. QED
  BY <1>1, <1>2, <1>3, IdleWorks, OpenStep DEF EndTransaction

(* A commit makes all that was inserted applied, each key once.             *)
LEMMA CommitStep ==
  ASSUME RewardsIInv, NEW s \in Transactions, Commit(s)
  PROVE  RewardsIInv'
<1>1. PICK w \in Work : w = work[s]
  BY DEF RewardsIInv, RewardsTypeOK
<1>2. /\ w.phase = "done" \/ (w.phase = "paying" /\ w.owed = <<>>)
      /\ users' = users \cup {w.user}
      /\ paid' = IF w.first THEN paid \cup {w.user} ELSE paid
      /\ granted' = [k \in RewardKeys |-> IF k \in w.applied THEN granted[k] + 1 ELSE granted[k]]
      /\ EndTransaction(s)
  BY <1>1 DEF Commit
<1>3. /\ w.applied \subseteq w.inserted /\ w.inserted \subseteq RewardKeys
      /\ \A k \in w.inserted : rewards[k] = "none"
      /\ w.user \in Users
      /\ w.inserted = w.applied
  <2>1. WorkIsSound(s) /\ w # Idle
    BY <1>1, <1>2 DEF RewardsIInv, WorksAreSound, Idle
  <2>2. w.phase = "paying" => w.inserted \subseteq w.applied
    BY <1>1, <1>2, <2>1 DEF WorkIsSound, OwedTo
  <2>3. QED BY <1>1, <1>2, <2>1, <2>2 DEF WorkIsSound, Work
<1>4. rewards' = [k \in RewardKeys |-> IF k \in w.applied THEN "applied" ELSE rewards[k]]
  BY <1>1, <1>3 DEF Commit
<1>5. /\ work'[s] = Idle /\ \A t \in Transactions \ {s} : work'[t] = work[t]
      /\ RewardsTypeOK
  BY <1>2, EndTypes DEF RewardsIInv
<1>6. \A k \in RewardKeys : rewards[k] = "applied" => rewards'[k] = "applied"
  BY <1>4
<1>7. w.first => \A k \in PaymentRewards(w.user) : rewards'[k] = "applied"
  <2> SUFFICES ASSUME w.first, NEW k \in PaymentRewards(w.user) PROVE rewards'[k] = "applied"
    OBVIOUS
  <2>1. w.phase = "paying" /\ (k \in w.inserted \/ rewards[k] = "applied")
    BY <1>1, <1>2 DEF RewardsIInv, WorksAreSound, WorkIsSound
  <2>2. k \in RewardKeys
    <3>1. Inviter[w.user] # NoUser
      BY <1>1 DEF RewardsIInv, WorksAreSound, WorkIsSound
    <3>2. QED BY <1>3, <3>1, LevelKeys DEF PaymentRewards, Reasons
  <2>3. QED BY <1>3, <1>4, <2>1, <2>2
<1>8. CommittedIsPaid'
  BY <1>2, <1>3, <1>4, <1>5 DEF RewardsIInv, CommittedIsPaid, RewardsTypeOK
<1>9. PaidRewardsUplines'
  <2> SUFFICES ASSUME NEW u \in paid', NEW k \in PaymentRewards(u) PROVE rewards'[k] = "applied"
    BY DEF PaidRewardsUplines, PaymentRewards
  <2>1. CASE w.first /\ u = w.user
    BY <1>7, <2>1
  <2>2. CASE u \in paid
    <3>1. rewards[k] = "applied"
      BY <2>2 DEF RewardsIInv, PaidRewardsUplines, PaymentRewards
    <3>2. u \in Users /\ Inviter[u] # NoUser
      BY <1>5, <2>2 DEF RewardsIInv, RewardsTypeOK, PaidAreInvited
    <3>3. k \in RewardKeys
      BY <3>2, LevelKeys DEF PaymentRewards, Reasons
    <3>4. QED BY <1>6, <3>1, <3>3
  <2>3. QED BY <1>2, <2>1, <2>2
<1>10. RewardsTypeOK'
  BY <1>2, <1>3, <1>4, <1>5, EndTypes DEF RewardsTypeOK
<1>11. \A t \in Transactions \ {s} : WorkIsSound(t)'
  <2> SUFFICES ASSUME NEW t \in Transactions \ {s} PROVE WorkIsSound(t)'
    OBVIOUS
  <2>1. WorkIsSound(t) /\ work'[t] = work[t] /\ work[t] \in Work
    BY <1>5 DEF RewardsIInv, WorksAreSound, RewardsTypeOK
  <2>2. work[t].inserted \subseteq RewardKeys /\ work[t].inserted \cap w.inserted = {}
    BY <1>1, <2>1 DEF Work, RewardsIInv, InsertedApart
  <2>3. \A k \in work[t].inserted : rewards'[k] = "none"
    BY <1>3, <1>4, <2>1, <2>2 DEF WorkIsSound
  <2>4. work[t].first => \A k \in PaymentRewards(work[t].user) :
          k \in RewardKeys
    <3>1. work[t].first => Inviter[work[t].user] # NoUser /\ work[t] # Idle
      BY <2>1, IdleWorks DEF WorkIsSound
    <3>2. work[t].first => work[t].user \in Users
      BY <2>1, <3>1 DEF WorkIsSound
    <3>3. QED BY <3>1, <3>2, LevelKeys DEF PaymentRewards, Reasons
  <2>5. work[t].first /\ work[t].phase = "paying" =>
          \A k \in PaymentRewards(work[t].user) : k \in work[t].inserted \/ rewards'[k] = "applied"
    BY <1>6, <2>1, <2>4 DEF WorkIsSound
  <2>6. QED BY <2>1, <2>3, <2>5 DEF WorkIsSound, OwedTo
<1>12. WorksAreSound'
  BY <1>5, <1>11, IdleSound DEF WorksAreSound
<1>13. InsertedApart'
  BY <1>5, IdleWorks DEF RewardsIInv, InsertedApart
<1>14. PaidAreInvited'
  BY <1>1, <1>2 DEF RewardsIInv, PaidAreInvited, WorksAreSound, WorkIsSound
<1>15. QED BY <1>8, <1>9, <1>10, <1>12, <1>13, <1>14 DEF RewardsIInv

LEMMA RewardsNextIInv == RewardsIInv /\ [RewardsNext]_rewardsVars => RewardsIInv'
<1> SUFFICES ASSUME RewardsIInv, [RewardsNext]_rewardsVars PROVE RewardsIInv'
  OBVIOUS
<1>1. CASE UNCHANGED rewardsVars
  BY <1>1 DEF rewardsVars, RewardsIInv, RewardsTypeOK, PaidAreInvited, CommittedIsPaid, WorksAreSound, WorkIsSound, OwedTo, InsertedApart,
              PaidRewardsUplines
<1>2. ASSUME NEW s \in Transactions, NEW u \in Users, BeginRegistration(s, u) \/ BeginPayment(s, u)
      PROVE  RewardsIInv'
  BY <1>2, BeginStep
<1>3. ASSUME NEW s \in Transactions, NoFirstPayment(s) \/ FirstPayment(s) PROVE RewardsIInv'
  BY <1>3, SettlingStep
<1>4. ASSUME NEW s \in Transactions, InsertRewards(s) PROVE RewardsIInv'
  BY <1>4, InsertStep
<1>5. ASSUME NEW s \in Transactions, PayNext(s) PROVE RewardsIInv'
  BY <1>5, PayStep
<1>6. ASSUME NEW s \in Transactions, Commit(s) PROVE RewardsIInv'
  BY <1>6, CommitStep
<1>7. ASSUME NEW s \in Transactions, Abort(s) PROVE RewardsIInv'
  BY <1>7, AbortStep
<1>8. QED BY <1>1, <1>2, <1>3, <1>4, <1>5, <1>6, <1>7 DEF RewardsNext

LEMMA RewardsInitIInv == RewardsInit => RewardsIInv
<1> SUFFICES ASSUME RewardsInit PROVE RewardsIInv
  OBVIOUS
<1>1. RewardsTypeOK
  BY IdleWorks DEF RewardsInit, RewardsTypeOK
<1>2. CommittedIsPaid /\ PaidRewardsUplines /\ PaidAreInvited
  BY DEF RewardsInit, PaidAreInvited, CommittedIsPaid, PaidRewardsUplines
<1>3. WorksAreSound /\ InsertedApart
  BY DEF RewardsInit, WorksAreSound, InsertedApart, WorkIsSound, Idle
<1>4. QED BY <1>1, <1>2, <1>3 DEF RewardsIInv

LEMMA RewardsIInvHolds == RewardsSpec => []RewardsIInv
BY RewardsInitIInv, RewardsNextIInv, PTL DEF RewardsSpec

(* Users, rewards, locks and open transactions keep their types.            *)
THEOREM RewardsTypeCorrect == RewardsSpec => []RewardsTypeOK
BY RewardsIInvHolds, PTL DEF RewardsIInv

(* No reward is paid twice and none stays behind unpaid.                    *)
THEOREM RewardsPaidOnce == RewardsSpec => []RewardPaidOnce
<1>1. RewardsIInv => RewardPaidOnce
  BY DEF RewardsIInv, CommittedIsPaid, RewardPaidOnce
<1>2. QED BY <1>1, RewardsIInvHolds, PTL

(* A first payment commits with the rewards of both levels.                 *)
THEOREM UplinesRewarded == RewardsSpec => []PaidRewardsUplines
BY RewardsIInvHolds, PTL DEF RewardsIInv
==============================================================================
