--------------------------- MODULE PaymentPromise ---------------------------
(***************************************************************************)
(* What a payment promises its buyer, whatever the provider does: goods    *)
(* are delivered at most once, only for money the provider has confirmed,  *)
(* and a delivered order can only be refunded.  StarsSettlement and        *)
(* ExternalSettlement implement it.                                        *)
(***************************************************************************)
EXTENDS Naturals

CONSTANT Orders

VARIABLES order, money, goods

promise == <<order, money, goods>>

OrderStates == {"none", "open", "closed", "paid", "refunded"}

PromiseTypeOK ==
  /\ order \in [Orders -> OrderStates]
  /\ money \in [Orders -> BOOLEAN]
  /\ goods \in [Orders -> Nat]

PromiseInit ==
  /\ order = [p \in Orders |-> "none"]
  /\ money = [p \in Orders |-> FALSE]
  /\ goods = [p \in Orders |-> 0]

Place(p) ==
  /\ order[p] = "none"
  /\ order' = [order EXCEPT ![p] = "open"]
  /\ UNCHANGED <<money, goods>>

Pay(p) ==
  /\ order[p] # "none"
  /\ money' = [money EXCEPT ![p] = TRUE]
  /\ UNCHANGED <<order, goods>>

Close(p) ==
  /\ order[p] = "open"
  /\ order' = [order EXCEPT ![p] = "closed"]
  /\ UNCHANGED <<money, goods>>

\* Money that arrives after the order was closed may still be honoured.
Deliver(p) ==
  /\ order[p] \in {"open", "closed"} /\ money[p] /\ goods[p] = 0
  /\ order' = [order EXCEPT ![p] = "paid"]
  /\ goods' = [goods EXCEPT ![p] = 1]
  /\ UNCHANGED money

Refund(p) ==
  /\ order[p] \in {"open", "closed", "paid"} /\ money[p]
  /\ order' = [order EXCEPT ![p] = "refunded"]
  /\ UNCHANGED <<money, goods>>

PromiseNext ==
  \E p \in Orders : Place(p) \/ Pay(p) \/ Close(p) \/ Deliver(p) \/ Refund(p)

Promise == PromiseInit /\ [][PromiseNext]_promise
=============================================================================
