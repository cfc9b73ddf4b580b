---------------------------- MODULE PromoCheckout ---------------------------
(***************************************************************************)
(* Promo codes and the orders they discount: app/promocodes/service.py and *)
(* repository.py, called by app/bot/handlers/promocode.py and by           *)
(* app/payments/service.py.                                                *)
(*                                                                         *)
(* A claim is a transaction of its own that begins by updating the row of  *)
(* the user, locks the row of the code, and shows nothing before it        *)
(* commits.  Checkout commits the order with its reservation before the    *)
(* provider is called, and so lets the next handler of the user go on.     *)
(* How an order ends is StarsSettlement's and ExternalSettlement's matter: *)
(* here a pending order fails, expires or is paid, and a Stars order whose *)
(* receipt is recorded is paid whatever has become of it since.            *)
(***************************************************************************)
EXTENDS Naturals, FiniteSets

CONSTANTS Users, Codes, Payments,
          Sessions,       \* concurrent runs of the promo handler
          MaxActivations, \* bound on the activation rows
          Limit,          \* max_activations of each code
          UserLimit,      \* per_user_limit of each code
          Instant,        \* codes with grant_on_activation
          Fits,           \* pairs of a code and an order its target plan allows
          StarsPayments,  \* orders paid through Telegram Stars
          NoUser, NoCode, NoPayment, NoSession

Ids == 1..MaxActivations

ASSUME PromoAssumption ==
  /\ MaxActivations \in Nat
  /\ Limit \in [Codes -> Nat] /\ UserLimit \in [Codes -> Nat]
  /\ Instant \subseteq Codes /\ Fits \subseteq Codes \X Payments
  /\ StarsPayments \subseteq Payments
  /\ NoUser \notin Users /\ NoCode \notin Codes
  /\ NoPayment \notin Payments /\ NoSession \notin Sessions

VARIABLES activation, \* committed promo_code_activations rows, by id
          last_id,    \* sequence of their ids
          usable,     \* codes _validate_availability accepts
          payment,    \* the orders: status, and the activation that discounts it
          receipts,   \* Stars orders a handler has recorded the charge of
          user_lock, code_lock, \* holder of each row lock
          work        \* the claim each session has not committed yet

vars == <<activation, last_id, usable, payment, receipts, user_lock, code_lock, work>>

Row == [status: {"none", "claimed", "reserved", "consumed", "expired"},
        user: Users \cup {NoUser}, code: Codes \cup {NoCode},
        payment: Payments \cup {NoPayment}]
NoRow == [status |-> "none", user |-> NoUser, code |-> NoCode, payment |-> NoPayment]

Order == [status: {"none", "pending", "failed", "expired", "paid"}, promo: 0..MaxActivations]

Claiming == [user: Users \cup {NoUser}, code: Codes \cup {NoCode},
             id: 0..MaxActivations, expiring: SUBSET Ids]
Idle == [user |-> NoUser, code |-> NoCode, id |-> 0, expiring |-> {}]

TypeOK ==
  /\ activation \in [Ids -> Row]
  /\ last_id \in 0..MaxActivations
  /\ usable \in SUBSET Codes
  /\ payment \in [Payments -> Order]
  /\ receipts \in SUBSET StarsPayments
  /\ user_lock \in [Users -> Sessions \cup {NoSession}]
  /\ code_lock \in [Codes -> Sessions \cup {NoSession}]
  /\ work \in [Sessions -> Claiming]

Init ==
  /\ activation = [i \in Ids |-> NoRow]
  /\ last_id = 0
  /\ usable = Codes
  /\ payment = [p \in Payments |-> [status |-> "none", promo |-> 0]]
  /\ receipts = {}
  /\ user_lock = [u \in Users |-> NoSession]
  /\ code_lock = [c \in Codes |-> NoSession]
  /\ work = [s \in Sessions |-> Idle]

-----------------------------------------------------------------------------
\* count_activations and count_user_activations count rows of every status.
OfCode(c) == {i \in Ids : activation[i].code = c}
OfCodeAndUser(c, u) == {i \in OfCode(c) : activation[i].user = u}

\* Mutant of Claimed: the status is not compared.
Unconsumed(u) ==
  {i \in Ids : activation[i].user = u /\ activation[i].status \in {"claimed", "reserved"}}

Claimed(u) == {i \in Ids : activation[i].user = u /\ activation[i].status = "claimed"}

\* Mutant of BeginClaim: the code is read without FOR UPDATE.
BeginClaimUnlocked(s, u, c) ==
  /\ work[s] = Idle
  /\ user_lock[u] = NoSession
  /\ c \in usable
  /\ Cardinality(OfCode(c)) < Limit[c]
  /\ Cardinality(OfCodeAndUser(c, u)) < UserLimit[c]
  /\ last_id < MaxActivations
  /\ last_id' = last_id + 1
  /\ user_lock' = [user_lock EXCEPT ![u] = s]
  /\ work' = [work EXCEPT ![s] = [user |-> u, code |-> c, id |-> last_id + 1,
                                  expiring |-> Claimed(u)]]
  /\ UNCHANGED <<activation, usable, payment, receipts, code_lock>>

(* claim: lock the user and the code, check the limits, expire what the     *)
(* user has claimed before and insert the new activation.                   *)
BeginClaim(s, u, c) ==
  /\ work[s] = Idle
  /\ user_lock[u] = NoSession /\ code_lock[c] = NoSession
  /\ c \in usable
  /\ Cardinality(OfCode(c)) < Limit[c]
  /\ Cardinality(OfCodeAndUser(c, u)) < UserLimit[c]
  /\ last_id < MaxActivations
  /\ last_id' = last_id + 1
  /\ user_lock' = [user_lock EXCEPT ![u] = s]
  /\ code_lock' = [code_lock EXCEPT ![c] = s]
  /\ work' = [work EXCEPT ![s] = [user |-> u, code |-> c, id |-> last_id + 1,
                                  expiring |-> Claimed(u)]]
  /\ UNCHANGED <<activation, usable, payment, receipts>>

EndClaim(s) ==
  /\ user_lock' = [u \in Users |-> IF user_lock[u] = s THEN NoSession ELSE user_lock[u]]
  /\ code_lock' = [c \in Codes |-> IF code_lock[c] = s THEN NoSession ELSE code_lock[c]]
  /\ work' = [work EXCEPT ![s] = Idle]
  /\ UNCHANGED <<last_id, usable, payment, receipts>>

\* The handler commits; an instant code has been granted and consumed by then.
CommitClaim(s) ==
  LET w == work[s] IN
  /\ w # Idle
  /\ activation' = [i \in Ids |->
       CASE i = w.id -> [status |-> IF w.code \in Instant THEN "consumed" ELSE "claimed",
                         user |-> w.user, code |-> w.code, payment |-> NoPayment]
         [] i \in w.expiring -> [activation[i] EXCEPT !.status = "expired"]
         [] OTHER -> activation[i]]
  /\ EndClaim(s)

\* A crash, or an instant code the user's subscriptions exclude.
RollbackClaim(s) ==
  /\ work[s] # Idle
  /\ EndClaim(s)
  /\ UNCHANGED activation

-----------------------------------------------------------------------------
\* get_latest_claimed_for_update: the newest unreserved claim of the user.
Newest(u, i) == i \in Claimed(u) /\ \A j \in Claimed(u) : j <= i

PlaceOrder(p, promo) ==
  payment' = [payment EXCEPT ![p] = [status |-> "pending", promo |-> promo]]

\* create_payment with nothing claimed, or a code for another plan.
CheckoutPlain(u, p) ==
  /\ payment[p].status = "none"
  /\ user_lock[u] = NoSession
  /\ \A i \in Ids : Newest(u, i) => <<activation[i].code, p>> \notin Fits
  /\ PlaceOrder(p, 0)
  /\ UNCHANGED <<activation, last_id, usable, receipts, user_lock, code_lock, work>>

\* prepare_purchase locks the newest claim and its code: a code that is no
\* longer usable expires the claim and the order has no discount.
CheckoutWithPromo(u, p, i) ==
  LET c == activation[i].code IN
  /\ payment[p].status = "none"
  /\ user_lock[u] = NoSession
  /\ Newest(u, i) /\ <<c, p>> \in Fits
  /\ code_lock[c] = NoSession
  /\ IF c \in usable
     THEN /\ activation' = [activation EXCEPT ![i].status = "reserved", ![i].payment = p]
          /\ PlaceOrder(p, i)
     ELSE /\ activation' = [activation EXCEPT ![i].status = "expired"]
          /\ PlaceOrder(p, 0)
  /\ UNCHANGED <<last_id, usable, receipts, user_lock, code_lock, work>>

\* get_by_payment_for_update; payment_id is unique.
ReservedFor(p) ==
  {i \in Ids : activation[i].payment = p /\ activation[i].status = "reserved"}

\* release_for_payment, after a terminal creation error or by a pre-checkout
\* that comes too late, and may come after the receipt of another one.
CloseOrder(p) ==
  /\ payment[p].status = "pending"
  /\ \E end \in {"failed", "expired"} :
       /\ p \in receipts => end = "expired"
       /\ payment' = [payment EXCEPT ![p].status = end]
  /\ activation' = [i \in Ids |->
       IF i \in ReservedFor(p)
       THEN [activation[i] EXCEPT !.status = "claimed", !.payment = NoPayment]
       ELSE activation[i]]
  /\ UNCHANGED <<last_id, usable, receipts, user_lock, code_lock, work>>

\* consume_for_payment: an order without a reservation has nothing to consume.
Consumed(p) ==
  [i \in Ids |-> IF i \in ReservedFor(p) THEN [activation[i] EXCEPT !.status = "consumed"]
                 ELSE activation[i]]

\* An external order is settled in the transaction that has found it pending.
SettleOrder(p) ==
  /\ p \notin StarsPayments
  /\ payment[p].status = "pending"
  /\ payment' = [payment EXCEPT ![p].status = "paid"]
  /\ activation' = Consumed(p)
  /\ UNCHANGED <<last_id, usable, receipts, user_lock, code_lock, work>>

\* process_star_success commits the receipt of a pending order.
RecordReceipt(p) ==
  /\ p \in StarsPayments \ receipts
  /\ payment[p].status = "pending"
  /\ receipts' = receipts \cup {p}
  /\ UNCHANGED <<activation, last_id, usable, payment, user_lock, code_lock, work>>

\* Then it settles from the object it has kept, which is still pending.  One
\* that dies in between never comes here; a second one has nothing left to do.
SettleReceipt(p) ==
  /\ p \in receipts
  /\ payment' = [payment EXCEPT ![p].status = "paid"]
  /\ activation' = Consumed(p)
  /\ UNCHANGED <<last_id, usable, receipts, user_lock, code_lock, work>>

\* An administrator edits a code, or its dates come and go.
SwitchCode(c) ==
  /\ usable' = IF c \in usable THEN usable \ {c} ELSE usable \cup {c}
  /\ UNCHANGED <<activation, last_id, payment, receipts, user_lock, code_lock, work>>

Next ==
  \/ \E s \in Sessions : CommitClaim(s) \/ RollbackClaim(s)
  \/ \E s \in Sessions, u \in Users, c \in Codes : BeginClaim(s, u, c)
  \/ \E u \in Users, p \in Payments :
       CheckoutPlain(u, p) \/ \E i \in Ids : CheckoutWithPromo(u, p, i)
  \/ \E p \in Payments : CloseOrder(p) \/ SettleOrder(p) \/ RecordReceipt(p) \/ SettleReceipt(p)
  \/ \E c \in Codes : SwitchCode(c)

Spec == Init /\ [][Next]_vars

-----------------------------------------------------------------------------
(* However many users claim at the same moment, a code is never activated    *)
(* more often than its limit, nor by one user more often than hers.          *)
LimitsKept ==
  \A c \in Codes :
    /\ Cardinality(OfCode(c)) <= Limit[c]
    /\ \A u \in Users : Cardinality(OfCodeAndUser(c, u)) <= UserLimit[c]

\* The activation that discounts a pending order is reserved for it, that of a
\* paid one was consumed by it, unless the order is a Stars order that was closed
\* between its receipt and its settlement.
OrdersAreBacked ==
  \A p \in Payments : payment[p].promo # 0 =>
    LET row == activation[payment[p].promo] IN
    /\ payment[p].status = "pending" => row.status = "reserved" /\ row.payment = p
    /\ payment[p].status = "paid" /\ p \notin StarsPayments =>
         row.status = "consumed" /\ row.payment = p

\* An activation is reserved for a pending order or consumed by a paid one.
ActivationsAreOwned ==
  \A i \in Ids :
    LET p == activation[i].payment IN
    /\ activation[i].status = "reserved" =>
         p \in Payments /\ payment[p].status = "pending" /\ payment[p].promo = i
    /\ activation[i].status = "consumed" /\ p # NoPayment =>
         payment[p].status = "paid" /\ payment[p].promo = i

(* No open order loses its discount to a new claim or another order, no      *)
(* external order is paid with one it no longer has, and nobody's activation *)
(* is used up by an order that was not paid.                                 *)
DiscountIsBacked == OrdersAreBacked /\ ActivationsAreOwned

(* README.md:599 "A code that is already reserved for a pending payment      *)
(* cannot be swapped underneath that order": while the order is pending its  *)
(* activation stays as it is, and a consumed one stays for ever.             *)
NotSwapped ==
  [][\A i \in Ids :
       /\ activation[i].status = "consumed" => activation'[i] = activation[i]
       /\ activation[i].status = "reserved" =>
            activation'[i] = activation[i] \/ payment'[activation[i].payment].status # "pending"]_vars
=============================================================================
