------------------------ MODULE ExternalSettlement --------------------------
(***************************************************************************)
(* A credit payment through YooKassa, Platega, Crypto Pay or YooMoney:     *)
(* app/payments/service.py, the webhook endpoint of app/api/payments.py,   *)
(* the "check payment" button of app/bot/handlers/payments.py and the      *)
(* payments.reconcile_pending task of app/workers/tasks.py.                *)
(*                                                                         *)
(* A session that has to ask the provider keeps the row lock while it      *)
(* waits for the answer, so locking, asking and deciding are steps of      *)
(* their own.  The check button reads the row before it locks it and keeps *)
(* the object, so it decides on what it read then: view may be stale.      *)
(***************************************************************************)
EXTENDS Naturals, FiniteSets

CONSTANTS Payments, Sessions,
          Worker,     \* the session of the Celery task
          Offered,    \* the providers a buyer may choose for each payment
          CreatedAt,  \* and when it was created
          BatchLimit, \* payments the task looks at in one run (100)
          NoSession, NoPayment

Polled == {"yookassa", "platega", "cryptopay"}
Signed == {"cryptopay", "yoomoney"} \* a verified webhook is proof of payment

ASSUME ExternalAssumption ==
  /\ Offered \in [Payments -> SUBSET (Polled \cup Signed)]
  /\ CreatedAt \in [Payments -> Nat] /\ BatchLimit \in Nat
  /\ Worker \in Sessions /\ NoSession \notin Sessions /\ NoPayment \notin Payments

VARIABLES payment,   \* the committed rows: status, provider, and whether the
                     \* provider's id and the checkout link are stored
          remote,    \* what the provider would answer, in local terms
          delivered, \* times the credits were granted
          lock,      \* holder of each row lock
          work       \* what each session is doing

vars == <<payment, remote, delivered, lock, work>>

Closed == {"cancelled", "expired", "refunded", "failed"}
Statuses == {"none", "pending", "paid"} \cup Closed
Answers == {"absent", "pending", "paid"} \cup Closed

\* How a provider ends an unpaid payment; other statuses it may answer are
\* read as "failed".
Endings(p) ==
  CASE payment[p].provider = "yookassa" -> {"cancelled"}
    [] payment[p].provider = "platega" -> {"cancelled", "failed"}
    [] payment[p].provider = "cryptopay" -> {"expired"}
    [] OTHER -> {}

Row == [status: Statuses, provider: Polled \cup Signed \cup {"none"},
        external_id: BOOLEAN, checkout_url: BOOLEAN]

Work == [phase: {"idle", "locking", "asking", "deciding"},
         payment: Payments \cup {NoPayment},
         view: Statuses,   \* payment.status of the object in memory
         found: Answers]   \* the provider's answer

Idle == [phase |-> "idle", payment |-> NoPayment, view |-> "none", found |-> "absent"]

TypeOK ==
  /\ payment \in [Payments -> Row]
  /\ remote \in [Payments -> Answers]
  /\ delivered \in [Payments -> Nat]
  /\ lock \in [Payments -> Sessions \cup {NoSession}]
  /\ work \in [Sessions -> Work]

Init ==
  /\ payment = [p \in Payments |->
       [status |-> "none", provider |-> "none", external_id |-> FALSE, checkout_url |-> FALSE]]
  /\ remote = [p \in Payments |-> "absent"]
  /\ delivered = [p \in Payments |-> 0]
  /\ lock = [p \in Payments |-> NoSession]
  /\ work = [s \in Sessions |-> Idle]

-----------------------------------------------------------------------------
(* create_credit_payment: the order is committed, then the provider asked.  *)
OpenOrder(p) ==
  /\ payment[p].status = "none"
  /\ \E provider \in Offered[p] :
       payment' = [payment EXCEPT ![p].status = "pending", ![p].provider = provider]
  /\ UNCHANGED <<remote, delivered, lock, work>>

Created(p) == remote[p] # "absent"

\* The answer is stored; YooMoney gives no id before its first notification.
OrderAccepted(p) ==
  /\ payment[p].status = "pending" /\ ~Created(p)
  /\ remote' = [remote EXCEPT ![p] = "pending"]
  /\ payment' = [payment EXCEPT ![p].external_id = payment[p].provider # "yoomoney",
                                ![p].checkout_url = TRUE]
  /\ UNCHANGED <<delivered, lock, work>>

\* A terminal creation error; an HTTP 5xx does not say that nothing was created.
OrderRefused(p) ==
  /\ payment[p].status = "pending" /\ ~Created(p)
  /\ payment' = [payment EXCEPT ![p].status = "failed"]
  /\ \E answer \in {"absent", "pending"} : remote' = [remote EXCEPT ![p] = answer]
  /\ UNCHANGED <<delivered, lock, work>>

\* A timeout or a crash: the provider has the payment, the row does not know.
OrderAmbiguous(p) ==
  /\ payment[p].status = "pending" /\ ~Created(p)
  /\ payment[p].provider # "yoomoney"
  /\ remote' = [remote EXCEPT ![p] = "pending"]
  /\ UNCHANGED <<payment, delivered, lock, work>>

-----------------------------------------------------------------------------
(* The provider and the buyer, who pays by the link the bot showed.         *)
RemotePaid(p) ==
  /\ remote[p] = "pending" /\ payment[p].checkout_url
  /\ remote' = [remote EXCEPT ![p] = "paid"]
  /\ UNCHANGED <<payment, delivered, lock, work>>

RemoteEnded(p) ==
  /\ remote[p] = "pending"
  /\ \E e \in Endings(p) : remote' = [remote EXCEPT ![p] = e]
  /\ UNCHANGED <<payment, delivered, lock, work>>

RemoteRefunded(p) ==
  /\ remote[p] = "paid" /\ payment[p].provider = "platega"
  /\ remote' = [remote EXCEPT ![p] = "refunded"]
  /\ UNCHANGED <<payment, delivered, lock, work>>

-----------------------------------------------------------------------------
Asking(s, p, status) ==
  work' = [work EXCEPT ![s] =
    [phase |-> "asking", payment |-> p, view |-> status, found |-> "absent"]]

(* process_webhook of a provider that is asked again.  Notifications come   *)
(* late, out of order and more than once; YooKassa's name the local order,  *)
(* Platega's only the provider's id.  A paid, cancelled, expired or         *)
(* refunded payment is acknowledged, a failed one goes on.                  *)
BeginWebhook(s, p) ==
  /\ s # Worker /\ work[s].phase = "idle"
  /\ payment[p].provider \notin Signed /\ Created(p)
  /\ payment[p].provider = "platega" => payment[p].external_id
  /\ lock[p] = NoSession
  /\ payment[p].status \in {"pending", "failed"}
  /\ lock' = [lock EXCEPT ![p] = s]
  /\ Asking(s, p, payment[p].status)
  /\ UNCHANGED <<payment, remote, delivered>>

\* What reconcile_external_payment accepts.
Reconcilable(p) ==
  /\ payment[p].provider \in Polled
  /\ payment[p].status = "pending" /\ payment[p].external_id

\* Mutant of Listed: the newest come first.
ListedNewest(p) ==
  /\ Reconcilable(p)
  /\ Cardinality({q \in Payments : Reconcilable(q) /\ CreatedAt[q] > CreatedAt[p]}) < BatchLimit

\* As many older payments as a batch holds still wait for their provider.
Crowded(p) ==
  Cardinality({q \in Payments : Reconcilable(q) /\ CreatedAt[q] < CreatedAt[p]}) >= BatchLimit

\* pending_reconcilable_ids: the oldest BatchLimit of them.
Listed(p) == Reconcilable(p) /\ ~Crowded(p)

\* The task comes to a payment it has listed.
ListForReconcile(p) ==
  /\ work[Worker].phase = "idle"
  /\ Listed(p)
  /\ work' = [work EXCEPT ![Worker] = [@ EXCEPT !.phase = "locking", !.payment = p]]
  /\ UNCHANGED <<payment, remote, delivered, lock>>

\* check_external_payment loads the row, without a lock, to see whose it is.
ReadForCheck(s, p) ==
  /\ s # Worker /\ work[s].phase = "idle"
  /\ Reconcilable(p)
  /\ work' = [work EXCEPT ![s] = [@ EXCEPT !.phase = "locking", !.payment = p,
                                           !.view = payment[p].status]]
  /\ UNCHANGED <<payment, remote, delivered, lock>>

(* reconcile_external_payment, SELECT ... FOR UPDATE.  The task's session    *)
(* has never seen the row and leaves one that is no longer pending alone;    *)
(* the check button gets the object back as it was loaded.                   *)
LockForReconcile(p) ==
  /\ work[Worker].phase = "locking" /\ work[Worker].payment = p
  /\ lock[p] = NoSession
  /\ IF payment[p].status = "pending"
     THEN lock' = [lock EXCEPT ![p] = Worker] /\ Asking(Worker, p, "pending")
     ELSE work' = [work EXCEPT ![Worker] = Idle] /\ UNCHANGED lock
  /\ UNCHANGED <<payment, remote, delivered>>

LockForCheck(s) ==
  LET p == work[s].payment IN
  /\ s # Worker /\ work[s].phase = "locking"
  /\ lock[p] = NoSession
  /\ lock' = [lock EXCEPT ![p] = s]
  /\ Asking(s, p, work[s].view)
  /\ UNCHANGED <<payment, remote, delivered>>

Ask(s) ==
  /\ work[s].phase = "asking"
  /\ work' = [work EXCEPT ![s].phase = "deciding",
                          ![s].found = remote[work[s].payment]]
  /\ UNCHANGED <<payment, remote, delivered, lock>>

-----------------------------------------------------------------------------
Finish(s) ==
  /\ lock' = [q \in Payments |-> IF lock[q] = s THEN NoSession ELSE lock[q]]
  /\ work' = [work EXCEPT ![s] = Idle]

\* Mutant of KeyFree: the grant carries no idempotency key.
NoKey(p) == p \in Payments

\* _settle_locked and mark_paid; the ledger takes payment-credit:<id> once.
Paid(p) == [payment EXCEPT ![p].status = "paid", ![p].external_id = TRUE]
KeyFree(p) == delivered[p] = 0
Granted(p) == [delivered EXCEPT ![p] = IF KeyFree(p) THEN @ + 1 ELSE @]

\* Mutant of SettleFound: an authorised payment is taken for a captured one.
SettleUncaptured(s) ==
  LET p == work[s].payment IN
  /\ work[s].phase = "deciding" /\ work[s].found \in {"pending", "paid"}
  /\ work[s].view = "pending"
  /\ payment' = Paid(p)
  /\ delivered' = Granted(p)
  /\ Finish(s)
  /\ UNCHANGED remote

SettleFound(s) ==
  LET p == work[s].payment IN
  /\ work[s].phase = "deciding" /\ work[s].found = "paid"
  /\ work[s].view = "pending"
  /\ payment' = Paid(p)
  /\ delivered' = Granted(p)
  /\ Finish(s)
  /\ UNCHANGED remote

CloseFound(s) ==
  LET p == work[s].payment IN
  /\ work[s].phase = "deciding" /\ work[s].found \in Closed
  /\ payment' = [payment EXCEPT ![p].status = work[s].found,
                                ![p].external_id = @ \/ work[s].found # "failed"]
  /\ Finish(s)
  /\ UNCHANGED <<remote, delivered>>

\* Mutant of StillPending: the provider's status is copied to the row.
ReopenPending(s) ==
  LET p == work[s].payment IN
  /\ work[s].phase = "deciding" /\ work[s].found = "pending"
  /\ payment' = [payment EXCEPT ![p].status = "pending", ![p].external_id = TRUE]
  /\ Finish(s)
  /\ UNCHANGED <<remote, delivered>>

\* Nothing to do yet; the webhook stores the id if the row had none.
StillPending(s) ==
  LET p == work[s].payment IN
  /\ work[s].phase = "deciding" /\ work[s].found = "pending"
  /\ payment' = [payment EXCEPT ![p].external_id = TRUE]
  /\ Finish(s)
  /\ UNCHANGED <<remote, delivered>>

Decide(s) == SettleFound(s) \/ CloseFound(s) \/ StillPending(s)

\* A crash, a provider error, or a refusal to settle a failed payment.  One
\* that dies while it waits for the row is one that never came.
Abort(s) ==
  /\ work[s].phase \in {"asking", "deciding"}
  /\ Finish(s)
  /\ UNCHANGED <<payment, remote, delivered>>

\* A signed notification of Crypto Pay or YooMoney settles without asking.
SignedWebhook(p) ==
  /\ payment[p].provider \in Signed /\ remote[p] = "paid"
  /\ lock[p] = NoSession
  /\ payment[p].status = "pending"
  /\ payment' = Paid(p)
  /\ delivered' = Granted(p)
  /\ UNCHANGED <<remote, lock, work>>

Next ==
  \/ \E p \in Payments :
       \/ OpenOrder(p) \/ OrderAccepted(p) \/ OrderRefused(p) \/ OrderAmbiguous(p)
       \/ RemotePaid(p) \/ RemoteEnded(p) \/ RemoteRefunded(p)
       \/ SignedWebhook(p) \/ ListForReconcile(p) \/ LockForReconcile(p)
  \/ \E s \in Sessions, p \in Payments : BeginWebhook(s, p) \/ ReadForCheck(s, p)
  \/ \E s \in Sessions : LockForCheck(s) \/ Ask(s) \/ Decide(s) \/ Abort(s)

Spec == Init /\ [][Next]_vars

TaskFor(p) == work[Worker].payment = p

\* No session waits for ever: HTTP calls have a timeout, a dead connection is
\* rolled back and the waiters for a row are served in turn.  The beat schedule
\* runs the task every 30 seconds, and for no payment does it fail every time.
FairSpec ==
  /\ Spec
  /\ \A s \in Sessions : WF_vars(Ask(s) \/ Decide(s) \/ Abort(s))
  /\ \A p \in Payments :
       /\ SF_vars(ListForReconcile(p))
       /\ SF_vars(LockForReconcile(p))
       /\ SF_vars(TaskFor(p) /\ Ask(Worker))
       /\ SF_vars(TaskFor(p) /\ Decide(Worker))

-----------------------------------------------------------------------------
(* Whichever of the webhook, the task and the check button gets there first, *)
(* and however stale the button's view, a payment is marked paid (or, later, *)
(* refunded) exactly when its credits were granted, and they are granted     *)
(* once.  Docstring of reconcile_external_payment: "the payment row is       *)
(* locked and credits can only be granted once".                             *)
GrantedOnce ==
  \A p \in Payments :
    /\ delivered[p] <= 1
    /\ payment[p].status = "paid" => delivered[p] = 1
    /\ delivered[p] = 1 => payment[p].status \in {"paid", "refunded"}

(* An order the code has closed is never settled: nothing leaves a closed    *)
(* status for pending or paid, not even a handler that read it while open.   *)
ClosedIsNeverPaid ==
  [][\A p \in Payments :
       payment[p].status \in Closed => payment'[p].status \in Closed]_vars

(* The buyer's promise (PaymentPromise), for every provider.                 *)
OrderOf(status) ==
  CASE status = "none" -> "none"
    [] status = "pending" -> "open"
    [] status \in {"paid", "refunded"} -> status
    [] OTHER -> "closed"

Buyer == INSTANCE PaymentPromise WITH
  Orders <- Payments,
  order <- [p \in Payments |-> OrderOf(payment[p].status)],
  money <- [p \in Payments |-> remote[p] \in {"paid", "refunded"}],
  goods <- delivered

KeepsPromise == Buyer!Promise

(* What the reconciliation is worth when every webhook of a payment is lost: *)
(* it stays pending for ever, though the provider has it as paid, only if    *)
(* from some time on older payments that never end fill the whole batch.     *)
PaidIsNoticedUnlessCrowded ==
  \A p \in Payments :
    <>[](remote[p] = "paid" /\ Reconcilable(p)) => <>[]Crowded(p)
=============================================================================
