---------------------- MODULE ExternalSettlementProofs ----------------------
(* What ExternalSettlement promises holds for every set of payments and     *)
(* sessions, whatever providers are offered and whenever orders are made.   *)
(*                                                                          *)
(* The check button decides on a copy of the row it read before it had the  *)
(* lock.  It does no harm because a row is closed only as the provider says,*)
(* and a payment the provider has closed is never paid afterwards: a session*)
(* that is told "paid" cannot have read a row that was closed meanwhile.    *)
EXTENDS ExternalSettlement, TLAPS

\* The provider has no payment the row does not know of before the order was
\* placed, and an id or a link only come from the provider.
CreatedFirst ==
  \A p \in Payments :
    /\ payment[p].status = "none" => ~Created(p)
    /\ payment[p].external_id \/ payment[p].checkout_url => Created(p)

\* A row that was paid or closed by what the provider answered is as the
\* provider has it; only an order that was never accepted fails by itself.
RowsAreTrue ==
  \A p \in Payments :
    /\ payment[p].status = "paid" => remote[p] \in {"paid", "refunded"}
    /\ payment[p].status \in Closed \ {"failed"} => remote[p] = payment[p].status

\* A row that was pending when it was read was not closed since, but by the
\* provider.
NotClosedSince(p) ==
  \/ payment[p].status \in {"pending", "paid"}
  \/ payment[p].status \in Closed /\ remote[p] = payment[p].status

SessionsAreSound ==
  \A s \in Sessions : work[s].phase # "idle" =>
    LET p == work[s].payment IN
    /\ p \in Payments /\ Created(p)
    /\ work[s].phase \in {"asking", "deciding"} => lock[p] = s
    /\ work[s].view = "pending" => NotClosedSince(p)

\* An answer stays true while the row is locked.
AnswersAreTrue ==
  \A s \in Sessions : work[s].phase = "deciding" =>
    LET p == work[s].payment IN
    /\ work[s].found \in Closed => remote[p] = work[s].found
    /\ work[s].found = "paid" =>
         remote[p] \in {"paid", "refunded"} /\ payment[p].status # "refunded"

IInv ==
  /\ TypeOK /\ CreatedFirst /\ RowsAreTrue /\ SessionsAreSound /\ AnswersAreTrue
  /\ GrantedOnce

-----------------------------------------------------------------------------
(* A payment the provider does not have yet occupies no session and has     *)
(* brought nothing.                                                         *)
LEMMA NotCreatedYet ==
  ASSUME IInv, NEW p \in Payments, ~Created(p)
  PROVE  /\ \A s \in Sessions : work[s].phase # "idle" => work[s].payment # p
         /\ delivered[p] = 0
<1>1. payment[p].status \notin {"paid", "refunded"}
  BY DEF IInv, RowsAreTrue, Created, Closed
<1>2. delivered[p] \in Nat
  BY DEF IInv, TypeOK
<1>3. QED BY <1>1, <1>2 DEF IInv, SessionsAreSound, GrantedOnce

(* The steps of an order up to the provider's answer.                       *)
LEMMA OrderIInv ==
  ASSUME IInv, NEW p \in Payments, ~Created(p), TypeOK',
         UNCHANGED <<delivered, lock, work>>,
         \A q \in Payments \ {p} : payment'[q] = payment[q] /\ remote'[q] = remote[q],
         payment'[p].status \in {"pending", "failed"},
         payment'[p].external_id \/ payment'[p].checkout_url => Created(p)'
  PROVE  IInv'
<1>1. /\ \A s \in Sessions : work[s].phase # "idle" => work[s].payment # p
      /\ delivered[p] = 0
  BY NotCreatedYet
<1>2. CreatedFirst'
  BY DEF IInv, CreatedFirst, Created
<1>3. RowsAreTrue'
  BY DEF IInv, RowsAreTrue, Closed
<1>4. SessionsAreSound'
  BY <1>1 DEF IInv, SessionsAreSound, NotClosedSince, Created
<1>5. AnswersAreTrue'
  <2> SUFFICES ASSUME NEW s \in Sessions, work[s].phase = "deciding"
      PROVE  LET q == work[s].payment IN
             /\ work[s].found \in Closed => remote'[q] = work[s].found
             /\ work[s].found = "paid" =>
                  remote'[q] \in {"paid", "refunded"} /\ payment'[q].status # "refunded"
    BY DEF AnswersAreTrue
  <2>1. work[s].payment \in Payments \ {p}
    BY <1>1 DEF IInv, SessionsAreSound
  <2>2. QED BY <2>1 DEF IInv, AnswersAreTrue
<1>6. GrantedOnce'
  BY <1>1 DEF IInv, GrantedOnce
<1>7. QED BY <1>2, <1>3, <1>4, <1>5, <1>6 DEF IInv

(* What the provider and the buyer do: an open payment is paid or ended, a  *)
(* paid one is given back.                                                  *)
LEMMA RemoteIInv ==
  ASSUME IInv, NEW p \in Payments, NEW e \in {"paid"} \cup Closed,
         remote' = [remote EXCEPT ![p] = e],
         remote[p] = "pending" \/ (remote[p] = "paid" /\ e = "refunded"),
         UNCHANGED <<payment, delivered, lock, work>>
  PROVE  IInv'
<1>1. TypeOK'
  BY DEF IInv, TypeOK, Answers
<1>2. /\ remote'[p] = e
      /\ \A q \in Payments \ {p} : remote'[q] = remote[q]
  BY DEF IInv, TypeOK
<1>3. CreatedFirst' /\ GrantedOnce'
  BY <1>2 DEF IInv, CreatedFirst, Created, GrantedOnce, Closed
<1>4. RowsAreTrue'
  BY <1>2 DEF IInv, RowsAreTrue, Closed
<1>5. \A q \in Payments : NotClosedSince(q) => NotClosedSince(q)'
  BY <1>2 DEF NotClosedSince, Closed
<1>6. SessionsAreSound'
  BY <1>2, <1>5 DEF IInv, SessionsAreSound, Created, Closed
<1>7. AnswersAreTrue'
  BY <1>2 DEF IInv, AnswersAreTrue, SessionsAreSound, Closed
<1>8. QED BY <1>1, <1>3, <1>4, <1>6, <1>7 DEF IInv

(* A session that begins, locks, asks or gives up touches only its own work *)
(* and takes or frees locks of its own.                                     *)
LEMMA SessionIInv ==
  ASSUME IInv, NEW s \in Sessions, NEW w \in Work, TypeOK',
         UNCHANGED <<payment, remote, delivered>>,
         work' = [work EXCEPT ![s] = w],
         \A q \in Payments : lock'[q] = lock[q] \/ lock[q] \in {s, NoSession},
         w.phase # "idle" => w.payment \in Payments /\ Created(w.payment),
         w.phase \in {"asking", "deciding"} => lock'[w.payment] = s,
         w.phase # "idle" /\ w.view = "pending" => NotClosedSince(w.payment),
         w.phase = "deciding" => w.found = remote[w.payment]
  PROVE  IInv'
<1>1. work'[s] = w /\ \A t \in Sessions \ {s} : work'[t] = work[t]
  BY DEF IInv, TypeOK
<1>2. \A q \in Payments, t \in Sessions \ {s} : lock[q] = t => lock'[q] = t
  BY ExternalAssumption
<1>3. CreatedFirst' /\ RowsAreTrue' /\ GrantedOnce'
  BY DEF IInv, CreatedFirst, Created, RowsAreTrue, GrantedOnce
<1>4. \A q \in Payments : NotClosedSince(q)' <=> NotClosedSince(q)
  BY DEF NotClosedSince
<1>5. \A q \in Payments : Created(q)' <=> Created(q)
  BY DEF Created
<1>6. SessionsAreSound'
  <2> SUFFICES ASSUME NEW t \in Sessions, work'[t].phase # "idle",
                      NEW q, q = work'[t].payment
      PROVE  /\ q \in Payments /\ Created(q)'
             /\ work'[t].phase \in {"asking", "deciding"} => lock'[q] = t
             /\ work'[t].view = "pending" => NotClosedSince(q)'
    BY DEF SessionsAreSound
  <2>1. CASE t = s
    BY <1>1, <1>4, <1>5, <2>1
  <2>2. CASE t # s
    <3>1. /\ work[t].payment \in Payments /\ Created(work[t].payment)
          /\ work[t].phase \in {"asking", "deciding"} => lock[work[t].payment] = t
          /\ work[t].view = "pending" => NotClosedSince(work[t].payment)
      BY <1>1, <2>2 DEF IInv, SessionsAreSound
    <3>2. QED BY <1>1, <1>2, <1>4, <1>5, <2>2, <3>1
  <2>3. QED BY <2>1, <2>2
<1>7. AnswersAreTrue'
  <2> SUFFICES ASSUME NEW t \in Sessions, work'[t].phase = "deciding"
      PROVE  LET q == work'[t].payment IN
             /\ work'[t].found \in Closed => remote[q] = work'[t].found
             /\ work'[t].found = "paid" =>
                  remote[q] \in {"paid", "refunded"} /\ payment[q].status # "refunded"
    BY DEF AnswersAreTrue
  <2>1. CASE t = s
    <3>1. w.found = "paid" => payment[w.payment].status # "refunded"
      BY <1>1, <2>1 DEF IInv, RowsAreTrue, Closed
    <3>2. QED BY <1>1, <2>1, <3>1
  <2>2. CASE t # s
    BY <1>1, <2>2 DEF IInv, AnswersAreTrue
  <2>3. QED BY <2>1, <2>2
<1>8. QED BY <1>3, <1>6, <1>7 DEF IInv

(* A step that writes the row of one payment, of which no other session     *)
(* holds the lock.                                                          *)
LEMMA RowIInv ==
  ASSUME IInv, NEW p \in Payments, Created(p), TypeOK',
         UNCHANGED remote,
         \A q \in Payments \ {p} : payment'[q] = payment[q] /\ delivered'[q] = delivered[q],
         \A t \in Sessions :
           \/ work'[t].phase = "idle"
           \/ /\ work'[t] = work[t]
              /\ work[t].phase \in {"asking", "deciding"} => work[t].payment # p
              /\ \A q \in Payments : lock[q] = t => lock'[q] = t,
         payment'[p].status # "none",
         payment'[p].status = payment[p].status \/ NotClosedSince(p)',
         payment'[p].status = "paid" => remote[p] \in {"paid", "refunded"},
         payment'[p].status \in Closed \ {"failed"} => remote[p] = payment'[p].status,
         /\ delivered'[p] <= 1
         /\ payment'[p].status = "paid" => delivered'[p] = 1
         /\ delivered'[p] = 1 => payment'[p].status \in {"paid", "refunded"}
  PROVE  IInv'
<1>1. CreatedFirst'
  BY DEF IInv, CreatedFirst, Created
<1>2. RowsAreTrue' /\ GrantedOnce'
  BY DEF IInv, RowsAreTrue, GrantedOnce
<1>3. \A q \in Payments : NotClosedSince(q) => NotClosedSince(q)'
  BY DEF NotClosedSince
<1>4. SessionsAreSound'
  <2> SUFFICES ASSUME NEW t \in Sessions, work'[t].phase # "idle",
                      NEW q, q = work'[t].payment
      PROVE  /\ q \in Payments /\ Created(q)'
             /\ work'[t].phase \in {"asking", "deciding"} => lock'[q] = t
             /\ work'[t].view = "pending" => NotClosedSince(q)'
    BY DEF SessionsAreSound
  <2>1. /\ work[t].payment \in Payments /\ Created(work[t].payment)
        /\ work[t].phase \in {"asking", "deciding"} => lock[work[t].payment] = t
        /\ work[t].view = "pending" => NotClosedSince(work[t].payment)
    BY DEF IInv, SessionsAreSound
  <2>2. QED BY <1>3, <2>1 DEF Created
<1>5. AnswersAreTrue'
  <2> SUFFICES ASSUME NEW t \in Sessions, work'[t].phase = "deciding"
      PROVE  LET q == work'[t].payment IN
             /\ work'[t].found \in Closed => remote[q] = work'[t].found
             /\ work'[t].found = "paid" =>
                  remote[q] \in {"paid", "refunded"} /\ payment'[q].status # "refunded"
    BY DEF AnswersAreTrue
  <2>1. work'[t] = work[t] /\ work[t].payment \in Payments \ {p}
    BY DEF IInv, SessionsAreSound
  <2>2. QED BY <2>1 DEF IInv, AnswersAreTrue
<1>6. QED BY <1>1, <1>2, <1>4, <1>5 DEF IInv

-----------------------------------------------------------------------------
(* The variables keep their types in every step.                            *)
LEMMA RowEdits ==
  ASSUME NEW rows \in [Payments -> Row], NEW p \in Payments
  PROVE  /\ \A st \in Statuses : [rows EXCEPT ![p].status = st] \in [Payments -> Row]
         /\ \A to \in Polled \cup Signed : [rows EXCEPT ![p].provider = to] \in [Payments -> Row]
         /\ \A on \in BOOLEAN :
              /\ [rows EXCEPT ![p].external_id = on] \in [Payments -> Row]
              /\ [rows EXCEPT ![p].checkout_url = on] \in [Payments -> Row]
BY DEF Row

(* What one edit of a row leaves alone.                                     *)
LEMMA StatusEdit ==
  ASSUME NEW rows \in [Payments -> Row], NEW p \in Payments, NEW st \in Statuses,
         NEW new, new = [rows EXCEPT ![p].status = st]
  PROVE  /\ new \in [Payments -> Row] /\ new[p].status = st
         /\ new[p].external_id = rows[p].external_id
         /\ new[p].checkout_url = rows[p].checkout_url
         /\ \A q \in Payments \ {p} : new[q] = rows[q]
BY DEF Row

LEMMA ProviderEdit ==
  ASSUME NEW rows \in [Payments -> Row], NEW p \in Payments, NEW to \in Polled \cup Signed,
         NEW new, new = [rows EXCEPT ![p].provider = to]
  PROVE  /\ new \in [Payments -> Row] /\ new[p].status = rows[p].status
         /\ new[p].external_id = rows[p].external_id
         /\ new[p].checkout_url = rows[p].checkout_url
         /\ \A q \in Payments \ {p} : new[q] = rows[q]
BY DEF Row

LEMMA FlagEdit ==
  ASSUME NEW rows \in [Payments -> Row], NEW p \in Payments, NEW on \in BOOLEAN, NEW new,
         \/ new = [rows EXCEPT ![p].external_id = on]
         \/ new = [rows EXCEPT ![p].checkout_url = on]
  PROVE  /\ new \in [Payments -> Row] /\ new[p].status = rows[p].status
         /\ \A q \in Payments \ {p} : new[q] = rows[q]
BY DEF Row

LEMMA TypeNext == IInv /\ [Next]_vars => TypeOK'
<1> SUFFICES ASSUME IInv, TypeOK, [Next]_vars PROVE TypeOK'
  BY DEF IInv
<1> USE DEF TypeOK
<1>1. CASE UNCHANGED vars
  BY <1>1 DEF vars
<1>2. ASSUME NEW p \in Payments, OpenOrder(p) PROVE TypeOK'
  <2>1. PICK to \in Polled \cup Signed :
             payment' = [[payment EXCEPT ![p].status = "pending"] EXCEPT ![p].provider = to]
    BY <1>2, ExternalAssumption DEF OpenOrder
  <2>2. [payment EXCEPT ![p].status = "pending"] \in [Payments -> Row]
    BY RowEdits DEF Statuses
  <2>3. payment' \in [Payments -> Row]
    BY <2>1, <2>2, RowEdits
  <2>4. QED BY <1>2, <2>3 DEF OpenOrder
<1>3. ASSUME NEW p \in Payments, OrderAccepted(p) PROVE TypeOK'
  <2> DEFINE known == [payment EXCEPT ![p].external_id = payment[p].provider # "yoomoney"]
  <2>1. known \in [Payments -> Row]
    BY RowEdits
  <2>2. payment' = [known EXCEPT ![p].checkout_url = TRUE]
    BY <1>3 DEF OrderAccepted
  <2>3. payment' \in [Payments -> Row]
    BY <2>1, <2>2, RowEdits
  <2>4. QED BY <1>3, <2>3 DEF OrderAccepted, Answers
<1>4. ASSUME NEW p \in Payments, OrderRefused(p) \/ OrderAmbiguous(p) PROVE TypeOK'
  <2>1. CASE OrderRefused(p)
    <3>1. payment' \in [Payments -> Row]
      BY <2>1, RowEdits DEF OrderRefused, Statuses, Closed
    <3>2. QED BY <2>1, <3>1 DEF OrderRefused, Answers
  <2>2. CASE OrderAmbiguous(p)
    BY <2>2 DEF OrderAmbiguous, Answers
  <2>3. QED BY <1>4, <2>1, <2>2
<1>5. ASSUME NEW p \in Payments, RemotePaid(p) \/ RemoteEnded(p) \/ RemoteRefunded(p)
      PROVE TypeOK'
  BY <1>5 DEF RemotePaid, RemoteEnded, RemoteRefunded, Endings, Answers, Closed
<1> USE DEF Statuses
<1>23. ASSUME NEW p \in Payments
       PROVE  Paid(p) \in [Payments -> Row] /\ Granted(p) \in [Payments -> Nat]
  <2>1. [payment EXCEPT ![p].status = "paid"] \in [Payments -> Row]
    BY RowEdits
  <2>2. [[payment EXCEPT ![p].status = "paid"] EXCEPT ![p].external_id = TRUE] \in [Payments -> Row]
    BY <2>1, RowEdits
  <2>3. Paid(p) \in [Payments -> Row]
    BY <2>2 DEF Paid
  <2>4. CASE KeyFree(p)
    BY <2>3, <2>4 DEF Granted
  <2>5. CASE ~KeyFree(p)
    BY <2>3, <2>5 DEF Granted
  <2>6. QED BY <2>4, <2>5
<1>6. ASSUME NEW p \in Payments, SignedWebhook(p) PROVE TypeOK'
  <2>1. payment' \in [Payments -> Row]
    BY <1>6, <1>23 DEF SignedWebhook
  <2>2. delivered' \in [Payments -> Nat]
    BY <1>6, <1>23 DEF SignedWebhook
  <2>3. QED BY <1>6, <2>1, <2>2 DEF SignedWebhook
<1>7. ASSUME NEW p \in Payments, ListForReconcile(p) PROVE TypeOK'
  <2>1. work' = [work EXCEPT ![Worker] = [work[Worker] EXCEPT !.phase = "locking", !.payment = p]]
    BY <1>7 DEF ListForReconcile
  <2>2. work' \in [Sessions -> Work]
    BY <2>1, ExternalAssumption DEF Work
  <2>3. QED BY <1>7, <2>2 DEF ListForReconcile
<1>8. ASSUME NEW s \in Sessions, NEW p \in Payments, NEW st \in Statuses, Asking(s, p, st)
      PROVE work' \in [Sessions -> Work]
  BY <1>8 DEF Asking, Work, Answers
<1>9. Idle \in Work
  BY DEF Idle, Work, Answers
<1>10. ASSUME NEW p \in Payments, LockForReconcile(p) PROVE TypeOK'
  <2>1. work' \in [Sessions -> Work]
    BY <1>8, <1>9, <1>10, ExternalAssumption DEF LockForReconcile
  <2>2. lock' \in [Payments -> Sessions \cup {NoSession}]
    BY <1>10, ExternalAssumption DEF LockForReconcile
  <2>3. QED BY <1>10, <2>1, <2>2 DEF LockForReconcile
<1>11. ASSUME NEW s \in Sessions, NEW p \in Payments, BeginWebhook(s, p) PROVE TypeOK'
  <2>1. payment[p].status \in Statuses
    BY DEF Row
  <2>2. work' \in [Sessions -> Work]
    BY <1>8, <1>11, <2>1 DEF BeginWebhook
  <2>3. QED BY <1>11, <2>2 DEF BeginWebhook
<1>12. ASSUME NEW s \in Sessions, NEW p \in Payments, ReadForCheck(s, p) PROVE TypeOK'
  <2>1. work' = [work EXCEPT ![s] = [work[s] EXCEPT !.phase = "locking", !.payment = p,
                                                    !.view = payment[p].status]]
    BY <1>12 DEF ReadForCheck
  <2>4. payment[p].status \in Statuses
    BY DEF Row
  <2>2. work' \in [Sessions -> Work]
    BY <2>1, <2>4 DEF Work
  <2>3. QED BY <1>12, <2>2 DEF ReadForCheck
<1>13. ASSUME NEW s \in Sessions, LockForCheck(s) PROVE TypeOK'
  <2>1. /\ work[s].view \in Statuses
        /\ work[s].payment \in Payments \cup {NoPayment}
    BY DEF Work
  <2>2. work' \in [Sessions -> Work]
    BY <1>13, <2>1 DEF LockForCheck, Asking, Work, Answers
  <2>3. lock' \in [Payments -> Sessions \cup {NoSession}]
    BY <1>13 DEF LockForCheck
  <2>4. QED BY <1>13, <2>2, <2>3 DEF LockForCheck
<1>14. ASSUME NEW s \in Sessions, NEW f \in Answers,
              work' = [work EXCEPT ![s].phase = "deciding", ![s].found = f]
       PROVE work' \in [Sessions -> Work]
  BY <1>14 DEF Work
<1>15. ASSUME NEW s \in Sessions, work[s].phase # "idle"
       PROVE  work[s].payment \in Payments /\ remote[work[s].payment] \in Answers
  BY <1>15 DEF IInv, SessionsAreSound
<1>16. ASSUME NEW s \in Sessions, Ask(s) PROVE TypeOK'
  BY <1>14, <1>15, <1>16 DEF Ask
<1>17. ASSUME NEW s \in Sessions, Finish(s)
       PROVE  /\ lock' \in [Payments -> Sessions \cup {NoSession}]
              /\ work' \in [Sessions -> Work]
  BY <1>9, <1>17 DEF Finish
<1>18. ASSUME NEW s \in Sessions, SettleFound(s) PROVE TypeOK'
  <2>1. PICK p \in Payments : p = work[s].payment
    BY <1>15, <1>18 DEF SettleFound
  <2>2. payment' \in [Payments -> Row] /\ delivered' \in [Payments -> Nat]
    BY <1>18, <1>23, <2>1 DEF SettleFound
  <2>3. QED BY <1>17, <1>18, <2>2 DEF SettleFound
<1>19. ASSUME NEW s \in Sessions, CloseFound(s) PROVE TypeOK'
  <2>1. PICK p \in Payments : p = work[s].payment
    BY <1>15, <1>19 DEF CloseFound
  <2> DEFINE closed == [payment EXCEPT ![p].status = work[s].found]
             noted == payment[p].external_id \/ work[s].found # "failed"
  <2>2. closed \in [Payments -> Row] /\ closed[p].external_id = payment[p].external_id
    BY <1>19, RowEdits DEF CloseFound
  <2>4. noted \in BOOLEAN
    BY DEF Row
  <2>5. payment' = [closed EXCEPT ![p].external_id = noted]
    BY <1>19, <2>1, <2>2 DEF CloseFound
  <2>6. payment' \in [Payments -> Row]
    BY <2>2, <2>4, <2>5, RowEdits
  <2>3. QED BY <1>17, <1>19, <2>6 DEF CloseFound
<1>20. ASSUME NEW s \in Sessions, StillPending(s) PROVE TypeOK'
  <2>1. PICK p \in Payments : p = work[s].payment
    BY <1>15, <1>20 DEF StillPending
  <2>2. payment' = [payment EXCEPT ![p].external_id = TRUE]
    BY <1>20, <2>1 DEF StillPending
  <2>4. payment' \in [Payments -> Row]
    BY <2>2, RowEdits
  <2>3. QED BY <1>17, <1>20, <2>4 DEF StillPending
<1>21. ASSUME NEW s \in Sessions, Abort(s) PROVE TypeOK'
  BY <1>17, <1>21 DEF Abort
<1>22. QED
  BY <1>1, <1>2, <1>3, <1>4, <1>5, <1>6, <1>7, <1>10, <1>11, <1>12, <1>13, <1>16, <1>18, <1>19,
     <1>20, <1>21 DEF Next, Decide

-----------------------------------------------------------------------------
(* Every step keeps the invariant, group by group.                          *)
LEMMA OrderSteps ==
  ASSUME IInv, [Next]_vars, NEW p \in Payments,
         OpenOrder(p) \/ OrderAccepted(p) \/ OrderRefused(p) \/ OrderAmbiguous(p)
  PROVE  IInv'
<1> TypeOK'
  BY TypeNext
<1> USE DEF IInv, TypeOK
<1>1. CASE OpenOrder(p)
  <2>1. ~Created(p)
    BY <1>1 DEF OpenOrder, CreatedFirst
  <2> DEFINE opened == [payment EXCEPT ![p].status = "pending"]
  <2>2. /\ opened \in [Payments -> Row] /\ opened[p].status = "pending"
        /\ opened[p].external_id = payment[p].external_id
        /\ opened[p].checkout_url = payment[p].checkout_url
        /\ \A q \in Payments \ {p} : opened[q] = payment[q]
    BY StatusEdit DEF Statuses
  <2>3. PICK to \in Polled \cup Signed : payment' = [opened EXCEPT ![p].provider = to]
    BY <1>1, ExternalAssumption DEF OpenOrder
  <2> HIDE DEF opened
  <2>4. /\ payment'[p].status = "pending"
        /\ payment'[p].external_id = payment[p].external_id
        /\ payment'[p].checkout_url = payment[p].checkout_url
        /\ \A q \in Payments \ {p} : payment'[q] = payment[q]
    BY <2>2, <2>3, ProviderEdit
  <2>5. ~payment'[p].external_id /\ ~payment'[p].checkout_url
    BY <2>1, <2>4 DEF CreatedFirst
  <2>6. QED BY <1>1, <2>1, <2>4, <2>5, OrderIInv DEF OpenOrder
<1>2. CASE OrderAccepted(p)
  <2>6. PICK told \in BOOLEAN : told = (payment[p].provider # "yoomoney")
    OBVIOUS
  <2>7. PICK known : known = [payment EXCEPT ![p].external_id = told]
    OBVIOUS
  <2>1. /\ known \in [Payments -> Row] /\ known[p].status = payment[p].status
        /\ \A q \in Payments \ {p} : known[q] = payment[q]
    <3>1. payment \in [Payments -> Row]
      OBVIOUS
    <3> HIDE DEF IInv, TypeOK
    <3>2. QED BY <2>7, <3>1 DEF Row
  <2>2. payment' = [known EXCEPT ![p].checkout_url = TRUE]
    BY <1>2, <2>6, <2>7 DEF OrderAccepted
  <2>3. /\ payment'[p].status = payment[p].status
        /\ \A q \in Payments \ {p} : payment'[q] = payment[q]
    BY <2>1, <2>2, FlagEdit
  <2>4. /\ Created(p)' /\ payment'[p].status = "pending"
        /\ \A q \in Payments \ {p} : remote'[q] = remote[q]
    BY <1>2, <2>3 DEF OrderAccepted, Created
  <2>5. QED BY <1>2, <2>3, <2>4, OrderIInv DEF OrderAccepted
<1>3. CASE OrderRefused(p)
  <2>1. /\ payment'[p].status = "failed"
        /\ payment'[p].external_id = payment[p].external_id
        /\ payment'[p].checkout_url = payment[p].checkout_url
        /\ \A q \in Payments \ {p} : payment'[q] = payment[q]
    BY <1>3, StatusEdit DEF OrderRefused, Statuses, Closed
  <2>2. ~payment'[p].external_id /\ ~payment'[p].checkout_url
    BY <1>3, <2>1 DEF OrderRefused, CreatedFirst
  <2>3. \A q \in Payments \ {p} : remote'[q] = remote[q]
    BY <1>3 DEF OrderRefused
  <2>4. QED BY <1>3, <2>1, <2>2, <2>3, OrderIInv DEF OrderRefused
<1>4. CASE OrderAmbiguous(p)
  <2>1. \A q \in Payments \ {p} : payment'[q] = payment[q] /\ remote'[q] = remote[q]
    BY <1>4 DEF OrderAmbiguous
  <2>2. payment'[p].status = "pending" /\ Created(p)'
    BY <1>4 DEF OrderAmbiguous, Created
  <2>3. QED BY <1>4, <2>1, <2>2, OrderIInv DEF OrderAmbiguous
<1>5. QED BY <1>1, <1>2, <1>3, <1>4

LEMMA RemoteSteps ==
  ASSUME IInv, NEW p \in Payments, RemotePaid(p) \/ RemoteEnded(p) \/ RemoteRefunded(p)
  PROVE  IInv'
<1>1. CASE RemotePaid(p)
  BY <1>1, RemoteIInv DEF RemotePaid
<1>2. CASE RemoteEnded(p)
  <2>1. PICK e \in Closed : remote' = [remote EXCEPT ![p] = e]
    BY <1>2 DEF RemoteEnded, Endings, Closed
  <2>2. QED BY <1>2, <2>1, RemoteIInv DEF RemoteEnded
<1>3. CASE RemoteRefunded(p)
  BY <1>3, RemoteIInv DEF RemoteRefunded, Closed
<1>4. QED BY <1>1, <1>2, <1>3

(* A webhook or the task starts from the row as it is; the check button from *)
(* what it read, which only the provider can have closed since.             *)
LEMMA SessionSteps ==
  ASSUME IInv, [Next]_vars, NEW s \in Sessions, NEW p \in Payments,
         \/ BeginWebhook(s, p) \/ ReadForCheck(s, p)
         \/ ListForReconcile(p) \/ LockForReconcile(p)
         \/ LockForCheck(s) \/ Ask(s)
  PROVE  IInv'
<1>1. TypeOK /\ TypeOK'
  BY TypeNext DEF IInv
<1>2. payment[p].status \in Statuses
  BY <1>1 DEF TypeOK, Row
<1>3. payment[p].status = "pending" => NotClosedSince(p)
  BY DEF NotClosedSince
<1>4. ASSUME NEW t \in Sessions, NEW q \in Payments, NEW st \in Statuses,
             Asking(t, q, st), Created(q), st = "pending" => NotClosedSince(q),
             lock[q] = NoSession, lock' = [lock EXCEPT ![q] = t],
             UNCHANGED <<payment, remote, delivered>>
      PROVE  IInv'
  <2> DEFINE w == [phase |-> "asking", payment |-> q, view |-> st, found |-> "absent"]
  <2>1. w \in Work
    BY DEF Work, Answers
  <2>2. work' = [work EXCEPT ![t] = w]
    BY <1>4 DEF Asking
  <2>3. lock'[q] = t /\ \A r \in Payments : lock'[r] = lock[r] \/ lock[r] \in {t, NoSession}
    BY <1>1, <1>4 DEF TypeOK
  <2>4. /\ w.phase = "asking" /\ w.payment = q /\ w.view = st
    OBVIOUS
  <2> HIDE DEF w
  <2>5. QED BY <1>1, <1>4, <2>1, <2>2, <2>3, <2>4, SessionIInv
<1>5. CASE BeginWebhook(s, p)
  BY <1>2, <1>3, <1>4, <1>5 DEF BeginWebhook
<1>6. ASSUME Reconcilable(p) PROVE Created(p) /\ payment[p].status = "pending"
  BY <1>6 DEF Reconcilable, IInv, CreatedFirst
<1>7. ASSUME NEW t \in Sessions, NEW w \in Work, work' = [work EXCEPT ![t] = w],
             UNCHANGED <<payment, remote, delivered, lock>>, w.phase = "locking",
             w.payment = p, Reconcilable(p)
      PROVE  IInv'
  BY <1>1, <1>3, <1>6, <1>7, SessionIInv
<1>8. CASE ReadForCheck(s, p)
  <2> DEFINE w == [work[s] EXCEPT !.phase = "locking", !.payment = p, !.view = payment[p].status]
  <2>1. w \in Work /\ w.phase = "locking" /\ w.payment = p
    BY <1>1, <1>2 DEF TypeOK, Work
  <2>2. work' = [work EXCEPT ![s] = w] /\ Reconcilable(p)
    BY <1>8 DEF ReadForCheck
  <2>3. UNCHANGED <<payment, remote, delivered, lock>>
    BY <1>8 DEF ReadForCheck
  <2> HIDE DEF w
  <2>4. QED BY <1>7, <2>1, <2>2, <2>3
<1>9. CASE ListForReconcile(p)
  <2> DEFINE w == [work[Worker] EXCEPT !.phase = "locking", !.payment = p]
  <2>1. w \in Work /\ w.phase = "locking" /\ w.payment = p
    BY <1>1, ExternalAssumption DEF TypeOK, Work
  <2>2. work' = [work EXCEPT ![Worker] = w] /\ Reconcilable(p)
    BY <1>9 DEF ListForReconcile, Listed
  <2>3. UNCHANGED <<payment, remote, delivered, lock>>
    BY <1>9 DEF ListForReconcile
  <2> HIDE DEF w
  <2>4. QED BY <1>7, <2>1, <2>2, <2>3, ExternalAssumption
<1>10. ASSUME NEW t \in Sessions, work' = [work EXCEPT ![t] = Idle],
              \A q \in Payments : lock'[q] = lock[q] \/ lock[q] = t,
              UNCHANGED <<payment, remote, delivered>>
       PROVE  IInv'
  <2>1. Idle \in Work /\ Idle.phase = "idle"
    BY DEF Idle, Work, Answers, Statuses
  <2>2. QED BY <1>1, <1>10, <2>1, SessionIInv
<1>11. CASE LockForReconcile(p)
  <2>1. CASE payment[p].status = "pending"
    <3>1. Created(p)
      BY <1>11, ExternalAssumption DEF LockForReconcile, IInv, SessionsAreSound
    <3>2. QED BY <1>3, <1>4, <1>11, <2>1, <3>1, ExternalAssumption DEF LockForReconcile, Statuses
  <2>2. CASE payment[p].status # "pending"
    BY <1>10, <1>11, <2>2, ExternalAssumption DEF LockForReconcile
  <2>3. QED BY <2>1, <2>2
<1>12. CASE LockForCheck(s)
  <2>1. PICK q : q = work[s].payment
    OBVIOUS
  <2>2. /\ q \in Payments /\ Created(q)
        /\ work[s].view = "pending" => NotClosedSince(q)
        /\ work[s].view \in Statuses
    BY <1>1, <1>12, <2>1 DEF LockForCheck, IInv, SessionsAreSound, TypeOK, Work
  <2>3. QED BY <1>4, <1>12, <2>1, <2>2 DEF LockForCheck
<1>13. CASE Ask(s)
  <2>1. PICK q : q = work[s].payment
    OBVIOUS
  <2>2. /\ q \in Payments /\ Created(q) /\ lock[q] = s
        /\ work[s].view = "pending" => NotClosedSince(q)
    BY <1>13, <2>1 DEF Ask, IInv, SessionsAreSound
  <2>7. PICK f \in Answers : f = remote[q]
    BY <1>1, <2>2 DEF TypeOK
  <2> DEFINE w == [work[s] EXCEPT !.phase = "deciding", !.found = f]
  <2>3. /\ w \in Work /\ w.phase = "deciding" /\ w.payment = q /\ w.view = work[s].view
        /\ w.found = remote[q]
    BY <1>1, <2>1, <2>7 DEF TypeOK, Work
  <2>4. work' = [work EXCEPT ![s] = w]
    BY <1>1, <1>13, <2>1, <2>7 DEF Ask, TypeOK
  <2>5. UNCHANGED <<payment, remote, delivered, lock>>
    BY <1>13 DEF Ask
  <2> HIDE DEF w
  <2>6. QED BY <1>1, <2>2, <2>3, <2>4, <2>5, SessionIInv
<1>14. QED BY <1>5, <1>8, <1>9, <1>11, <1>12, <1>13

(* A session that decides has the row to itself; finishing frees it.        *)
LEMMA Deciders ==
  ASSUME IInv, NEW s \in Sessions, work[s].phase \in {"asking", "deciding"}, Finish(s)
  PROVE  /\ work[s].payment \in Payments /\ Created(work[s].payment)
         /\ work'[s] = Idle /\ Idle.phase = "idle"
         /\ \A t \in Sessions \ {s} :
              /\ work'[t] = work[t]
              /\ work[t].phase \in {"asking", "deciding"} => work[t].payment # work[s].payment
              /\ \A q \in Payments : lock[q] = t => lock'[q] = t
<1>1. work \in [Sessions -> Work]
  BY DEF IInv, TypeOK
<1>2. work'[s] = Idle /\ \A t \in Sessions \ {s} : work'[t] = work[t]
  BY <1>1 DEF Finish
<1>3. \A t \in Sessions \ {s}, q \in Payments : lock[q] = t => lock'[q] = t
  BY DEF Finish
<1>4. QED BY <1>2, <1>3 DEF IInv, SessionsAreSound, Idle

(* Paying a row, and granting its credits if the ledger has not taken the   *)
(* key yet.                                                                 *)
LEMMA Payout ==
  ASSUME IInv, NEW p \in Payments, payment[p].status \in {"pending", "paid"},
         payment' = Paid(p), delivered' = Granted(p)
  PROVE  /\ payment'[p].status = "paid" /\ delivered'[p] = 1
         /\ \A q \in Payments \ {p} : payment'[q] = payment[q] /\ delivered'[q] = delivered[q]
<1>1. payment \in [Payments -> Row] /\ delivered \in [Payments -> Nat]
  BY DEF IInv, TypeOK
<1>2. PICK half : half = [payment EXCEPT ![p].status = "paid"]
  OBVIOUS
<1>3. /\ half \in [Payments -> Row] /\ half[p].status = "paid"
      /\ \A q \in Payments \ {p} : half[q] = payment[q]
  BY <1>1, <1>2, StatusEdit DEF Statuses
<1>4. payment' = [half EXCEPT ![p].external_id = TRUE]
  BY <1>2 DEF Paid
<1>5. payment'[p].status = "paid" /\ \A q \in Payments \ {p} : payment'[q] = payment[q]
  BY <1>3, <1>4, FlagEdit
<1>6. \A q \in Payments \ {p} : delivered'[q] = delivered[q]
  BY <1>1 DEF Granted
<1>7. delivered[p] \in {0, 1}
  BY <1>1 DEF IInv, GrantedOnce
<1>8. delivered'[p] = 1
  BY <1>1, <1>7 DEF Granted, KeyFree
<1>9. QED BY <1>5, <1>6, <1>8

LEMMA RowSteps ==
  ASSUME IInv, [Next]_vars, NEW s \in Sessions, Decide(s)
  PROVE  IInv'
<1>1. TypeOK /\ TypeOK'
  BY TypeNext DEF IInv
<1>2. PICK p : p = work[s].payment
  OBVIOUS
<1>3. /\ work[s].phase = "deciding" /\ Finish(s) /\ UNCHANGED remote
  BY DEF Decide, SettleFound, CloseFound, StillPending
<1>4. /\ p \in Payments /\ Created(p) /\ payment[p].status # "none"
      /\ work[s].view = "pending" => NotClosedSince(p)
  BY <1>2, <1>3 DEF IInv, SessionsAreSound, CreatedFirst
<1>5. \A t \in Sessions :
        \/ work'[t].phase = "idle"
        \/ /\ work'[t] = work[t]
           /\ work[t].phase \in {"asking", "deciding"} => work[t].payment # p
           /\ \A q \in Payments : lock[q] = t => lock'[q] = t
  BY <1>2, <1>3, Deciders
<1>6. /\ work[s].found \in Closed => remote[p] = work[s].found
      /\ work[s].found = "paid" =>
           remote[p] \in {"paid", "refunded"} /\ payment[p].status # "refunded"
  BY <1>2, <1>3 DEF IInv, AnswersAreTrue
<1>7. CASE SettleFound(s)
  <2>1. payment[p].status \in {"pending", "paid"}
    BY <1>4, <1>6, <1>7 DEF SettleFound, NotClosedSince, Closed
  <2>2. payment' = Paid(p) /\ delivered' = Granted(p)
    BY <1>2, <1>7 DEF SettleFound
  <2>3. /\ payment'[p].status = "paid" /\ delivered'[p] = 1
        /\ \A q \in Payments \ {p} : payment'[q] = payment[q] /\ delivered'[q] = delivered[q]
    BY <1>4, <2>1, <2>2, Payout
  <2>4. remote[p] \in {"paid", "refunded"}
    BY <1>6, <1>7 DEF SettleFound
  <2>5. QED BY <1>1, <1>3, <1>4, <1>5, <2>3, <2>4, RowIInv DEF NotClosedSince, Closed
<1>8. CASE CloseFound(s)
  <2>1. PICK half : half = [payment EXCEPT ![p].status = work[s].found]
    OBVIOUS
  <2>2. PICK on \in BOOLEAN : on = (payment[p].external_id \/ work[s].found # "failed")
    BY <1>1, <1>4 DEF TypeOK, Row
  <2>3. work[s].found \in Closed
    BY <1>8 DEF CloseFound
  <2>4. /\ half \in [Payments -> Row] /\ half[p].status = work[s].found
        /\ half[p].external_id = payment[p].external_id
        /\ \A q \in Payments \ {p} : half[q] = payment[q]
    <3>1. payment \in [Payments -> Row]
      BY <1>1 DEF TypeOK
    <3>2. PICK st \in Statuses : st = work[s].found
      BY <2>3 DEF Statuses
    <3>3. half = [payment EXCEPT ![p].status = st]
      BY <2>1, <3>2
    <3>4. QED BY <1>4, <3>1, <3>2, <3>3, StatusEdit
  <2>5. payment' = [half EXCEPT ![p].external_id = on]
    <3>1. payment' = [half EXCEPT ![p].external_id = payment[p].external_id \/ work[s].found # "failed"]
      BY <1>2, <1>8, <2>1, <2>4 DEF CloseFound
    <3>2. QED BY <2>2, <3>1
  <2>6. /\ payment'[p].status = work[s].found
        /\ \A q \in Payments \ {p} : payment'[q] = payment[q]
    BY <1>4, <2>4, <2>5 DEF Row
  <2>7. /\ delivered' = delivered
        /\ delivered[p] <= 1
        /\ delivered[p] = 1 => remote[p] \in {"paid", "refunded"}
    BY <1>4, <1>8 DEF CloseFound, IInv, GrantedOnce, RowsAreTrue, Closed
  <2>8. /\ remote[p] = work[s].found /\ work[s].found # "paid" /\ work[s].found # "none"
        /\ delivered[p] = 1 => work[s].found = "refunded"
    BY <1>6, <2>3, <2>7 DEF Closed
  <2>9. NotClosedSince(p)'
    BY <1>3, <2>3, <2>6, <2>8 DEF NotClosedSince
  <2>10. QED
    BY <1>1, <1>3, <1>4, <1>5, <2>6, <2>7, <2>8, <2>9, RowIInv
<1>9. CASE StillPending(s)
  <2>1. payment' = [payment EXCEPT ![p].external_id = TRUE]
    BY <1>2, <1>9 DEF StillPending
  <2>2. /\ payment'[p].status = payment[p].status
        /\ \A q \in Payments \ {p} : payment'[q] = payment[q]
    BY <1>1, <1>4, <2>1 DEF TypeOK, Row
  <2>3. /\ delivered' = delivered
        /\ payment[p].status = "paid" => remote[p] \in {"paid", "refunded"}
        /\ payment[p].status \in Closed \ {"failed"} => remote[p] = payment[p].status
        /\ delivered[p] <= 1
        /\ payment[p].status = "paid" => delivered[p] = 1
        /\ delivered[p] = 1 => payment[p].status \in {"paid", "refunded"}
    BY <1>4, <1>9 DEF StillPending, IInv, RowsAreTrue, GrantedOnce
  <2>4. QED BY <1>1, <1>3, <1>4, <1>5, <2>2, <2>3, RowIInv
<1>10. QED BY <1>7, <1>8, <1>9 DEF Decide

LEMMA NextIInv == IInv /\ [Next]_vars => IInv'
<1> SUFFICES ASSUME IInv, [Next]_vars PROVE IInv'
  OBVIOUS
<1>1. TypeOK /\ TypeOK'
  BY TypeNext DEF IInv
<1>2. CASE UNCHANGED vars
  BY <1>1, <1>2 DEF vars, IInv, CreatedFirst, RowsAreTrue, SessionsAreSound, AnswersAreTrue,
                    GrantedOnce, Created, NotClosedSince
<1>3. ASSUME NEW p \in Payments, SignedWebhook(p) PROVE IInv'
  <2>1. payment[p].status = "pending" /\ payment' = Paid(p) /\ delivered' = Granted(p)
    BY <1>3 DEF SignedWebhook
  <2>2. /\ payment'[p].status = "paid" /\ delivered'[p] = 1
        /\ \A q \in Payments \ {p} : payment'[q] = payment[q] /\ delivered'[q] = delivered[q]
    BY <2>1, Payout
  <2>3. /\ remote[p] = "paid" /\ lock[p] = NoSession /\ UNCHANGED <<remote, lock, work>>
    BY <1>3 DEF SignedWebhook
  <2>4. \A t \in Sessions : work[t].phase \in {"asking", "deciding"} => work[t].payment # p
    BY <2>3, ExternalAssumption DEF IInv, SessionsAreSound
  <2>5. QED BY <1>1, <2>2, <2>3, <2>4, RowIInv DEF NotClosedSince, Created, Closed
<1>4. ASSUME NEW s \in Sessions, Abort(s) PROVE IInv'
  <2>1. Idle \in Work /\ Idle.phase = "idle"
    BY DEF Idle, Work, Answers, Statuses
  <2>2. QED BY <1>1, <1>4, <2>1, SessionIInv DEF Abort, Finish, TypeOK
<1>5. ASSUME NEW p \in Payments, RemotePaid(p) \/ RemoteEnded(p) \/ RemoteRefunded(p) PROVE IInv'
  BY <1>5, RemoteSteps
<1>6. ASSUME NEW p \in Payments,
             OpenOrder(p) \/ OrderAccepted(p) \/ OrderRefused(p) \/ OrderAmbiguous(p)
      PROVE  IInv'
  BY <1>6, OrderSteps
<1>7. ASSUME NEW p \in Payments, ListForReconcile(p) \/ LockForReconcile(p) PROVE IInv'
  BY <1>7, SessionSteps, ExternalAssumption
<1>8. ASSUME NEW s \in Sessions, NEW p \in Payments, BeginWebhook(s, p) \/ ReadForCheck(s, p)
      PROVE  IInv'
  BY <1>8, SessionSteps
<1>9. ASSUME NEW s \in Sessions, LockForCheck(s) \/ Ask(s) PROVE IInv'
  <2>1. work[s].payment \in Payments
    BY <1>9 DEF LockForCheck, Ask, IInv, SessionsAreSound
  <2>2. QED BY <1>9, <2>1, SessionSteps
<1>10. ASSUME NEW s \in Sessions, Decide(s) PROVE IInv'
  BY <1>10, RowSteps
<1>11. QED
  BY <1>2, <1>3, <1>4, <1>5, <1>6, <1>7, <1>8, <1>9, <1>10 DEF Next

LEMMA InitIInv == Init => IInv
<1> SUFFICES ASSUME Init PROVE IInv
  OBVIOUS
<1>1. TypeOK
  BY DEF Init, TypeOK, Row, Work, Idle, Statuses, Answers
<1>2. QED
  BY <1>1 DEF Init, IInv, CreatedFirst, RowsAreTrue, SessionsAreSound, AnswersAreTrue, GrantedOnce,
              Created, Idle, Closed

LEMMA SpecIInv == Spec => []IInv
BY InitIInv, NextIInv, PTL DEF Spec

-----------------------------------------------------------------------------
(* Rows, provider states, locks and sessions keep their types.              *)
THEOREM TypeCorrect == Spec => []TypeOK
BY SpecIInv, PTL DEF IInv

(* Webhook, task and check button together grant the credits of a payment   *)
(* at most once, and exactly when it is marked paid.                        *)
THEOREM CreditsGrantedOnce == Spec => []GrantedOnce
BY SpecIInv, PTL DEF IInv

(* A row that is not the one a step writes keeps its status, and a closed   *)
(* row is only closed again.                                                *)
LEMMA StaysClosed ==
  ASSUME IInv, [Next]_vars, NEW p \in Payments, payment[p].status \in Closed
  PROVE  payment'[p].status \in Closed
<1>1. /\ payment \in [Payments -> Row] /\ payment' \in [Payments -> Row]
      /\ IInv' /\ payment[p].status \notin {"none", "pending", "paid"}
  BY TypeNext, NextIInv DEF IInv, TypeOK, Closed
<1>2. ASSUME payment' = payment PROVE payment'[p].status \in Closed
  BY <1>2
<1>3. ASSUME NEW q \in Payments, OpenOrder(q) \/ OrderAccepted(q) \/ SignedWebhook(q)
      PROVE  payment'[p].status \in Closed
  <2>1. p # q
    BY <1>1, <1>3 DEF OpenOrder, OrderAccepted, SignedWebhook
  <2>2. payment'[p] = payment[p]
    BY <1>1, <1>3, <2>1 DEF OpenOrder, OrderAccepted, SignedWebhook, Paid
  <2>3. QED BY <2>2
<1>4. ASSUME NEW q \in Payments, OrderRefused(q) PROVE payment'[p].status \in Closed
  BY <1>1, <1>4, StatusEdit DEF OrderRefused, Statuses, Closed
<1>5. ASSUME NEW s \in Sessions, Decide(s) PROVE payment'[p].status \in Closed
  <2>1. PICK q : q = work[s].payment
    OBVIOUS
  <2>2. /\ q \in Payments /\ work[s].view = "pending" => NotClosedSince(q)
        /\ work[s].found = "paid" => remote[q] \in {"paid", "refunded"} /\ payment[q].status # "refunded"
    BY <1>5, <2>1 DEF Decide, SettleFound, CloseFound, StillPending, IInv, SessionsAreSound,
                      AnswersAreTrue
  <2>3. CASE p # q
    BY <1>1, <1>5, <2>1, <2>2, <2>3 DEF Decide, SettleFound, CloseFound, StillPending, Paid
  <2>4. CASE p = q /\ SettleFound(s)
    BY <2>2, <2>4 DEF SettleFound, NotClosedSince, Closed
  <2>5. CASE p = q /\ CloseFound(s)
    <3>1. payment'[p].status = work[s].found
      BY <1>1, <2>1, <2>2, <2>5 DEF CloseFound, Row
    <3>2. QED BY <2>5, <3>1 DEF CloseFound
  <2>6. CASE p = q /\ StillPending(s)
    <3>1. payment'[p].status = payment[p].status
      BY <1>1, <2>1, <2>2, <2>6 DEF StillPending, Row
    <3>2. QED BY <3>1
  <2>7. QED BY <1>5, <2>3, <2>4, <2>5, <2>6 DEF Decide
<1>6. CASE payment' = payment
  BY <1>2, <1>6
<1>7. QED
  BY <1>3, <1>4, <1>5, <1>6 DEF Next, vars, OrderAmbiguous, RemotePaid, RemoteEnded, RemoteRefunded,
     ListForReconcile, LockForReconcile, BeginWebhook, ReadForCheck, LockForCheck, Ask, Abort

(* No handler, however stale its view, settles an order that was closed.    *)
THEOREM ClosedStaysClosed == Spec => ClosedIsNeverPaid
<1>1. IInv /\ [Next]_vars =>
        [\A p \in Payments : payment[p].status \in Closed => payment'[p].status \in Closed]_vars
  BY StaysClosed
<1>2. QED BY <1>1, SpecIInv, PTL DEF Spec, ClosedIsNeverPaid

-----------------------------------------------------------------------------
(* What the buyer sees of a state.                                          *)
orders == [p \in Payments |-> OrderOf(payment[p].status)]
moneys == [p \in Payments |-> remote[p] \in {"paid", "refunded"}]

LEMMA PromiseStutters ==
  ASSUME \A p \in Payments : OrderOf(payment[p].status)' = OrderOf(payment[p].status),
         \A p \in Payments : remote'[p] \in {"paid", "refunded"} <=> remote[p] \in {"paid", "refunded"},
         UNCHANGED delivered
  PROVE  [Buyer!PromiseNext]_(Buyer!promise)
<1>1. orders' = orders
  BY DEF orders
<1>2. moneys' = moneys
  BY DEF moneys
<1>3. QED BY <1>1, <1>2 DEF Buyer!promise, orders, moneys

(* A step that moves one order and nothing else the buyer sees.             *)
LEMMA PromiseMoves ==
  ASSUME IInv, NEW p \in Payments, NEW st \in Statuses, payment'[p].status = st,
         \A q \in Payments \ {p} : payment'[q] = payment[q],
         \A q \in Payments : remote'[q] \in {"paid", "refunded"} <=> remote[q] \in {"paid", "refunded"},
         UNCHANGED delivered,
         \/ payment[p].status = "none" /\ st = "pending"
         \/ payment[p].status \notin {"none", "paid", "refunded"} /\ st \in Closed \ {"refunded"}
         \/ payment[p].status # "none" /\ st = "refunded" /\ remote[p] \in {"paid", "refunded"}
  PROVE  [Buyer!PromiseNext]_(Buyer!promise)
<1>1. orders' = [orders EXCEPT ![p] = OrderOf(st)] /\ orders[p] = OrderOf(payment[p].status)
  BY DEF orders
<1>2. moneys' = moneys /\ delivered' = delivered
  BY DEF moneys
<1>3. payment[p].status \in Statuses
  BY DEF IInv, TypeOK, Row
<1>4. CASE OrderOf(st) = OrderOf(payment[p].status)
  BY <1>1, <1>2, <1>4 DEF Buyer!promise, orders, moneys
<1>5. CASE payment[p].status = "none" /\ st = "pending"
  <2>1. orders[p] = "none" /\ OrderOf(st) = "open"
    BY <1>1, <1>5 DEF OrderOf
  <2>2. Buyer!Place(p)
    BY <1>1, <1>2, <2>1 DEF Buyer!Place, orders, moneys
  <2>3. QED BY <2>2 DEF Buyer!PromiseNext
<1>6. CASE payment[p].status = "pending" /\ st \in Closed \ {"refunded"}
  <2>1. orders[p] = "open" /\ OrderOf(st) = "closed"
    BY <1>1, <1>6 DEF OrderOf, Closed
  <2>2. Buyer!Close(p)
    BY <1>1, <1>2, <2>1 DEF Buyer!Close, orders, moneys
  <2>3. QED BY <2>2 DEF Buyer!PromiseNext
<1>7. CASE payment[p].status \in Closed \ {"refunded"} /\ st \in Closed \ {"refunded"}
  BY <1>4, <1>7 DEF OrderOf, Closed
<1>8. CASE payment[p].status # "none" /\ st = "refunded" /\ remote[p] \in {"paid", "refunded"}
  <2>1. orders[p] \in {"open", "closed", "paid", "refunded"} /\ OrderOf(st) = "refunded" /\ moneys[p]
    BY <1>1, <1>3, <1>8 DEF OrderOf, Statuses, moneys
  <2>2. CASE orders[p] = "refunded"
    BY <1>1, <1>4, <2>1, <2>2
  <2>3. CASE orders[p] # "refunded"
    <3>1. Buyer!Refund(p)
      BY <1>1, <1>2, <2>1, <2>3 DEF Buyer!Refund, orders, moneys
    <3>2. QED BY <3>1 DEF Buyer!PromiseNext
  <2>4. QED BY <2>2, <2>3
<1>9. QED BY <1>3, <1>5, <1>6, <1>7, <1>8 DEF Statuses

(* A settlement delivers for the provider's money, or repeats one.          *)
LEMMA PromiseDelivers ==
  ASSUME IInv, NEW p \in Payments, payment[p].status \in {"pending", "paid"},
         payment' = Paid(p), delivered' = Granted(p), remote[p] \in {"paid", "refunded"},
         UNCHANGED remote
  PROVE  [Buyer!PromiseNext]_(Buyer!promise)
<1>1. /\ payment'[p].status = "paid" /\ delivered'[p] = 1
      /\ \A q \in Payments \ {p} : payment'[q] = payment[q] /\ delivered'[q] = delivered[q]
  BY Payout
<1>2. delivered \in [Payments -> Nat] /\ moneys' = moneys /\ moneys[p]
  BY DEF IInv, TypeOK, moneys
<1>3. orders' = [orders EXCEPT ![p] = "paid"] /\ orders[p] = OrderOf(payment[p].status)
  BY <1>1 DEF orders, OrderOf
<1>4. CASE payment[p].status = "pending"
  <2>1. orders[p] = "open"
    BY <1>3, <1>4 DEF OrderOf
  <2>2. delivered[p] = 0
    BY <1>2, <1>4 DEF IInv, GrantedOnce
  <2>3. delivered' = [delivered EXCEPT ![p] = 1]
    BY <1>2, <2>2 DEF Granted, KeyFree
  <2>4. Buyer!Deliver(p)
    BY <1>2, <1>3, <2>1, <2>2, <2>3 DEF Buyer!Deliver, orders, moneys
  <2>5. QED BY <2>4 DEF Buyer!PromiseNext
<1>5. CASE payment[p].status = "paid"
  <2>1. delivered[p] = 1
    BY <1>5 DEF IInv, GrantedOnce
  <2>2. delivered' = delivered
    BY <1>2, <2>1 DEF Granted, KeyFree
  <2>3. \A q \in Payments : payment'[q].status = payment[q].status
    BY <1>1, <1>5
  <2>4. QED BY <2>2, <2>3, PromiseStutters
<1>6. QED BY <1>4, <1>5

LEMMA PromiseStep == IInv /\ [Next]_vars => [Buyer!PromiseNext]_(Buyer!promise)
<1> SUFFICES ASSUME IInv, [Next]_vars PROVE [Buyer!PromiseNext]_(Buyer!promise)
  OBVIOUS
<1>1. payment \in [Payments -> Row] /\ remote \in [Payments -> Answers]
  BY DEF IInv, TypeOK
<1>2. CASE UNCHANGED <<payment, remote, delivered>>
  BY <1>2, PromiseStutters
<1>3. ASSUME NEW p \in Payments, OrderAmbiguous(p) \/ RemoteEnded(p) \/ RemoteRefunded(p)
      PROVE  [Buyer!PromiseNext]_(Buyer!promise)
  BY <1>1, <1>3, PromiseStutters DEF OrderAmbiguous, Created, RemoteEnded, Endings, RemoteRefunded
<1>4. ASSUME NEW p \in Payments, OrderAccepted(p) PROVE [Buyer!PromiseNext]_(Buyer!promise)
  <2>1. PICK told \in BOOLEAN : told = (payment[p].provider # "yoomoney")
    OBVIOUS
  <2>2. PICK known : known = [payment EXCEPT ![p].external_id = told]
    OBVIOUS
  <2>3. known \in [Payments -> Row] /\ \A q \in Payments : known[q].status = payment[q].status
    BY <1>1, <2>2 DEF Row
  <2>4. payment' = [known EXCEPT ![p].checkout_url = TRUE]
    BY <1>4, <2>1, <2>2 DEF OrderAccepted
  <2>5. \A q \in Payments : payment'[q].status = payment[q].status
    BY <2>3, <2>4 DEF Row
  <2>6. QED BY <1>1, <1>4, <2>5, PromiseStutters DEF OrderAccepted, Created
<1>5. ASSUME NEW p \in Payments, OpenOrder(p) PROVE [Buyer!PromiseNext]_(Buyer!promise)
  <2>1. PICK opened : opened = [payment EXCEPT ![p].status = "pending"]
    OBVIOUS
  <2>2. /\ opened \in [Payments -> Row] /\ opened[p].status = "pending"
        /\ \A q \in Payments \ {p} : opened[q] = payment[q]
    BY <1>1, <2>1, StatusEdit DEF Statuses
  <2>3. PICK to \in Polled \cup Signed : payment' = [opened EXCEPT ![p].provider = to]
    BY <1>5, <2>1, ExternalAssumption DEF OpenOrder
  <2>4. payment'[p].status = "pending" /\ \A q \in Payments \ {p} : payment'[q] = payment[q]
    BY <2>2, <2>3, ProviderEdit
  <2>5. QED BY <1>5, <2>4, PromiseMoves DEF OpenOrder, Statuses
<1>6. ASSUME NEW p \in Payments, OrderRefused(p) PROVE [Buyer!PromiseNext]_(Buyer!promise)
  <2>1. payment'[p].status = "failed" /\ \A q \in Payments \ {p} : payment'[q] = payment[q]
    BY <1>1, <1>6, StatusEdit DEF OrderRefused, Statuses, Closed
  <2>2. \A q \in Payments : remote'[q] \in {"paid", "refunded"} <=> remote[q] \in {"paid", "refunded"}
    BY <1>1, <1>6 DEF OrderRefused, Created
  <2>3. QED BY <1>6, <2>1, <2>2, PromiseMoves DEF OrderRefused, Statuses, Closed
<1>7. ASSUME NEW p \in Payments, RemotePaid(p) PROVE [Buyer!PromiseNext]_(Buyer!promise)
  <2>1. moneys' = [moneys EXCEPT ![p] = TRUE]
    BY <1>1, <1>7 DEF RemotePaid, moneys
  <2>2. orders' = orders /\ delivered' = delivered
    BY <1>7 DEF RemotePaid, orders
  <2>3. payment[p].status \in Statuses \ {"none"}
    BY <1>1, <1>7 DEF RemotePaid, IInv, CreatedFirst, Created, Row
  <2>4. orders[p] # "none"
    BY <2>3 DEF orders, OrderOf
  <2>5. Buyer!Pay(p)
    BY <2>1, <2>2, <2>4 DEF Buyer!Pay, orders, moneys
  <2>6. QED BY <2>5 DEF Buyer!PromiseNext
<1>8. ASSUME NEW p \in Payments, SignedWebhook(p) PROVE [Buyer!PromiseNext]_(Buyer!promise)
  BY <1>8, PromiseDelivers DEF SignedWebhook
<1>9. ASSUME NEW s \in Sessions, Decide(s) PROVE [Buyer!PromiseNext]_(Buyer!promise)
  <2>1. PICK p : p = work[s].payment
    OBVIOUS
  <2>2. /\ p \in Payments /\ payment[p].status # "none"
        /\ work[s].view = "pending" => NotClosedSince(p)
        /\ work[s].found \in Closed => remote[p] = work[s].found
        /\ work[s].found = "paid" => remote[p] \in {"paid", "refunded"} /\ payment[p].status # "refunded"
    BY <1>9, <2>1 DEF Decide, SettleFound, CloseFound, StillPending, IInv, SessionsAreSound,
                      AnswersAreTrue, CreatedFirst
  <2>3. CASE SettleFound(s)
    <3>1. payment[p].status \in {"pending", "paid"} /\ remote[p] \in {"paid", "refunded"}
      BY <2>2, <2>3 DEF SettleFound, NotClosedSince, Closed
    <3>2. QED BY <2>1, <2>2, <2>3, <3>1, PromiseDelivers DEF SettleFound
  <2>4. CASE CloseFound(s)
    <3>1. PICK st \in Closed : st = work[s].found
      BY <2>4 DEF CloseFound
    <3>2. PICK half : half = [payment EXCEPT ![p].status = st]
      OBVIOUS
    <3>3. /\ half \in [Payments -> Row] /\ half[p].status = st
          /\ half[p].external_id = payment[p].external_id
          /\ \A q \in Payments \ {p} : half[q] = payment[q]
      BY <1>1, <2>2, <3>2, StatusEdit DEF Statuses
    <3>4. PICK on \in BOOLEAN : on = (payment[p].external_id \/ st # "failed")
      BY <1>1, <2>2 DEF Row
    <3>5. payment' = [half EXCEPT ![p].external_id = payment[p].external_id \/ st # "failed"]
      BY <2>1, <2>4, <3>1, <3>2, <3>3 DEF CloseFound
    <3>6. payment' = [half EXCEPT ![p].external_id = on]
      BY <3>4, <3>5
    <3>7. payment'[p].status = st /\ \A q \in Payments \ {p} : payment'[q] = payment[q]
      BY <2>2, <3>3, <3>6 DEF Row
    <3>8. UNCHANGED <<remote, delivered>>
      BY <2>4 DEF CloseFound
    <3>9. /\ remote[p] = st
          /\ payment[p].status \in {"paid", "refunded"} => remote[p] \in {"paid", "refunded"}
      BY <2>2, <3>1 DEF IInv, RowsAreTrue, Closed
    <3>10. st # "refunded" => payment[p].status \notin {"none", "paid", "refunded"}
      BY <2>2, <3>9 DEF Closed
    <3>11. st \in Statuses
      BY DEF Statuses
    <3>12. QED BY <2>2, <3>7, <3>8, <3>9, <3>10, <3>11, PromiseMoves
  <2>5. CASE StillPending(s)
    <3>1. payment' = [payment EXCEPT ![p].external_id = TRUE]
      BY <2>1, <2>5 DEF StillPending
    <3>2. \A q \in Payments : payment'[q].status = payment[q].status
      BY <1>1, <2>2, <3>1 DEF Row
    <3>3. QED BY <2>5, <3>2, PromiseStutters DEF StillPending
  <2>6. QED BY <1>9, <2>3, <2>4, <2>5 DEF Decide
<1>10. QED
  BY <1>2, <1>3, <1>4, <1>5, <1>6, <1>7, <1>8, <1>9 DEF Next, vars, ListForReconcile,
     LockForReconcile, BeginWebhook, ReadForCheck, LockForCheck, Ask, Abort

(* Whatever the providers, the buyer is promised what PaymentPromise says.  *)
THEOREM ExternalKeepsPromise == Spec => KeepsPromise
<1>1. Init => Buyer!PromiseInit
  <2> SUFFICES ASSUME Init PROVE Buyer!PromiseInit
    OBVIOUS
  <2>1. orders = [p \in Payments |-> "none"]
    BY DEF Init, orders, OrderOf
  <2>2. \A p \in Payments : (remote[p] \in {"paid", "refunded"}) = FALSE
    BY DEF Init
  <2>3. moneys = [p \in Payments |-> FALSE]
    BY <2>2, Zenon DEF moneys
  <2>4. QED BY <2>1, <2>3 DEF Init, Buyer!PromiseInit, orders, moneys
<1>2. IInv /\ [Next]_vars => [Buyer!PromiseNext]_(Buyer!promise)
  BY PromiseStep
<1>3. QED BY <1>1, <1>2, SpecIInv, PTL DEF Spec, KeepsPromise, Buyer!Promise
=============================================================================
