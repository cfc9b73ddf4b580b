------------------------- MODULE PromoCheckoutProofs ------------------------
(* The limits of a code hold for any users, codes and sessions, and a        *)
(* discount is spent once.  A claim counts the activations under the lock of *)
(* the code and inserts its own at the commit: between the two nobody else   *)
(* inserts one of that code, because inserting needs the same lock.          *)
EXTENDS PromoCheckout, FiniteSetTheorems, TLAPS

\* A row without a code was never written; ids beyond the sequence are free.
RowsAreFilled ==
  \A i \in Ids :
    /\ activation[i].status = "none" => activation[i] = NoRow
    /\ activation[i].code = NoCode => activation[i] = NoRow
    /\ i > last_id => activation[i] = NoRow

\* What a session that has not committed knows and holds.
ClaimIsSound(s) ==
  LET w == work[s] IN
  /\ w.user \in Users /\ w.code \in Codes
  /\ w.id \in Ids /\ w.id <= last_id /\ activation[w.id] = NoRow
  /\ user_lock[w.user] = s /\ code_lock[w.code] = s
  /\ w.expiring \subseteq Claimed(w.user)
  /\ Cardinality(OfCode(w.code)) < Limit[w.code]
  /\ Cardinality(OfCodeAndUser(w.code, w.user)) < UserLimit[w.code]

ClaimsAreSound == \A s \in Sessions : work[s] # Idle => ClaimIsSound(s)

IdsAreDistinct ==
  \A s, t \in Sessions : work[s] # Idle /\ work[t] # Idle /\ s # t => work[s].id # work[t].id

IInv ==
  /\ TypeOK /\ RowsAreFilled /\ ClaimsAreSound /\ IdsAreDistinct /\ LimitsKept
  /\ ActivationsAreOwned /\ OrdersAreBacked

-----------------------------------------------------------------------------
LEMMA CodeSetsFinite ==
  ASSUME NEW c, NEW u
  PROVE  IsFiniteSet(OfCode(c)) /\ IsFiniteSet(OfCodeAndUser(c, u))
<1>1. IsFiniteSet(Ids)
  BY FS_Interval, PromoAssumption DEF Ids
<1>2. OfCode(c) \subseteq Ids /\ OfCodeAndUser(c, u) \subseteq Ids
  BY DEF OfCode, OfCodeAndUser
<1>3. QED BY <1>1, <1>2, FS_Subset

(* A step that leaves codes and users of all rows alone leaves the counts.  *)
LEMMA CountsStay ==
  ASSUME \A i \in Ids : activation'[i].code = activation[i].code
                        /\ activation'[i].user = activation[i].user
  PROVE  \A c, u : OfCode(c)' = OfCode(c) /\ OfCodeAndUser(c, u)' = OfCodeAndUser(c, u)
BY DEF OfCode, OfCodeAndUser

(* An order moves at most one activation, which no claim is expiring, and   *)
(* the sessions stay as they are.                                           *)
LEMMA OrderIInv ==
  ASSUME IInv, TypeOK', UNCHANGED <<last_id, user_lock, code_lock, work>>,
         \A i \in Ids : /\ activation'[i].code = activation[i].code
                        /\ activation'[i].user = activation[i].user
                        /\ activation[i] = NoRow => activation'[i] = NoRow
                        /\ activation'[i].status = "none" => activation[i].status = "none",
         \A i \in Ids : activation[i].status = "claimed" /\ activation'[i].status # "claimed" =>
                          user_lock[activation[i].user] = NoSession,
         ActivationsAreOwned', OrdersAreBacked'
  PROVE  IInv'
<1>1. \A c, u : OfCode(c)' = OfCode(c) /\ OfCodeAndUser(c, u)' = OfCodeAndUser(c, u)
  BY CountsStay
<1>2. LimitsKept'
  BY <1>1 DEF IInv, LimitsKept
<1>3. RowsAreFilled'
  BY DEF IInv, RowsAreFilled
<1>4. ClaimsAreSound'
  <2> SUFFICES ASSUME NEW s \in Sessions, work[s] # Idle PROVE ClaimIsSound(s)'
    BY DEF ClaimsAreSound
  <2>1. ClaimIsSound(s)
    BY DEF IInv, ClaimsAreSound
  <2>2. work[s].expiring \subseteq Claimed(work[s].user)'
    BY <2>1, PromoAssumption DEF ClaimIsSound, Claimed
  <2>3. QED BY <1>1, <2>1, <2>2 DEF ClaimIsSound
<1>5. IdsAreDistinct'
  BY DEF IInv, IdsAreDistinct
<1>6. QED BY <1>2, <1>3, <1>4, <1>5 DEF IInv

(* A session that begins or ends and writes no activation.                  *)
LEMMA EndsSound ==
  ASSUME IInv, NEW s \in Sessions, work[s] # Idle, EndClaim(s), TypeOK',
         ClaimIsSound(s),
         \A t \in Sessions \ {s} : work[t] # Idle => ClaimIsSound(t)'
  PROVE  ClaimsAreSound' /\ IdsAreDistinct'
<1>1. work'[s] = Idle /\ \A t \in Sessions \ {s} : work'[t] = work[t]
  BY DEF EndClaim, IInv, TypeOK
<1>2. QED BY <1>1 DEF ClaimsAreSound, IInv, IdsAreDistinct

(* Orders that are pending or paid and activations that are theirs stay as  *)
(* they are, or an activation becomes a new order's.                        *)
LEMMA OwnedStays ==
  ASSUME IInv,
         \A q \in Payments : payment[q].status \in {"pending", "paid"} => payment'[q] = payment[q],
         \A i \in Ids :
           \/ activation'[i] = activation[i]
           \/ activation'[i].status \notin {"reserved", "consumed"}
           \/ activation'[i].status = "consumed" /\ activation'[i].payment = NoPayment
           \/ /\ activation'[i].status = "reserved" /\ activation'[i].payment \in Payments
              /\ payment'[activation'[i].payment].status = "pending"
              /\ payment'[activation'[i].payment].promo = i
  PROVE  ActivationsAreOwned'
<1> SUFFICES ASSUME NEW i \in Ids, activation'[i] = activation[i]
             PROVE  /\ activation[i].status = "reserved" =>
                         /\ activation[i].payment \in Payments
                         /\ payment'[activation[i].payment].status = "pending"
                         /\ payment'[activation[i].payment].promo = i
                    /\ activation[i].status = "consumed" /\ activation[i].payment # NoPayment =>
                         /\ payment'[activation[i].payment].status = "paid"
                         /\ payment'[activation[i].payment].promo = i
  BY DEF ActivationsAreOwned
<1>1. activation[i].payment \in Payments \cup {NoPayment}
  BY DEF IInv, TypeOK, Row
<1>2. QED BY <1>1 DEF IInv, ActivationsAreOwned

-----------------------------------------------------------------------------
LEMMA BeginStep ==
  ASSUME IInv, TypeOK', NEW s \in Sessions, NEW u \in Users, NEW c \in Codes, BeginClaim(s, u, c)
  PROVE  IInv'
<1>1. UNCHANGED <<activation, payment>> /\ last_id' = last_id + 1 /\ last_id \in Nat
  BY PromoAssumption DEF BeginClaim, IInv, TypeOK
<1>2. RowsAreFilled'
  BY <1>1 DEF IInv, RowsAreFilled, Ids
<1>3. LimitsKept' /\ ActivationsAreOwned' /\ OrdersAreBacked'
  BY <1>1 DEF IInv, LimitsKept, ActivationsAreOwned, OrdersAreBacked, OfCode, OfCodeAndUser
<1>4. \A t \in Sessions \ {s} : work'[t] = work[t]
  BY DEF BeginClaim, IInv, TypeOK
<1>5. PICK w : w = [user |-> u, code |-> c, id |-> last_id + 1, expiring |-> Claimed(u)]
  OBVIOUS
<1>6. work'[s] = w /\ w.user = u /\ w.code = c /\ w.id = last_id + 1 /\ w.expiring = Claimed(u)
  BY <1>5 DEF BeginClaim, IInv, TypeOK
<1>7. /\ user_lock'[u] = s /\ \A v \in Users \ {u} : user_lock'[v] = user_lock[v]
      /\ code_lock'[c] = s /\ \A d \in Codes \ {c} : code_lock'[d] = code_lock[d]
      /\ user_lock[u] = NoSession /\ code_lock[c] = NoSession
  BY DEF BeginClaim, IInv, TypeOK
<1>8. \A d, v : /\ OfCode(d)' = OfCode(d) /\ OfCodeAndUser(d, v)' = OfCodeAndUser(d, v)
                /\ Claimed(v)' = Claimed(v)
  BY <1>1 DEF OfCode, OfCodeAndUser, Claimed
<1>9. ClaimIsSound(s)'
  <2>1. w.id \in Ids /\ activation[w.id] = NoRow
    BY <1>1, <1>6, PromoAssumption DEF BeginClaim, IInv, TypeOK, RowsAreFilled, Ids
  <2>2. Cardinality(OfCode(c)) < Limit[c] /\ Cardinality(OfCodeAndUser(c, u)) < UserLimit[c]
    BY DEF BeginClaim
  <2>3. QED BY <1>1, <1>6, <1>7, <1>8, <2>1, <2>2 DEF ClaimIsSound
<1>10. ASSUME NEW t \in Sessions \ {s}, work[t] # Idle
       PROVE  ClaimIsSound(t)' /\ work[t].id # w.id
  <2>1. ClaimIsSound(t)
    BY <1>10 DEF IInv, ClaimsAreSound
  <2>2. work[t].user # u /\ work[t].code # c
    BY <1>7, <2>1, PromoAssumption DEF ClaimIsSound
  <2>3. user_lock'[work[t].user] = t /\ code_lock'[work[t].code] = t
    BY <1>7, <2>1, <2>2 DEF ClaimIsSound
  <2>4. work[t].id <= last_id' /\ work[t].id # w.id
    BY <1>1, <1>6, <2>1 DEF ClaimIsSound, Ids
  <2>5. QED BY <1>1, <1>4, <1>8, <2>1, <2>3, <2>4 DEF ClaimIsSound
<1>11. ClaimsAreSound' /\ IdsAreDistinct'
  BY <1>4, <1>6, <1>9, <1>10 DEF ClaimsAreSound, IdsAreDistinct, IInv
<1>12. QED BY <1>2, <1>3, <1>11 DEF IInv

LEMMA LocksStay ==
  ASSUME IInv, NEW s \in Sessions, EndClaim(s), NEW t \in Sessions \ {s}, ClaimIsSound(t)
  PROVE  user_lock'[work[t].user] = t /\ code_lock'[work[t].code] = t /\ work'[t] = work[t]
BY DEF EndClaim, ClaimIsSound, IInv, TypeOK

LEMMA RollbackStep ==
  ASSUME IInv, TypeOK', NEW s \in Sessions, RollbackClaim(s)
  PROVE  IInv'
<1>1. UNCHANGED <<activation, payment, last_id>> /\ EndClaim(s) /\ work[s] # Idle
  BY DEF RollbackClaim, EndClaim
<1>2. RowsAreFilled' /\ LimitsKept' /\ ActivationsAreOwned' /\ OrdersAreBacked'
  BY <1>1 DEF IInv, LimitsKept, RowsAreFilled, ActivationsAreOwned, OrdersAreBacked, OfCode, OfCodeAndUser
<1>3. \A d, v : /\ OfCode(d)' = OfCode(d) /\ OfCodeAndUser(d, v)' = OfCodeAndUser(d, v)
                /\ Claimed(v)' = Claimed(v)
  BY <1>1 DEF OfCode, OfCodeAndUser, Claimed
<1>4. ASSUME NEW t \in Sessions \ {s}, work[t] # Idle PROVE ClaimIsSound(t)'
  <2>1. ClaimIsSound(t)
    BY <1>4 DEF IInv, ClaimsAreSound
  <2>2. QED BY <1>1, <1>3, <2>1, LocksStay DEF ClaimIsSound
<1>5. ClaimsAreSound' /\ IdsAreDistinct'
  BY <1>1, <1>4, EndsSound DEF IInv, ClaimsAreSound
<1>6. QED BY <1>2, <1>5 DEF IInv

(* The commit adds one activation of one code to one user, whose locks the  *)
(* session still holds; claims of other sessions count other codes.         *)
LEMMA CommitStep ==
  ASSUME IInv, TypeOK', NEW s \in Sessions, CommitClaim(s)
  PROVE  IInv'
<1>1. /\ UNCHANGED <<last_id, usable, payment>> /\ EndClaim(s) /\ work[s] # Idle
      /\ ClaimIsSound(s)
  BY DEF CommitClaim, EndClaim, IInv, ClaimsAreSound
<1>2. PICK w \in Claiming : w = work[s]
  BY DEF IInv, TypeOK
<1>3. /\ w.user \in Users /\ w.code \in Codes /\ w.id \in Ids /\ w.id <= last_id
      /\ activation[w.id] = NoRow /\ w.expiring \subseteq Claimed(w.user)
      /\ user_lock[w.user] = s /\ code_lock[w.code] = s
      /\ Cardinality(OfCode(w.code)) < Limit[w.code]
      /\ Cardinality(OfCodeAndUser(w.code, w.user)) < UserLimit[w.code]
  BY <1>1, <1>2 DEF ClaimIsSound
<1>5. w.id \notin w.expiring
  BY <1>3 DEF Claimed, NoRow
<1>4. /\ activation'[w.id].user = w.user /\ activation'[w.id].code = w.code
      /\ activation'[w.id].status \in {"consumed", "claimed"}
  <2>1. activation'[w.id] = [status |-> IF w.code \in Instant THEN "consumed" ELSE "claimed",
                             user |-> w.user, code |-> w.code, payment |-> NoPayment]
    BY <1>2, <1>3, <1>5 DEF CommitClaim
  <2>2. QED BY <2>1
<1>6. \A i \in Ids \ {w.id} :
        /\ activation'[i] = IF i \in w.expiring THEN [activation[i] EXCEPT !.status = "expired"]
                            ELSE activation[i]
        /\ activation'[i].code = activation[i].code
        /\ activation'[i].user = activation[i].user
        /\ activation[i].status # "claimed" => activation'[i] = activation[i]
        /\ activation'[i].status = IF i \in w.expiring THEN "expired" ELSE activation[i].status
  <2> SUFFICES ASSUME NEW i \in Ids \ {w.id}
      PROVE /\ activation'[i] = IF i \in w.expiring THEN [activation[i] EXCEPT !.status = "expired"]
                            ELSE activation[i]
            /\ activation'[i].code = activation[i].code
            /\ activation'[i].user = activation[i].user
            /\ activation[i].status # "claimed" => activation'[i] = activation[i]
            /\ activation'[i].status = IF i \in w.expiring THEN "expired" ELSE activation[i].status
    OBVIOUS
  <2>1. activation'[i] = IF i \in w.expiring THEN [activation[i] EXCEPT !.status = "expired"]
                         ELSE activation[i]
    BY <1>2 DEF CommitClaim
  <2>2. activation[i] \in Row
    BY DEF IInv, TypeOK
  <2>3. CASE i \in w.expiring
    BY <1>3, <2>1, <2>2, <2>3 DEF Row, Claimed
  <2>4. CASE i \notin w.expiring
    BY <2>1, <2>4
  <2>5. QED BY <2>3, <2>4
<1>7. /\ work'[s] = Idle /\ \A t \in Sessions \ {s} : work'[t] = work[t]
  BY <1>1 DEF EndClaim, IInv, TypeOK
<1>8. RowsAreFilled'
  <2>1. ASSUME NEW i \in Ids \ {w.id}
        PROVE  /\ activation'[i].status = "none" => activation'[i] = NoRow
               /\ activation'[i].code = NoCode => activation'[i] = NoRow
               /\ i > last_id => activation'[i] = NoRow
    <3>1. /\ activation[i].status = "none" => activation[i] = NoRow
          /\ activation[i].code = NoCode => activation[i] = NoRow
          /\ i > last_id => activation[i] = NoRow
      BY DEF IInv, RowsAreFilled
    <3>2. CASE activation[i].status = "claimed"
      <4>1. activation[i] # NoRow
        BY <3>2 DEF NoRow
      <4>2. /\ activation'[i].status = IF i \in w.expiring THEN "expired" ELSE activation[i].status
            /\ activation'[i].code = activation[i].code
        BY <1>6
      <4>3. activation'[i].status # "none"
        BY <3>2, <4>2
      <4>4. QED BY <3>1, <4>1, <4>2, <4>3
    <3>3. CASE activation[i].status # "claimed"
      BY <1>6, <3>1, <3>3
    <3>4. QED BY <3>2, <3>3
  <2>2. /\ activation'[w.id].status # "none" /\ activation'[w.id].code # NoCode
        /\ ~(w.id > last_id) /\ last_id' = last_id
    BY <1>1, <1>3, <1>4, PromoAssumption DEF IInv, TypeOK, Ids
  <2>3. QED BY <1>3, <2>1, <2>2 DEF RowsAreFilled
<1>17. /\ activation[w.id].code = NoCode /\ activation[w.id].user = NoUser
       /\ w.code # NoCode /\ w.user # NoUser
  BY <1>3, PromoAssumption DEF NoRow
<1>9. /\ OfCode(w.code)' = OfCode(w.code) \cup {w.id}
      /\ \A c \in Codes \ {w.code} : OfCode(c)' = OfCode(c)
  <2>1. \A i \in Ids : activation'[i].code = IF i = w.id THEN w.code ELSE activation[i].code
    BY <1>4, <1>6
  <2>2. \A c \in Codes : c # NoCode
    BY PromoAssumption
  <2>3. QED BY <1>3, <1>17, <2>1, <2>2 DEF OfCode
<1>10. \A c \in Codes, u \in Users :
         OfCodeAndUser(c, u)' = IF c = w.code /\ u = w.user THEN OfCodeAndUser(c, u) \cup {w.id}
                                ELSE OfCodeAndUser(c, u)
  <2> SUFFICES ASSUME NEW c \in Codes, NEW u \in Users
      PROVE  OfCodeAndUser(c, u)' = IF c = w.code /\ u = w.user THEN OfCodeAndUser(c, u) \cup {w.id}
                                    ELSE OfCodeAndUser(c, u)
    OBVIOUS
  <2>1. \A i \in Ids : activation'[i].user = IF i = w.id THEN w.user ELSE activation[i].user
    BY <1>4, <1>6
  <2>2. w.id \notin OfCode(c) /\ OfCode(c) \subseteq Ids
    BY <1>17, PromoAssumption DEF OfCode
  <2>3. CASE c = w.code
    BY <1>3, <1>9, <2>1, <2>2, <2>3 DEF OfCodeAndUser
  <2>4. CASE c # w.code
    BY <1>9, <2>1, <2>2, <2>4 DEF OfCodeAndUser
  <2>5. QED BY <2>3, <2>4
<1>11. LimitsKept'
  <2> SUFFICES ASSUME NEW c \in Codes, NEW u \in Users
      PROVE  Cardinality(OfCode(c)') <= Limit[c] /\ Cardinality(OfCodeAndUser(c, u)') <= UserLimit[c]
    BY <1>3 DEF LimitsKept
  <2>1. /\ Cardinality(OfCode(c)) <= Limit[c] /\ Cardinality(OfCodeAndUser(c, u)) <= UserLimit[c]
        /\ Cardinality(OfCode(c)) \in Nat /\ Cardinality(OfCodeAndUser(c, u)) \in Nat
        /\ Limit[c] \in Nat /\ UserLimit[c] \in Nat
    BY CodeSetsFinite, FS_CardinalityType, PromoAssumption DEF IInv, LimitsKept
  <2>2. /\ Cardinality(OfCode(c) \cup {w.id}) <= Cardinality(OfCode(c)) + 1
        /\ Cardinality(OfCodeAndUser(c, u) \cup {w.id}) <= Cardinality(OfCodeAndUser(c, u)) + 1
    <3>1. \A S : IsFiniteSet(S) /\ Cardinality(S) \in Nat =>
                   Cardinality(S \cup {w.id}) <= Cardinality(S) + 1
      <4> SUFFICES ASSUME NEW S, IsFiniteSet(S), Cardinality(S) \in Nat
          PROVE  Cardinality(S \cup {w.id}) <= Cardinality(S) + 1
        OBVIOUS
      <4>1. \/ Cardinality(S \cup {w.id}) = Cardinality(S)
            \/ Cardinality(S \cup {w.id}) = Cardinality(S) + 1
        BY FS_AddElement
      <4>2. QED BY <4>1
    <3>2. QED BY <2>1, <3>1, CodeSetsFinite
  <2>3. Cardinality(OfCode(c)') <= Limit[c]
    <3>1. CASE c = w.code
      <4>1. OfCode(c)' = OfCode(c) \cup {w.id} /\ Cardinality(OfCode(c)) < Limit[c]
        BY <1>3, <1>9, <3>1
      <4>2. Cardinality(OfCode(c) \cup {w.id}) \in Nat
        BY CodeSetsFinite, FS_AddElement, FS_CardinalityType
      <4>3. QED BY <2>1, <2>2, <4>1, <4>2
    <3>2. CASE c # w.code
      BY <1>9, <2>1, <3>2
    <3>3. QED BY <3>1, <3>2
  <2>4. Cardinality(OfCodeAndUser(c, u)') <= UserLimit[c]
    <3>1. CASE c = w.code /\ u = w.user
      <4>1. /\ OfCodeAndUser(c, u)' = OfCodeAndUser(c, u) \cup {w.id}
            /\ Cardinality(OfCodeAndUser(c, u)) < UserLimit[c]
        BY <1>3, <1>10, <3>1
      <4>2. Cardinality(OfCodeAndUser(c, u) \cup {w.id}) \in Nat
        BY CodeSetsFinite, FS_AddElement, FS_CardinalityType
      <4>3. QED BY <2>1, <2>2, <4>1, <4>2
    <3>2. CASE ~(c = w.code /\ u = w.user)
      BY <1>10, <2>1, <3>2
    <3>3. QED BY <3>1, <3>2
  <2>5. QED BY <2>3, <2>4
<1>12. ActivationsAreOwned'
  <2>1. activation'[w.id].payment = NoPayment
    BY <1>2, <1>3, <1>5 DEF CommitClaim
  <2>2. \A i \in Ids \ {w.id} : activation'[i] = activation[i] \/ activation'[i].status = "expired"
    BY <1>6
  <2>3. QED BY <1>1, <1>4, <2>1, <2>2, OwnedStays
<1>13. OrdersAreBacked'
  <2> SUFFICES ASSUME NEW p \in Payments, payment[p].promo # 0, NEW i, i = payment[p].promo
      PROVE  /\ payment[p].status = "pending" =>
                  activation'[i].status = "reserved" /\ activation'[i].payment = p
             /\ payment[p].status = "paid" /\ p \notin StarsPayments =>
                  activation'[i].status = "consumed" /\ activation'[i].payment = p
    BY <1>1 DEF OrdersAreBacked
  <2>1. /\ payment[p].status = "pending" =>
             activation[i].status = "reserved" /\ activation[i].payment = p
        /\ payment[p].status = "paid" /\ p \notin StarsPayments =>
             activation[i].status = "consumed" /\ activation[i].payment = p
    BY DEF IInv, OrdersAreBacked
  <2>2. i \in Ids
    BY PromoAssumption DEF IInv, TypeOK, Order, Ids
  <2>3. CASE i = w.id
    BY <1>3, <2>1, <2>3 DEF NoRow
  <2>4. CASE i # w.id
    BY <1>6, <2>1, <2>2, <2>4
  <2>5. QED BY <2>3, <2>4
<1>14. ASSUME NEW t \in Sessions \ {s}, work[t] # Idle PROVE ClaimIsSound(t)'
  <2>1. ClaimIsSound(t) /\ work[t].id # w.id
    BY <1>1, <1>2, <1>14 DEF IInv, ClaimsAreSound, IdsAreDistinct
  <2>2. work[t].user # w.user /\ work[t].code # w.code
    BY <1>3, <2>1 DEF ClaimIsSound
  <2>3. /\ OfCode(work[t].code)' = OfCode(work[t].code)
        /\ OfCodeAndUser(work[t].code, work[t].user)' = OfCodeAndUser(work[t].code, work[t].user)
    BY <1>7, <1>9, <1>10, <1>14, <2>1, <2>2 DEF ClaimIsSound
  <2>4. activation'[work[t].id] = NoRow
    <3>1. work[t].id \in Ids \ {w.id} /\ activation[work[t].id] = NoRow
      BY <2>1 DEF ClaimIsSound
    <3>2. activation[work[t].id].status # "claimed"
      BY <3>1 DEF NoRow
    <3>3. QED BY <1>6, <3>1, <3>2
  <2>5. ASSUME NEW i \in work[t].expiring
        PROVE  i \in Ids /\ activation'[i].user = work[t].user /\ activation'[i].status = "claimed"
    <3>1. i \in Ids /\ activation[i].user = work[t].user /\ activation[i].status = "claimed"
      BY <2>1 DEF ClaimIsSound, Claimed
    <3>2. i # w.id /\ i \notin w.expiring
      BY <1>3, <2>2, <3>1 DEF NoRow, Claimed
    <3>3. QED BY <1>6, <3>1, <3>2
  <2>6. work[t].expiring \subseteq Claimed(work[t].user)'
    BY <1>7, <2>5 DEF Claimed
  <2>7. QED BY <1>1, <1>7, <2>1, <2>3, <2>4, <2>6, LocksStay DEF ClaimIsSound
<1>15. ClaimsAreSound' /\ IdsAreDistinct'
  BY <1>1, <1>14, EndsSound
<1>16. QED BY <1>8, <1>11, <1>12, <1>13, <1>15 DEF IInv

-----------------------------------------------------------------------------
(* The edits of a row keep its type and every other field.                  *)
LEMMA StatusEdit ==
  ASSUME NEW rows \in [Ids -> Row], NEW i \in Ids, NEW new,
         NEW st \in {"claimed", "reserved", "consumed", "expired"},
         new = [rows EXCEPT ![i].status = st]
  PROVE  /\ new \in [Ids -> Row]
         /\ new[i].status = st /\ new[i].payment = rows[i].payment
         /\ new[i].user = rows[i].user /\ new[i].code = rows[i].code
         /\ \A j \in Ids \ {i} : new[j] = rows[j]
BY DEF Row

LEMMA PaymentEdit ==
  ASSUME NEW rows \in [Ids -> Row], NEW i \in Ids, NEW new, NEW q \in Payments \cup {NoPayment},
         new = [rows EXCEPT ![i].payment = q]
  PROVE  /\ new \in [Ids -> Row]
         /\ new[i].status = rows[i].status /\ new[i].payment = q
         /\ new[i].user = rows[i].user /\ new[i].code = rows[i].code
         /\ \A j \in Ids \ {i} : new[j] = rows[j]
BY DEF Row

(* Placing an order.                                                        *)
LEMMA Placed ==
  ASSUME payment \in [Payments -> Order], NEW p \in Payments, NEW n \in 0..MaxActivations,
         PlaceOrder(p, n)
  PROVE  /\ payment' \in [Payments -> Order]
         /\ payment'[p].status = "pending" /\ payment'[p].promo = n
         /\ \A q \in Payments \ {p} : payment'[q] = payment[q]
BY DEF PlaceOrder, Order

LEMMA PlainStep ==
  ASSUME IInv, NEW u \in Users, NEW p \in Payments, CheckoutPlain(u, p)
  PROVE  IInv'
<1>1. /\ payment[p].status = "none" /\ PlaceOrder(p, 0) /\ 0 \in 0..MaxActivations
      /\ UNCHANGED <<activation, last_id, usable, receipts, user_lock, code_lock, work>>
  BY PromoAssumption DEF CheckoutPlain
<1>2. /\ payment' \in [Payments -> Order]
      /\ payment'[p].status = "pending" /\ payment'[p].promo = 0
      /\ \A q \in Payments \ {p} : payment'[q] = payment[q]
  BY <1>1, Placed DEF IInv, TypeOK
<1>3. TypeOK'
  BY <1>1, <1>2 DEF IInv, TypeOK, Claiming
<1>4. ActivationsAreOwned'
  BY <1>1, <1>2, OwnedStays
<1>5. OrdersAreBacked'
  BY <1>1, <1>2 DEF IInv, OrdersAreBacked
<1>6. QED BY <1>1, <1>3, <1>4, <1>5, OrderIInv

LEMMA PromoStep ==
  ASSUME IInv, NEW u \in Users, NEW p \in Payments, NEW i \in Ids, CheckoutWithPromo(u, p, i)
  PROVE  IInv'
<1>1. /\ payment[p].status = "none" /\ user_lock[u] = NoSession
      /\ activation[i].user = u /\ activation[i].status = "claimed"
      /\ UNCHANGED <<last_id, usable, receipts, user_lock, code_lock, work>>
  BY DEF CheckoutWithPromo, Newest, Claimed
<1>2. activation \in [Ids -> Row] /\ payment \in [Payments -> Order]
  BY DEF IInv, TypeOK
<1>3. 0 \in 0..MaxActivations /\ i \in 0..MaxActivations /\ i # 0
  BY PromoAssumption DEF Ids
<1>4. \A q \in Payments : payment[q].status = "pending" \/ (payment[q].status = "paid" /\ q \notin StarsPayments)
                            => payment[q].promo # i
  BY <1>1, <1>3 DEF IInv, OrdersAreBacked
<1>5. activation[i] # NoRow
  BY <1>1 DEF NoRow
<1>6. CASE activation' = [activation EXCEPT ![i].status = "reserved", ![i].payment = p]
           /\ PlaceOrder(p, i)
  <2>1. /\ payment' \in [Payments -> Order]
        /\ payment'[p].status = "pending" /\ payment'[p].promo = i
        /\ \A q \in Payments \ {p} : payment'[q] = payment[q]
    BY <1>2, <1>3, <1>6, Placed
  <2>2. /\ activation' \in [Ids -> Row]
        /\ activation'[i].status = "reserved" /\ activation'[i].payment = p
        /\ activation'[i].user = u /\ activation'[i].code = activation[i].code
        /\ \A j \in Ids \ {i} : activation'[j] = activation[j]
    <3>1. PICK half : half = [activation EXCEPT ![i].status = "reserved"]
      OBVIOUS
    <3>2. /\ half \in [Ids -> Row] /\ half[i].status = "reserved"
          /\ half[i].user = activation[i].user /\ half[i].code = activation[i].code
          /\ \A j \in Ids \ {i} : half[j] = activation[j]
      BY <1>2, <3>1, StatusEdit
    <3>3. activation' = [half EXCEPT ![i].payment = p]
      BY <1>6, <3>1
    <3>4. QED BY <1>1, <3>2, <3>3, PaymentEdit
  <2>3. TypeOK'
    BY <1>1, <2>1, <2>2 DEF IInv, TypeOK
  <2>4. ActivationsAreOwned'
    BY <1>1, <2>1, <2>2, OwnedStays
  <2>5. OrdersAreBacked'
    <3> SUFFICES ASSUME NEW q \in Payments, NEW n, n = payment'[q].promo, n # 0
        PROVE  /\ payment'[q].status = "pending" =>
                    activation'[n].status = "reserved" /\ activation'[n].payment = q
               /\ payment'[q].status = "paid" /\ q \notin StarsPayments =>
                    activation'[n].status = "consumed" /\ activation'[n].payment = q
      BY DEF OrdersAreBacked
    <3>1. CASE q = p
      BY <2>1, <2>2, <3>1
    <3>2. CASE q # p
      <4>1. /\ payment'[q] = payment[q] /\ payment[q].promo = n /\ n \in Ids
            /\ payment[q].status = "pending" \/ (payment[q].status = "paid" /\ q \notin StarsPayments)
                 => n # i
        BY <1>2, <1>4, <2>1, <3>2, PromoAssumption DEF Order, Ids
      <4>2. /\ payment[q].status = "pending" =>
                 activation[n].status = "reserved" /\ activation[n].payment = q
            /\ payment[q].status = "paid" /\ q \notin StarsPayments =>
                 activation[n].status = "consumed" /\ activation[n].payment = q
        BY <4>1 DEF IInv, OrdersAreBacked
      <4>3. QED BY <2>2, <4>1, <4>2
    <3>3. QED BY <3>1, <3>2
  <2>6. QED BY <1>1, <1>5, <2>2, <2>3, <2>4, <2>5, OrderIInv
<1>7. CASE activation' = [activation EXCEPT ![i].status = "expired"] /\ PlaceOrder(p, 0)
  <2>1. /\ payment' \in [Payments -> Order]
        /\ payment'[p].status = "pending" /\ payment'[p].promo = 0
        /\ \A q \in Payments \ {p} : payment'[q] = payment[q]
    BY <1>2, <1>3, <1>7, Placed
  <2>2. /\ activation' \in [Ids -> Row]
        /\ activation'[i].status = "expired"
        /\ activation'[i].user = u /\ activation'[i].code = activation[i].code
        /\ \A j \in Ids \ {i} : activation'[j] = activation[j]
    BY <1>1, <1>2, <1>7, StatusEdit
  <2>3. TypeOK'
    BY <1>1, <2>1, <2>2 DEF IInv, TypeOK
  <2>4. ActivationsAreOwned'
    BY <1>1, <2>1, <2>2, OwnedStays
  <2>5. OrdersAreBacked'
    <3> SUFFICES ASSUME NEW q \in Payments, NEW n, n = payment'[q].promo, n # 0
        PROVE  /\ payment'[q].status = "pending" =>
                    activation'[n].status = "reserved" /\ activation'[n].payment = q
               /\ payment'[q].status = "paid" /\ q \notin StarsPayments =>
                    activation'[n].status = "consumed" /\ activation'[n].payment = q
      BY DEF OrdersAreBacked
    <3>1. CASE q = p
      BY <2>1, <2>2, <3>1
    <3>2. CASE q # p
      <4>1. /\ payment'[q] = payment[q] /\ payment[q].promo = n /\ n \in Ids
            /\ payment[q].status = "pending" \/ (payment[q].status = "paid" /\ q \notin StarsPayments)
                 => n # i
        BY <1>2, <1>4, <2>1, <3>2, PromoAssumption DEF Order, Ids
      <4>2. /\ payment[q].status = "pending" =>
                 activation[n].status = "reserved" /\ activation[n].payment = q
            /\ payment[q].status = "paid" /\ q \notin StarsPayments =>
                 activation[n].status = "consumed" /\ activation[n].payment = q
        BY <4>1 DEF IInv, OrdersAreBacked
      <4>3. QED BY <2>2, <4>1, <4>2
    <3>3. QED BY <3>1, <3>2
  <2>6. QED BY <1>1, <1>5, <2>2, <2>3, <2>4, <2>5, OrderIInv
<1>8. QED BY <1>6, <1>7 DEF CheckoutWithPromo

(* An order that ends takes the reservation that names it along.            *)
LEMMA EndStep ==
  ASSUME IInv, NEW p \in Payments, CloseOrder(p) \/ SettleOrder(p) \/ SettleReceipt(p)
  PROVE  /\ IInv' /\ payment'[p].status # "pending"
         /\ \A i \in Ids : activation'[i] = activation[i] \/ i \in ReservedFor(p)
<1>1. UNCHANGED <<last_id, usable, receipts, user_lock, code_lock, work>>
  BY DEF CloseOrder, SettleOrder, SettleReceipt
<1>2. activation \in [Ids -> Row] /\ payment \in [Payments -> Order]
  BY DEF IInv, TypeOK
<1>3. PICK end \in {"failed", "expired", "paid"} :
        /\ payment' = [payment EXCEPT ![p].status = end]
        /\ end = "paid" => activation' = Consumed(p)
        /\ end = "paid" /\ p \notin StarsPayments => payment[p].status = "pending"
        /\ end # "paid" => CloseOrder(p)
  <2>1. CASE CloseOrder(p)
    BY <2>1 DEF CloseOrder
  <2>2. CASE SettleOrder(p)
    BY <2>2 DEF SettleOrder
  <2>3. CASE SettleReceipt(p)
    BY <2>3 DEF SettleReceipt, IInv, TypeOK
  <2>4. QED BY <2>1, <2>2, <2>3
<1>4. /\ payment' \in [Payments -> Order]
      /\ payment'[p].status = end /\ payment'[p].promo = payment[p].promo
      /\ \A q \in Payments \ {p} : payment'[q] = payment[q]
  BY <1>2, <1>3 DEF Order
<1>5. \A i \in Ids : i \notin ReservedFor(p) => activation'[i] = activation[i]
  BY DEF CloseOrder, SettleOrder, SettleReceipt, Consumed
<1>6. \A i \in ReservedFor(p) :
        /\ i \in Ids /\ activation[i] \in Row
        /\ activation[i].status = "reserved" /\ activation[i].payment = p /\ payment[p].promo = i
  BY <1>2 DEF ReservedFor, IInv, ActivationsAreOwned
<1>7. \A i \in ReservedFor(p) :
        /\ activation'[i] \in Row
        /\ activation'[i].user = activation[i].user /\ activation'[i].code = activation[i].code
        /\ end = "paid" => activation'[i].status = "consumed" /\ activation'[i].payment = p
        /\ end # "paid" => activation'[i].status = "claimed"
  <2> SUFFICES ASSUME NEW i \in ReservedFor(p)
      PROVE  /\ activation'[i] \in Row
             /\ activation'[i].user = activation[i].user /\ activation'[i].code = activation[i].code
             /\ end = "paid" => activation'[i].status = "consumed" /\ activation'[i].payment = p
             /\ end # "paid" => activation'[i].status = "claimed"
    OBVIOUS
  <2>1. CASE end = "paid"
    <3>1. activation'[i] = [activation[i] EXCEPT !.status = "consumed"]
      BY <1>3, <1>6, <2>1 DEF Consumed
    <3>2. QED BY <1>6, <2>1, <3>1 DEF Row
  <2>2. CASE end # "paid"
    <3>1. PICK row \in Row : row = activation[i]
      BY <1>6
    <3>2. activation'[i] = [row EXCEPT !.status = "claimed", !.payment = NoPayment]
      BY <1>3, <1>6, <2>2, <3>1 DEF CloseOrder
    <3>3. QED BY <2>2, <3>1, <3>2 DEF Row
  <2>3. QED BY <2>1, <2>2
<1>8. activation' \in [Ids -> Row]
  <2>1. activation' = [i \in Ids |-> activation'[i]]
    BY DEF CloseOrder, SettleOrder, SettleReceipt, Consumed
  <2>2. \A i \in Ids : activation'[i] \in Row
    BY <1>2, <1>5, <1>7
  <2>3. QED BY <2>1, <2>2
<1>9. TypeOK'
  BY <1>1, <1>4, <1>8 DEF IInv, TypeOK
<1>10. ActivationsAreOwned'
  <2>1. ASSUME NEW i \in Ids, activation'[i].status = "reserved"
        PROVE  /\ activation'[i].payment \in Payments
               /\ payment'[activation'[i].payment].status = "pending"
               /\ payment'[activation'[i].payment].promo = i
    <3>1. activation'[i] = activation[i] /\ i \notin ReservedFor(p)
      BY <1>5, <1>7, <2>1
    <3>2. activation[i].payment # p
      BY <2>1, <3>1 DEF ReservedFor
    <3>3. QED BY <1>4, <2>1, <3>1, <3>2 DEF IInv, ActivationsAreOwned
  <2>2. ASSUME NEW i \in Ids, activation'[i].status = "consumed", activation'[i].payment # NoPayment
        PROVE  /\ payment'[activation'[i].payment].status = "paid"
               /\ payment'[activation'[i].payment].promo = i
    <3>1. CASE i \in ReservedFor(p)
      BY <1>4, <1>6, <1>7, <2>2, <3>1
    <3>2. CASE i \notin ReservedFor(p)
      <4>1. /\ activation'[i] = activation[i] /\ activation[i] \in Row
            /\ activation[i].payment \in Payments
        BY <1>2, <1>5, <2>2, <3>2 DEF Row
      <4>2. /\ payment[activation[i].payment].status = "paid"
            /\ payment[activation[i].payment].promo = i
        BY <2>2, <4>1 DEF IInv, ActivationsAreOwned
      <4>3. activation[i].payment = p => end = "paid"
        BY <1>3, <4>2 DEF CloseOrder
      <4>4. QED BY <1>4, <4>1, <4>2, <4>3
    <3>3. QED BY <3>1, <3>2
  <2>3. QED BY <2>1, <2>2 DEF ActivationsAreOwned
<1>11. OrdersAreBacked'
  <2> SUFFICES ASSUME NEW q \in Payments, NEW n, n = payment'[q].promo, n # 0
      PROVE  /\ payment'[q].status = "pending" =>
                  activation'[n].status = "reserved" /\ activation'[n].payment = q
             /\ payment'[q].status = "paid" /\ q \notin StarsPayments =>
                  activation'[n].status = "consumed" /\ activation'[n].payment = q
    BY DEF OrdersAreBacked
  <2>1. /\ n = payment[q].promo /\ n \in Ids
        /\ payment[q].status = "pending" => activation[n].status = "reserved" /\ activation[n].payment = q
        /\ payment[q].status = "paid" /\ q \notin StarsPayments =>
             activation[n].status = "consumed" /\ activation[n].payment = q
    <3>1. n = payment[q].promo /\ payment[q] \in Order
      BY <1>2, <1>4
    <3>2. n \in Ids
      BY <3>1, PromoAssumption DEF Order, Ids
    <3>3. QED BY <3>1, <3>2 DEF IInv, OrdersAreBacked
  <2>2. CASE q = p
    <3>1. payment[p].status = "pending" => n \in ReservedFor(p)
      BY <2>1, <2>2 DEF ReservedFor
    <3>2. QED BY <1>3, <1>4, <1>7, <2>2, <3>1
  <2>3. CASE q # p
    <3>1. payment[q].status = "pending" \/ (payment[q].status = "paid" /\ q \notin StarsPayments)
            => n \notin ReservedFor(p)
      BY <2>1, <2>3 DEF ReservedFor
    <3>2. QED BY <1>4, <1>5, <2>1, <2>3, <3>1
  <2>4. QED BY <2>2, <2>3
<1>12. \A i \in Ids :
         /\ activation'[i].code = activation[i].code /\ activation'[i].user = activation[i].user
         /\ activation[i] = NoRow => activation'[i] = NoRow
         /\ activation'[i].status = "none" => activation[i].status = "none"
         /\ activation[i].status = "claimed" => activation'[i].status = "claimed"
  BY <1>5, <1>6, <1>7 DEF NoRow
<1>13. IInv'
  BY <1>1, <1>9, <1>10, <1>11, <1>12, OrderIInv
<1>14. QED BY <1>4, <1>5, <1>13

-----------------------------------------------------------------------------
LEMMA ClaimTypes ==
  ASSUME IInv, NEW s \in Sessions,
         \/ CommitClaim(s) \/ RollbackClaim(s)
         \/ \E u \in Users, c \in Codes : BeginClaim(s, u, c)
  PROVE  TypeOK'
<1> USE DEF IInv, TypeOK
<1>1. Idle \in Claiming
  BY PromoAssumption DEF Idle, Claiming
<1>2. ASSUME EndClaim(s)
      PROVE  /\ user_lock' \in [Users -> Sessions \cup {NoSession}]
             /\ code_lock' \in [Codes -> Sessions \cup {NoSession}]
             /\ work' \in [Sessions -> Claiming] /\ UNCHANGED <<last_id, usable, payment, receipts>>
  BY <1>1, <1>2 DEF EndClaim
<1>3. CASE RollbackClaim(s)
  BY <1>2, <1>3 DEF RollbackClaim
<1>4. CASE CommitClaim(s)
  <2>1. PICK w \in Claiming : w = work[s]
    OBVIOUS
  <2>2. /\ work[s] # Idle /\ ClaimIsSound(s)
    BY <1>4 DEF CommitClaim, ClaimsAreSound
  <2>3. w.user \in Users /\ w.code \in Codes /\ w.id \notin w.expiring
    BY <2>1, <2>2 DEF ClaimIsSound, Claimed, NoRow
  <2> DEFINE new == [status |-> IF w.code \in Instant THEN "consumed" ELSE "claimed",
                     user |-> w.user, code |-> w.code, payment |-> NoPayment]
  <2>4. new \in Row
    BY <2>3 DEF Row
  <2>5. \A i \in Ids : [activation[i] EXCEPT !.status = "expired"] \in Row
    BY DEF Row
  <2>6. activation' = [i \in Ids |->
          CASE i = w.id -> new
            [] i \in w.expiring -> [activation[i] EXCEPT !.status = "expired"]
            [] OTHER -> activation[i]]
    BY <1>4, <2>1 DEF CommitClaim
  <2> HIDE DEF new
  <2>7. activation' \in [Ids -> Row]
    BY <2>3, <2>4, <2>5, <2>6
  <2>8. QED BY <1>2, <1>4, <2>7 DEF CommitClaim
<1>5. ASSUME NEW u \in Users, NEW c \in Codes, BeginClaim(s, u, c) PROVE TypeOK'
  <2>1. last_id' \in 0..MaxActivations
    BY <1>5, PromoAssumption DEF BeginClaim
  <2>2. [user |-> u, code |-> c, id |-> last_id', expiring |-> Claimed(u)] \in Claiming
    BY <2>1 DEF Claiming, Claimed
  <2>3. work' \in [Sessions -> Claiming]
    BY <1>5, <2>2 DEF BeginClaim
  <2>4. QED BY <1>5, <2>1, <2>3 DEF BeginClaim
<1>6. QED BY <1>3, <1>4, <1>5

LEMMA NextIInv == IInv /\ [Next]_vars => IInv'
<1> SUFFICES ASSUME IInv, [Next]_vars PROVE IInv'
  OBVIOUS
<1>1. CASE UNCHANGED <<activation, last_id, payment, user_lock, code_lock, work>>
           /\ usable' \in SUBSET Codes /\ receipts' \in SUBSET StarsPayments
  <2>1. TypeOK'
    BY <1>1 DEF IInv, TypeOK
  <2>2. ActivationsAreOwned' /\ OrdersAreBacked'
    BY <1>1 DEF IInv, ActivationsAreOwned, OrdersAreBacked
  <2>3. QED BY <1>1, <2>1, <2>2, OrderIInv
<1>2. CASE UNCHANGED vars
  BY <1>1, <1>2 DEF vars, IInv, TypeOK
<1>3. ASSUME NEW c \in Codes, SwitchCode(c) PROVE IInv'
  BY <1>1, <1>3 DEF SwitchCode, IInv, TypeOK
<1>4. ASSUME NEW s \in Sessions, CommitClaim(s) PROVE IInv'
  BY <1>4, ClaimTypes, CommitStep
<1>5. ASSUME NEW s \in Sessions, RollbackClaim(s) PROVE IInv'
  BY <1>5, ClaimTypes, RollbackStep
<1>6. ASSUME NEW s \in Sessions, NEW u \in Users, NEW c \in Codes, BeginClaim(s, u, c) PROVE IInv'
  BY <1>6, ClaimTypes, BeginStep
<1>7. ASSUME NEW u \in Users, NEW p \in Payments, CheckoutPlain(u, p) PROVE IInv'
  BY <1>7, PlainStep
<1>8. ASSUME NEW u \in Users, NEW p \in Payments, NEW i \in Ids, CheckoutWithPromo(u, p, i) PROVE IInv'
  BY <1>8, PromoStep
<1>9. ASSUME NEW p \in Payments, CloseOrder(p) \/ SettleOrder(p) \/ SettleReceipt(p) PROVE IInv'
  BY <1>9, EndStep
<1>10. ASSUME NEW p \in Payments, RecordReceipt(p) PROVE IInv'
  BY <1>1, <1>10 DEF RecordReceipt, IInv, TypeOK
<1>11. QED BY <1>2, <1>3, <1>4, <1>5, <1>6, <1>7, <1>8, <1>9, <1>10 DEF Next

LEMMA InitIInv == Init => IInv
<1> SUFFICES ASSUME Init PROVE IInv
  OBVIOUS
<1>1. TypeOK
  BY PromoAssumption DEF Init, TypeOK, Row, NoRow, Order, Claiming, Idle
<1>2. RowsAreFilled /\ ClaimsAreSound /\ IdsAreDistinct /\ ActivationsAreOwned /\ OrdersAreBacked
  BY DEF Init, RowsAreFilled, ClaimsAreSound, IdsAreDistinct, ActivationsAreOwned, OrdersAreBacked, NoRow
<1>3. LimitsKept
  <2> SUFFICES ASSUME NEW c \in Codes
      PROVE  /\ Cardinality(OfCode(c)) <= Limit[c]
             /\ \A u \in Users : Cardinality(OfCodeAndUser(c, u)) <= UserLimit[c]
    BY DEF LimitsKept
  <2>1. OfCode(c) = {} /\ \A u : OfCodeAndUser(c, u) = {}
    BY PromoAssumption DEF Init, OfCode, OfCodeAndUser, NoRow
  <2>2. Cardinality({}) = 0
    BY FS_EmptySet
  <2>3. QED BY <2>1, <2>2, PromoAssumption
<1>4. QED BY <1>1, <1>2, <1>3 DEF IInv

LEMMA SpecIInv == Spec => []IInv
BY InitIInv, NextIInv, PTL DEF Spec

(* Activations, orders, locks and claims keep their types.                  *)
THEOREM TypeCorrect == Spec => []TypeOK
BY SpecIInv, PTL DEF IInv

(* No code is activated more often than its limits allow.                   *)
THEOREM LimitsHold == Spec => []LimitsKept
BY SpecIInv, PTL DEF IInv

(* The discount of an order is the activation that is its own, and what is  *)
(* reserved or consumed belongs to one pending or paid order.               *)
THEOREM DiscountsBacked == Spec => []DiscountIsBacked
BY SpecIInv, PTL DEF IInv, DiscountIsBacked

Unswapped(i) ==
  /\ activation[i].status = "consumed" => activation'[i] = activation[i]
  /\ activation[i].status = "reserved" =>
       activation'[i] = activation[i] \/ payment'[activation[i].payment].status # "pending"

LEMMA UnswappedStep ==
  ASSUME IInv, [Next]_vars, NEW i \in Ids
  PROVE  Unswapped(i)
<1>1. CASE UNCHANGED activation
  BY <1>1 DEF Unswapped
<1>2. ASSUME NEW s \in Sessions, CommitClaim(s) PROVE Unswapped(i)
  <2>1. ClaimIsSound(s)
    BY <1>2 DEF CommitClaim, IInv, ClaimsAreSound
  <2>2. activation[i].status \in {"consumed", "reserved"} => i # work[s].id /\ i \notin work[s].expiring
    BY <2>1 DEF ClaimIsSound, NoRow, Claimed
  <2>3. activation[i].status \in {"consumed", "reserved"} => activation'[i] = activation[i]
    BY <1>2, <2>2 DEF CommitClaim
  <2>4. QED BY <2>3 DEF Unswapped
<1>3. ASSUME NEW u \in Users, NEW p \in Payments, NEW j \in Ids, CheckoutWithPromo(u, p, j)
      PROVE  Unswapped(i)
  <2>1. activation[j].status = "claimed"
    BY <1>3 DEF CheckoutWithPromo, Newest, Claimed
  <2>2. i # j => activation'[i] = activation[i]
    BY <1>3 DEF CheckoutWithPromo, IInv, TypeOK
  <2>3. QED BY <2>1, <2>2 DEF Unswapped
<1>4. ASSUME NEW p \in Payments, CloseOrder(p) \/ SettleOrder(p) \/ SettleReceipt(p) PROVE Unswapped(i)
  BY <1>4, EndStep DEF Unswapped, ReservedFor
<1>5. QED
  BY <1>1, <1>2, <1>3, <1>4 DEF Next, vars, BeginClaim, RollbackClaim, CheckoutPlain, RecordReceipt, SwitchCode

(* The activation of a pending order stays what it was until the order ends.*)
THEOREM ReservationStays == Spec => NotSwapped
<1>1. IInv /\ [Next]_vars => [\A i \in Ids : Unswapped(i)]_vars
  BY UnswappedStep
<1>2. QED BY <1>1, SpecIInv, PTL DEF Spec, NotSwapped, Unswapped
=============================================================================
