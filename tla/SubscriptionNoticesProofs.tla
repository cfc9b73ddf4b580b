---------------------- MODULE SubscriptionNoticesProofs ---------------------
(* A notice is handed over once, a reminder is about an end that stands,    *)
(* and paid time is kept, for any users, rows, schedules of notices and     *)
(* overlap of scans.  From its decision to its reservation a reminder's row *)
(* is locked, and the clock of a scan is never ahead of the clock.          *)
EXTENDS SubscriptionNotices, FiniteSetTheorems, TLAPS

Reminder(k) == k.kind[1] \in {"before", "expiry_day"}

ClocksLag == \A w \in Workers : scan[w].now <= now

UsedRowsHaveUsers == \A r \in Rows : subscriptions[r].status # "none" => subscriptions[r].user \in Users

OneActive ==
  \A q, r \in Rows :
    /\ subscriptions[q].status = "active" /\ subscriptions[r].status = "active"
    /\ subscriptions[q].user = subscriptions[r].user
    => q = r

\* A worker that has chosen a notice has chosen it for a row in use.
KeyInUse ==
  \A w \in Workers : scan[w].pc \in {"reserving", "sending"} =>
    scan[w].key \in Keys /\ subscriptions[scan[w].key.row].status # "none"

\* What a reminder says stays true while its worker is about to reserve it.
ReminderLocked ==
  \A w \in Workers : scan[w].pc = "reserving" /\ Reminder(scan[w].key) =>
    LET k == scan[w].key IN
    /\ lock[k.row] = w
    /\ subscriptions[k.row].expires_at = k.expires_at
    /\ subscriptions[k.row].status \in {"active", "expired"}

IInv ==
  /\ TypeOK /\ SentOnce
  /\ ClocksLag /\ UsedRowsHaveUsers /\ OneActive /\ KeyInUse /\ ReminderLocked

-----------------------------------------------------------------------------
LEMMA InOrderSeq ==
  ASSUME NEW S \in SUBSET Rows, NEW q \in InOrder(S)
  PROVE  q \in Seq(Rows)
<1>1. IsFiniteSet(S)
  BY FS_Subset, NoticeAssumption
<1>2. Cardinality(S) \in Nat /\ q \in [1..Cardinality(S) -> Rows]
  BY <1>1, FS_CardinalityType DEF InOrder
<1>3. QED BY <1>2

\* The notices a row can call for; one whose end has passed calls for no reminder.
LEMMA WantedKinds ==
  ASSUME TypeOK, NEW r \in Rows, NEW t \in 0..MaxTime, NEW kind \in Wanted(r, t)
  PROVE  /\ kind \in Kinds
         /\ subscriptions[r].status \in {"active", "expired"}
         /\ Over(r, t) => kind[1] \notin {"before", "expiry_day"}
<1>1. subscriptions[r].status \in {"active", "expired"} /\ kind \in Due(subscriptions[r].expires_at, t)
  BY DEF Wanted
<1>2. CASE subscriptions[r].expires_at <= t
  <2>1. kind = <<"expired", 0>> \/ \E d \in DaysAfter : kind = <<"after", d>>
    BY <1>1, <1>2 DEF Due
  <2>2. QED BY <1>1, <2>1 DEF Kinds
<1>3. CASE ~(subscriptions[r].expires_at <= t)
  <2>1. kind = <<"expiry_day", 0>> \/ \E d \in DaysBefore : kind = <<"before", d>>
    BY <1>1, <1>3 DEF Due
  <2>2. QED BY <1>1, <1>3, <2>1 DEF Kinds, Over
<1>4. QED BY <1>2, <1>3

LEMMA KeyType ==
  ASSUME TypeOK, NEW r \in Rows, NEW kind \in Kinds
  PROVE  /\ Key(r, kind) \in Keys /\ Key(r, kind).row = r /\ Key(r, kind).kind = kind
         /\ Key(r, kind).expires_at = subscriptions[r].expires_at
<1>1. subscriptions[r].expires_at \in Times
  BY DEF TypeOK, Subscription
<1>2. QED BY <1>1 DEF Key, Keys

LEMMA InitHolds == Init => IInv
<1> SUFFICES ASSUME Init PROVE IInv
  OBVIOUS
<1>1. Idle \in Scan /\ Idle.now = 0 /\ Idle.pc = "idle"
  BY NoticeAssumption DEF Idle, Scan
<1>2. PICK u \in Users, e \in 0..Day :
        subscriptions = [r \in Rows |->
          IF r = Min(Rows) THEN [user |-> u, expires_at |-> e, status |-> "active"]
          ELSE [user |-> NoUser, expires_at |-> 0, status |-> "none"]]
  BY DEF Init
<1>3. e \in Times /\ 0 \in Times
  BY NoticeAssumption DEF Times
<1>4. subscriptions \in [Rows -> Subscription]
  BY <1>2, <1>3 DEF Subscription
<1>5. TypeOK
  BY <1>1, <1>4, NoticeAssumption DEF Init, TypeOK
<1>6. UsedRowsHaveUsers /\ OneActive
  BY <1>2 DEF UsedRowsHaveUsers, OneActive
<1>7. SentOnce /\ ClocksLag /\ KeyInUse /\ ReminderLocked
  BY <1>1 DEF Init, SentOnce, ClocksLag, KeyInUse, ReminderLocked
<1>8. QED BY <1>5, <1>6, <1>7 DEF IInv

-----------------------------------------------------------------------------
(* The rows.  A step that leaves the locked rows, and the users and the     *)
(* uniqueness of the others, as they are, keeps the invariant.              *)
LEMMA RowsStep ==
  ASSUME IInv, subscriptions' \in [Rows -> Subscription], UsedRowsHaveUsers', OneActive',
         \A r \in Rows : lock[r] # NoWorker => subscriptions'[r] = subscriptions[r],
         \A r \in Rows : subscriptions[r].status # "none" => subscriptions'[r].status # "none",
         UNCHANGED <<now, lock, bot_blocked, logs, scan, crashes>>
  PROVE  IInv'
<1>1. TypeOK' /\ SentOnce' /\ ClocksLag'
  BY DEF IInv, TypeOK, SentOnce, ClocksLag
<1>2. KeyInUse'
  BY DEF IInv, KeyInUse, Keys
<1>3. ReminderLocked'
  <2> SUFFICES ASSUME NEW w \in Workers, scan[w].pc = "reserving", Reminder(scan[w].key)
               PROVE  LET k == scan[w].key IN
                      /\ lock[k.row] = w
                      /\ subscriptions'[k.row].expires_at = k.expires_at
                      /\ subscriptions'[k.row].status \in {"active", "expired"}
    BY DEF ReminderLocked, Reminder
  <2>1. scan[w].key.row \in Rows /\ lock[scan[w].key.row] = w
    BY DEF IInv, KeyInUse, ReminderLocked, Keys
  <2>2. subscriptions'[scan[w].key.row] = subscriptions[scan[w].key.row]
    BY <2>1, NoticeAssumption
  <2>3. QED BY <2>1, <2>2 DEF IInv, ReminderLocked
<1>4. QED BY <1>1, <1>2, <1>3 DEF IInv

LEMMA ExtendStep ==
  ASSUME IInv, NEW u \in Users, Extend(u)
  PROVE  IInv'
<1>1. PICK r \in Current(u), d \in Lengths :
        /\ lock[r] = NoWorker /\ subscriptions[r].expires_at + d * Day \in Times
        /\ subscriptions' = [subscriptions EXCEPT ![r].expires_at = @ + d * Day]
  BY DEF Extend
<1> DEFINE e == subscriptions[r].expires_at + d * Day
<1>2. /\ r \in Rows /\ subscriptions \in [Rows -> Subscription] /\ e \in Times
      /\ subscriptions' = [subscriptions EXCEPT ![r] = [subscriptions[r] EXCEPT !.expires_at = e]]
  BY <1>1 DEF Current, Active, IInv, TypeOK
<1> HIDE DEF e
<1>3. /\ subscriptions' \in [Rows -> Subscription]
      /\ \A q \in Rows \ {r} : subscriptions'[q] = subscriptions[q]
      /\ subscriptions'[r].user = subscriptions[r].user
      /\ subscriptions'[r].status = subscriptions[r].status
  BY <1>2 DEF Subscription
<1>4. UsedRowsHaveUsers' /\ OneActive'
  BY <1>2, <1>3 DEF IInv, UsedRowsHaveUsers, OneActive
<1>5. QED BY <1>1, <1>2, <1>3, <1>4, RowsStep DEF Extend

\* What a purchase does to each row.
LEMMA PurchaseRows ==
  ASSUME IInv, NEW u \in Users, Purchase(u)
  PROVE  \E r \in Rows :
           /\ subscriptions[r].status = "none"
           /\ subscriptions' \in [Rows -> Subscription]
           /\ subscriptions'[r].user = u /\ subscriptions'[r].status = "active"
           /\ \A q \in Active(u) :
                /\ subscriptions'[q].status = "expired"
                /\ subscriptions'[q].user = subscriptions[q].user
                /\ subscriptions[q].expires_at <= now
           /\ \A q \in Rows \ (Active(u) \cup {r}) : subscriptions'[q] = subscriptions[q]
<1>1. PICK r \in Rows, d \in Lengths :
        /\ subscriptions[r].status = "none" /\ now + d * Day \in Times
        /\ subscriptions' = [q \in Rows |->
             CASE q = r -> [user |-> u, expires_at |-> now + d * Day, status |-> "active"]
               [] q \in Active(u) -> [subscriptions[q] EXCEPT !.status = "expired"]
               [] OTHER -> subscriptions[q]]
  BY DEF Purchase
<1>2. r \notin Active(u) /\ Active(u) \subseteq Rows /\ subscriptions \in [Rows -> Subscription]
  BY <1>1 DEF Active, IInv, TypeOK
<1>3. subscriptions'[r] = [user |-> u, expires_at |-> now + d * Day, status |-> "active"]
  BY <1>1, <1>2
<1>4. \A q \in Active(u) : subscriptions'[q] = [subscriptions[q] EXCEPT !.status = "expired"]
  BY <1>1, <1>2
<1>5. \A q \in Rows \ (Active(u) \cup {r}) : subscriptions'[q] = subscriptions[q]
  BY <1>1, <1>2
<1>6. \A q \in Rows : subscriptions'[q] \in Subscription
  BY <1>1, <1>2, <1>3, <1>4, <1>5 DEF Subscription
<1>7. subscriptions' \in [Rows -> Subscription]
  BY <1>1, <1>6
<1>8. \A q \in Active(u) : subscriptions[q].expires_at <= now
  BY <1>2 DEF Purchase, Current, IInv, TypeOK, Subscription, Times
<1>9. \A q \in Active(u) : subscriptions'[q].status = "expired" /\ subscriptions'[q].user = subscriptions[q].user
  BY <1>2, <1>4 DEF Subscription
<1>10. QED BY <1>1, <1>3, <1>5, <1>7, <1>8, <1>9

LEMMA PurchaseStep ==
  ASSUME IInv, NEW u \in Users, Purchase(u)
  PROVE  IInv'
<1>1. PICK r \in Rows :
        /\ subscriptions[r].status = "none"
        /\ subscriptions' \in [Rows -> Subscription]
        /\ subscriptions'[r].user = u /\ subscriptions'[r].status = "active"
        /\ \A q \in Active(u) :
             /\ subscriptions'[q].status = "expired"
             /\ subscriptions'[q].user = subscriptions[q].user
        /\ \A q \in Rows \ (Active(u) \cup {r}) : subscriptions'[q] = subscriptions[q]
  BY PurchaseRows
<1>2. UsedRowsHaveUsers'
  BY <1>1 DEF IInv, UsedRowsHaveUsers, Active
<1>3. \A q \in Rows \ {r} : subscriptions'[q].status = "active" =>
        subscriptions'[q] = subscriptions[q] /\ subscriptions[q].user # u
  BY <1>1 DEF Active
<1>4. OneActive'
  BY <1>1, <1>3 DEF IInv, OneActive
<1>5. ASSUME NEW q \in Rows PROVE subscriptions[q].status # "none" => subscriptions'[q].status # "none"
  BY <1>1
<1>6. QED
  <2>1. TypeOK' /\ SentOnce' /\ ClocksLag'
    BY <1>1 DEF Purchase, IInv, TypeOK, SentOnce, ClocksLag
  <2>2. KeyInUse'
    BY <1>5 DEF Purchase, IInv, KeyInUse, Keys
  <2>3. ReminderLocked'
    <3> SUFFICES ASSUME NEW w \in Workers, scan[w].pc = "reserving", Reminder(scan[w].key)
                 PROVE  LET k == scan[w].key IN
                        /\ lock[k.row] = w
                        /\ subscriptions'[k.row].expires_at = k.expires_at
                        /\ subscriptions'[k.row].status \in {"active", "expired"}
      BY DEF ReminderLocked, Reminder, Purchase
    <3>1. /\ scan[w].key.row \in Rows /\ lock[scan[w].key.row] = w
          /\ subscriptions[scan[w].key.row].status # "none"
      BY DEF IInv, KeyInUse, ReminderLocked, Keys
    <3>2. scan[w].key.row \notin Active(u)
      BY <3>1, NoticeAssumption DEF Purchase
    <3>3. subscriptions'[scan[w].key.row] = subscriptions[scan[w].key.row]
      BY <1>1, <3>1, <3>2
    <3>4. QED BY <3>1, <3>3 DEF IInv, ReminderLocked
  <2>4. QED BY <1>2, <1>4, <2>1, <2>2, <2>3 DEF IInv

LEMMA CancelStep ==
  ASSUME IInv, NEW u \in Users, CancelSubscription(u)
  PROVE  IInv'
<1>1. PICK r \in Current(u) :
        /\ lock[r] = NoWorker
        /\ subscriptions' = [subscriptions EXCEPT ![r].status = "cancelled"]
  BY DEF CancelSubscription
<1>2. r \in Rows /\ subscriptions \in [Rows -> Subscription] /\ subscriptions[r].status = "active"
  BY <1>1 DEF Current, Active, IInv, TypeOK
<1>3. /\ subscriptions' \in [Rows -> Subscription]
      /\ \A q \in Rows \ {r} : subscriptions'[q] = subscriptions[q]
      /\ subscriptions'[r].user = subscriptions[r].user
      /\ subscriptions'[r].status = "cancelled"
  BY <1>1, <1>2 DEF Subscription
<1>4. UsedRowsHaveUsers' /\ OneActive'
  BY <1>2, <1>3 DEF IInv, UsedRowsHaveUsers, OneActive
<1>5. QED BY <1>1, <1>2, <1>3, <1>4, RowsStep DEF CancelSubscription

-----------------------------------------------------------------------------
(* A step of one scan: it may let rows go or lock one that was free, and    *)
(* mark a row no other scan has locked as expired.                          *)
LEMMA ScanStep ==
  ASSUME IInv, NEW w \in Workers, NEW s \in Scan,
         scan' = [scan EXCEPT ![w] = s], s.now <= now, now' = now,
         TypeOK', SentOnce',
         \A r \in Rows, v \in Workers \ {w} : lock[r] = v => lock'[r] = v,
         \A r \in Rows :
           \/ subscriptions'[r] = subscriptions[r]
           \/ /\ \A v \in Workers \ {w} : lock[r] # v
              /\ subscriptions[r].status = "active"
              /\ subscriptions'[r] = [subscriptions[r] EXCEPT !.status = "expired"],
         s.pc \in {"reserving", "sending"} =>
           s.key \in Keys /\ subscriptions[s.key.row].status # "none",
         s.pc = "reserving" /\ Reminder(s.key) =>
           /\ lock'[s.key.row] = w
           /\ subscriptions'[s.key.row].expires_at = s.key.expires_at
           /\ subscriptions'[s.key.row].status \in {"active", "expired"}
  PROVE  IInv'
<1>1. scan'[w] = s /\ \A v \in Workers \ {w} : scan'[v] = scan[v]
  BY DEF IInv, TypeOK
<1>2. ClocksLag'
  BY <1>1 DEF IInv, ClocksLag
<1>3. \A r \in Rows :
        /\ subscriptions'[r].user = subscriptions[r].user
        /\ subscriptions'[r].status = "active" => subscriptions[r].status = "active"
        /\ subscriptions'[r].status # "none" <=> subscriptions[r].status # "none"
  BY DEF IInv, TypeOK, Subscription
<1>4. UsedRowsHaveUsers' /\ OneActive'
  BY <1>3 DEF IInv, UsedRowsHaveUsers, OneActive
<1>5. KeyInUse'
  BY <1>1, <1>3 DEF IInv, KeyInUse, Keys
<1>6. ASSUME NEW v \in Workers, scan'[v].pc = "reserving", Reminder(scan'[v].key)
      PROVE  LET k == scan'[v].key IN
             /\ lock'[k.row] = v
             /\ subscriptions'[k.row].expires_at = k.expires_at
             /\ subscriptions'[k.row].status \in {"active", "expired"}
  <2>1. CASE v = w
    BY <1>1, <1>6, <2>1
  <2>2. CASE v # w
    <3>1. /\ scan'[v] = scan[v] /\ scan[v].key.row \in Rows
          /\ lock[scan[v].key.row] = v
          /\ subscriptions[scan[v].key.row].expires_at = scan[v].key.expires_at
          /\ subscriptions[scan[v].key.row].status \in {"active", "expired"}
      BY <1>1, <1>6, <2>2 DEF IInv, KeyInUse, ReminderLocked, Keys
    <3>2. lock'[scan[v].key.row] = v
      BY <2>2, <3>1
    <3>3. subscriptions'[scan[v].key.row] = subscriptions[scan[v].key.row]
      BY <2>2, <3>1
    <3>4. QED BY <3>1, <3>2, <3>3
  <2>3. QED BY <2>1, <2>2
<1>7. ReminderLocked'
  BY <1>6 DEF ReminderLocked, Reminder
<1>8. QED BY <1>2, <1>4, <1>5, <1>7 DEF IInv

LEMMA UnlockedKeeps ==
  ASSUME TypeOK, NEW w \in Workers
  PROVE  /\ Unlocked(w) \in [Rows -> Workers \cup {NoWorker}]
         /\ \A r \in Rows, v \in Workers \ {w} : lock[r] = v => Unlocked(w)[r] = v
BY DEF Unlocked, TypeOK

LEMMA IdleScan == Idle \in Scan /\ Idle.now = 0 /\ Idle.pc = "idle"
BY NoticeAssumption DEF Idle, Scan

LEMMA BeginStep ==
  ASSUME IInv, NEW w \in Workers, Begin(w)
  PROVE  IInv'
<1>1. PICK q \in InOrder(Candidates(now)) :
        scan' = [scan EXCEPT ![w] = [Idle EXCEPT !.pc = "loop", !.now = now, !.todo = q]]
  BY DEF Begin
<1> DEFINE s == [Idle EXCEPT !.pc = "loop", !.now = now, !.todo = q]
<1>2. q \in Seq(Rows) /\ now \in 0..MaxTime
  BY InOrderSeq DEF Candidates, IInv, TypeOK
<1>3. s \in Scan /\ s.now = now /\ s.pc = "loop"
  BY <1>2, IdleScan DEF Scan
<1> HIDE DEF s
<1>4. scan' = [scan EXCEPT ![w] = s]
  BY <1>1 DEF s
<1>5. TypeOK' /\ SentOnce'
  BY <1>3, <1>4 DEF Begin, IInv, TypeOK, SentOnce
<1>6. UNCHANGED <<now, subscriptions, lock>> /\ now <= now
  BY <1>2 DEF Begin
<1>7. QED BY <1>3, <1>4, <1>5, <1>6, ScanStep

LEMMA SkipStep ==
  ASSUME IInv, NEW w \in Workers, Skip(w)
  PROVE  IInv'
<1> DEFINE s == [scan[w] EXCEPT !.todo = Tail(scan[w].todo), !.broken = TRUE]
<1>1. scan[w] \in Scan /\ scan[w].pc = "loop" /\ scan[w].todo # <<>> /\ scan[w].now <= now
  BY DEF Skip, Looks, IInv, TypeOK, ClocksLag
<1>2. Tail(scan[w].todo) \in Seq(Rows)
  BY <1>1 DEF Scan
<1>3. s \in Scan /\ s.now = scan[w].now /\ s.pc = "loop"
  BY <1>1, <1>2 DEF Scan
<1>4. scan' = [scan EXCEPT ![w] = s]
  BY DEF Skip, IInv, TypeOK
<1> HIDE DEF s
<1>5. TypeOK' /\ SentOnce'
  BY <1>3, <1>4, UnlockedKeeps DEF Skip, IInv, TypeOK, SentOnce
<1>6. /\ UNCHANGED <<now, subscriptions>>
      /\ \A r \in Rows, v \in Workers \ {w} : lock[r] = v => lock'[r] = v
  BY UnlockedKeeps DEF Skip, IInv
<1>7. QED BY <1>1, <1>3, <1>4, <1>5, <1>6, ScanStep

\* A scan that looks at a row: its clock, the row, its lock, and what it chooses.
LEMMA Looking ==
  ASSUME IInv, NEW w \in Workers, Looks(w), NEW kind, Chooses(w, kind),
         kind \in Wanted(Head(scan[w].todo), scan[w].now)
  PROVE  LET r == Head(scan[w].todo)
             s == [scan[w] EXCEPT !.todo = Tail(scan[w].todo), !.pc = "reserving", !.key = Key(r, kind)]
         IN  /\ r \in Rows /\ lock[r] \in {NoWorker, w}
             /\ scan' = [scan EXCEPT ![w] = s]
             /\ s \in Scan /\ s.now = scan[w].now /\ s.now <= now /\ s.pc = "reserving"
             /\ s.key = Key(r, kind) /\ s.key \in Keys /\ s.key.row = r
             /\ s.key.expires_at = subscriptions[r].expires_at /\ s.key.kind = kind
             /\ subscriptions[r].status \in {"active", "expired"}
             /\ Over(r, scan[w].now) => ~Reminder(s.key)
<1> DEFINE r == Head(scan[w].todo)
           s == [scan[w] EXCEPT !.todo = Tail(scan[w].todo), !.pc = "reserving", !.key = Key(r, kind)]
<1>1. /\ scan[w] \in Scan /\ scan[w].todo # <<>> /\ scan[w].now <= now /\ scan[w].now \in 0..MaxTime
      /\ lock[r] \in {NoWorker, w} /\ TypeOK
  BY DEF Looks, IInv, TypeOK, ClocksLag, Scan
<1>2. r \in Rows /\ Tail(scan[w].todo) \in Seq(Rows)
  BY <1>1 DEF Scan
<1>3. /\ kind \in Kinds /\ subscriptions[r].status \in {"active", "expired"}
      /\ Over(r, scan[w].now) => kind[1] \notin {"before", "expiry_day"}
  BY <1>1, <1>2, WantedKinds
<1>4. /\ Key(r, kind) \in Keys /\ Key(r, kind).row = r /\ Key(r, kind).kind = kind
      /\ Key(r, kind).expires_at = subscriptions[r].expires_at
  BY <1>1, <1>2, <1>3, KeyType
<1>5. s \in Scan /\ s.now = scan[w].now /\ s.pc = "reserving" /\ s.key = Key(r, kind)
  BY <1>1, <1>2, <1>4 DEF Scan
<1>6. scan' = [scan EXCEPT ![w] = s]
  BY <1>1 DEF Chooses
<1>7. QED BY <1>1, <1>2, <1>3, <1>4, <1>5, <1>6 DEF Reminder

LEMMA MarkExpiredStep ==
  ASSUME IInv, NEW w \in Workers, MarkExpired(w)
  PROVE  IInv'
<1> DEFINE r == Head(scan[w].todo)
<1>1. PICK kind \in Wanted(r, scan[w].now) : Chooses(w, kind)
  BY DEF MarkExpired
<1>2. Looks(w) /\ Over(r, scan[w].now) /\ subscriptions[r].status = "active"
  BY DEF MarkExpired
<1>3. PICK s \in Scan :
        /\ r \in Rows /\ lock[r] \in {NoWorker, w} /\ scan' = [scan EXCEPT ![w] = s]
        /\ s.now <= now /\ s.pc = "reserving" /\ s.key \in Keys /\ s.key.row = r
        /\ ~Reminder(s.key)
  BY <1>1, <1>2, Looking
<1>4. /\ subscriptions \in [Rows -> Subscription]
      /\ subscriptions' = [subscriptions EXCEPT ![r] = [subscriptions[r] EXCEPT !.status = "expired"]]
      /\ lock' = Unlocked(w) /\ UNCHANGED <<now, bot_blocked, logs, crashes>>
  BY DEF MarkExpired, IInv, TypeOK
<1>5. /\ subscriptions' \in [Rows -> Subscription]
      /\ subscriptions'[r] = [subscriptions[r] EXCEPT !.status = "expired"]
      /\ \A q \in Rows \ {r} : subscriptions'[q] = subscriptions[q]
  BY <1>3, <1>4 DEF Subscription
<1>6. lock' \in [Rows -> Workers \cup {NoWorker}]
      /\ \A q \in Rows, v \in Workers \ {w} : lock[q] = v => lock'[q] = v
  BY <1>4, UnlockedKeeps DEF IInv
<1> HIDE DEF r
<1>7. TypeOK' /\ SentOnce'
  BY <1>3, <1>4, <1>5, <1>6 DEF IInv, TypeOK, SentOnce
<1>8. \A v \in Workers \ {w} : lock[r] # v
  BY <1>3, NoticeAssumption
<1>9. \A q \in Rows :
        \/ subscriptions'[q] = subscriptions[q]
        \/ /\ \A v \in Workers \ {w} : lock[q] # v
           /\ subscriptions[q].status = "active"
           /\ subscriptions'[q] = [subscriptions[q] EXCEPT !.status = "expired"]
  BY <1>2, <1>5, <1>8 DEF r
<1>10. s.key \in Keys /\ subscriptions[s.key.row].status # "none" /\ now' = now
  BY <1>2, <1>3, <1>4 DEF r
<1>11. QED BY <1>3, <1>6, <1>7, <1>9, <1>10, ScanStep

LEMMA KeepStep ==
  ASSUME IInv, NEW w \in Workers, Keep(w)
  PROVE  IInv'
<1> DEFINE r == Head(scan[w].todo)
<1>1. PICK kind \in Wanted(r, scan[w].now) : Chooses(w, kind)
  BY DEF Keep
<1>2. Looks(w)
  BY DEF Keep
<1>3. PICK s \in Scan :
        /\ r \in Rows /\ lock[r] \in {NoWorker, w} /\ scan' = [scan EXCEPT ![w] = s]
        /\ s.now <= now /\ s.pc = "reserving" /\ s.key \in Keys /\ s.key.row = r
        /\ s.key.expires_at = subscriptions[r].expires_at
        /\ subscriptions[r].status \in {"active", "expired"}
  BY <1>1, <1>2, Looking
<1>4. lock' = [lock EXCEPT ![r] = w] /\ UNCHANGED <<now, subscriptions, bot_blocked, logs, crashes>>
  BY DEF Keep
<1> HIDE DEF r
<1>5. /\ lock' \in [Rows -> Workers \cup {NoWorker}] /\ lock'[r] = w
      /\ \A q \in Rows, v \in Workers \ {w} : lock[q] = v => lock'[q] = v
  BY <1>3, <1>4, NoticeAssumption DEF IInv, TypeOK
<1>6. TypeOK' /\ SentOnce'
  BY <1>3, <1>4, <1>5 DEF IInv, TypeOK, SentOnce
<1>7. QED BY <1>3, <1>4, <1>5, <1>6, ScanStep

LEMMA PassOverStep ==
  ASSUME IInv, NEW w \in Workers, PassOver(w)
  PROVE  IInv'
<1> DEFINE s == [scan[w] EXCEPT !.pc = "loop", !.key = NoKey]
<1>1. scan[w] \in Scan /\ scan[w].now <= now
  BY DEF IInv, TypeOK, ClocksLag
<1>2. s \in Scan /\ s.now = scan[w].now /\ s.pc = "loop"
  BY <1>1 DEF Scan
<1>3. scan' = [scan EXCEPT ![w] = s]
  BY DEF PassOver, IInv, TypeOK
<1> HIDE DEF s
<1>4. TypeOK' /\ SentOnce'
  BY <1>2, <1>3 DEF PassOver, IInv, TypeOK, SentOnce
<1>5. QED BY <1>1, <1>2, <1>3, <1>4, ScanStep DEF PassOver

\* A reservation is a new entry, handed over for the first time.
LEMMA ReserveLogs ==
  ASSUME IInv, NEW w \in Workers, Reserve(w)
  PROVE  LET k == scan[w].key IN
         /\ k \in Keys /\ k \notin DOMAIN logs /\ DOMAIN logs' = DOMAIN logs \cup {k}
         /\ logs'[k] = [status |-> "pending", handed |-> 1]
         /\ \A j \in DOMAIN logs : logs'[j] = logs[j]
<1> DEFINE k == scan[w].key
<1>1. k \in Keys /\ k \notin DOMAIN logs
  BY DEF Reserve, Taken, IInv, KeyInUse
<1>2. Handed(k) + 1 = 1
  BY <1>1 DEF Handed
<1>3. logs' = [j \in DOMAIN logs \cup {k} |->
                 IF j = k THEN [status |-> "pending", handed |-> 1] ELSE logs[j]]
  BY <1>2 DEF Reserve
<1> HIDE DEF k
<1>4. /\ DOMAIN logs' = DOMAIN logs \cup {k} /\ logs'[k] = [status |-> "pending", handed |-> 1]
      /\ \A j \in DOMAIN logs : logs'[j] = logs[j]
  BY <1>1, <1>3
<1>5. QED BY <1>1, <1>4 DEF k

LEMMA ReserveStep ==
  ASSUME IInv, NEW w \in Workers, Reserve(w)
  PROVE  IInv'
<1> DEFINE k == scan[w].key
           s == [scan[w] EXCEPT !.pc = "sending"]
<1>1. scan[w] \in Scan /\ scan[w].now <= now /\ k \in Keys /\ subscriptions[k.row].status # "none"
  BY DEF Reserve, IInv, TypeOK, ClocksLag, KeyInUse
<1>2. s \in Scan /\ s.now = scan[w].now /\ s.pc = "sending" /\ s.key = k
  BY <1>1 DEF Scan
<1>3. scan' = [scan EXCEPT ![w] = s]
  BY DEF Reserve, IInv, TypeOK
<1>4. /\ k \notin DOMAIN logs /\ DOMAIN logs' = DOMAIN logs \cup {k}
      /\ logs'[k] = [status |-> "pending", handed |-> 1]
      /\ \A j \in DOMAIN logs : logs'[j] = logs[j]
  BY ReserveLogs
<1>5. lock' = Unlocked(w) /\ UNCHANGED <<now, subscriptions, bot_blocked, crashes>>
  BY DEF Reserve
<1> HIDE DEF s, k
<1>6. SentOnce'
  BY <1>4 DEF IInv, SentOnce
<1>7. TypeOK'
  <2>1. scan' \in [Workers -> Scan] /\ lock' \in [Rows -> Workers \cup {NoWorker}]
    BY <1>2, <1>3, <1>5, UnlockedKeeps DEF IInv, TypeOK
  <2>2. \A j \in DOMAIN logs' :
          j \in Keys /\ logs'[j] \in [status: {"pending", "sent", "failed", "blocked"}, handed: Nat]
    BY <1>1, <1>4 DEF IInv, TypeOK
  <2>3. QED BY <1>5, <2>1, <2>2 DEF IInv, TypeOK
<1>8. \A r \in Rows, v \in Workers \ {w} : lock[r] = v => lock'[r] = v
  BY <1>5, UnlockedKeeps DEF IInv
<1>9. QED BY <1>1, <1>2, <1>3, <1>5, <1>6, <1>7, <1>8, ScanStep

\* A new status for an entry of the log.
LEMMA StatusChanges ==
  ASSUME IInv, NEW k, NEW o \in {"sent", "failed", "blocked"},
         logs' = [logs EXCEPT ![k].status = o]
  PROVE  /\ DOMAIN logs' = DOMAIN logs
         /\ \A j \in DOMAIN logs :
              /\ logs'[j] \in [status: {"pending", "sent", "failed", "blocked"}, handed: Nat]
              /\ logs'[j].handed = logs[j].handed
<1>1. DOMAIN logs' = DOMAIN logs
  OBVIOUS
<1>2. \A j \in DOMAIN logs : logs'[j] = IF j = k THEN [logs[j] EXCEPT !.status = o] ELSE logs[j]
  OBVIOUS
<1>3. \A j \in DOMAIN logs : logs[j] \in [status: {"pending", "sent", "failed", "blocked"}, handed: Nat]
  BY DEF IInv, TypeOK
<1>4. QED BY <1>1, <1>2, <1>3

LEMMA RecordStep ==
  ASSUME IInv, NEW w \in Workers, Record(w)
  PROVE  IInv'
<1> DEFINE k == scan[w].key
           s == [scan[w] EXCEPT !.pc = "loop", !.key = NoKey]
<1>1. scan[w] \in Scan /\ scan[w].now <= now
  BY DEF IInv, TypeOK, ClocksLag
<1>2. s \in Scan /\ s.now = scan[w].now /\ s.pc = "loop"
  BY <1>1 DEF Scan
<1>3. scan' = [scan EXCEPT ![w] = s] /\ UNCHANGED <<now, subscriptions, lock, crashes>>
  BY DEF Record, IInv, TypeOK
<1>4. PICK outcome \in {"sent", "failed", "blocked"} :
        /\ logs' = [logs EXCEPT ![k].status = outcome]
        /\ bot_blocked' = IF outcome = "blocked"
                          THEN bot_blocked \cup {subscriptions[k.row].user} ELSE bot_blocked
  BY DEF Record
<1>5. subscriptions[k.row].user \in Users
  BY DEF Record, IInv, KeyInUse, Keys, UsedRowsHaveUsers
<1> HIDE DEF s, k
<1>6. /\ DOMAIN logs' = DOMAIN logs
      /\ \A j \in DOMAIN logs :
           /\ logs'[j] \in [status: {"pending", "sent", "failed", "blocked"}, handed: Nat]
           /\ logs'[j].handed = logs[j].handed
  BY <1>4, StatusChanges
<1>7. TypeOK' /\ SentOnce'
  BY <1>2, <1>3, <1>4, <1>5, <1>6 DEF IInv, TypeOK, SentOnce
<1>8. QED BY <1>1, <1>2, <1>3, <1>7, ScanStep

LEMMA EndStep ==
  ASSUME IInv, NEW w \in Workers, Finish(w) \/ Crash(w)
  PROVE  IInv'
<1>1. /\ scan' = [scan EXCEPT ![w] = Idle] /\ lock' = Unlocked(w)
      /\ UNCHANGED <<now, subscriptions, bot_blocked, logs>>
      /\ crashes' \in 0..MaxCrashes
  BY NoticeAssumption DEF Finish, Crash, IInv, TypeOK
<1>2. TypeOK' /\ SentOnce'
  BY <1>1, IdleScan, UnlockedKeeps DEF IInv, TypeOK, SentOnce
<1>3. Idle.now <= now
  BY IdleScan DEF IInv, TypeOK
<1>4. \A r \in Rows, v \in Workers \ {w} : lock[r] = v => lock'[r] = v
  BY <1>1, UnlockedKeeps DEF IInv
<1>5. QED BY <1>1, <1>2, <1>3, <1>4, IdleScan, ScanStep

LEMMA OtherStep ==
  ASSUME IInv, Tick \/ RecoverStale \/ \E u \in Users : UserReturns(u)
  PROVE  IInv'
<1>1. CASE Tick
  <2>1. TypeOK' /\ SentOnce' /\ ClocksLag'
    BY <1>1, NoticeAssumption DEF Tick, IInv, TypeOK, SentOnce, ClocksLag, Scan
  <2>2. QED BY <1>1, <2>1 DEF Tick, IInv, UsedRowsHaveUsers, OneActive, KeyInUse, ReminderLocked, Reminder
<1>2. CASE RecoverStale
  <2>1. PICK k \in DOMAIN logs : logs' = [logs EXCEPT ![k].status = "failed"]
    BY <1>2 DEF RecoverStale
  <2>2. /\ DOMAIN logs' = DOMAIN logs
        /\ \A j \in DOMAIN logs :
             /\ logs'[j] \in [status: {"pending", "sent", "failed", "blocked"}, handed: Nat]
             /\ logs'[j].handed = logs[j].handed
    BY <2>1, StatusChanges
  <2>3. TypeOK' /\ SentOnce' /\ ClocksLag'
    BY <1>2, <2>2 DEF RecoverStale, IInv, TypeOK, SentOnce, ClocksLag
  <2>4. QED BY <1>2, <2>3 DEF RecoverStale, IInv, UsedRowsHaveUsers, OneActive, KeyInUse, ReminderLocked, Reminder
<1>3. CASE \E u \in Users : UserReturns(u)
  <2>1. UNCHANGED <<now, subscriptions, lock, logs, scan, crashes>> /\ bot_blocked' \subseteq Users
    BY <1>3 DEF UserReturns, IInv, TypeOK
  <2>2. TypeOK' /\ SentOnce' /\ ClocksLag'
    BY <2>1 DEF IInv, TypeOK, SentOnce, ClocksLag
  <2>3. QED BY <2>1, <2>2 DEF IInv, UsedRowsHaveUsers, OneActive, KeyInUse, ReminderLocked, Reminder
<1>4. QED BY <1>1, <1>2, <1>3

LEMMA StepHolds == IInv /\ [Next]_vars => IInv'
<1> SUFFICES ASSUME IInv, [Next]_vars PROVE IInv'
  OBVIOUS
<1>1. CASE Tick \/ RecoverStale \/ \E u \in Users : UserReturns(u)
  BY <1>1, OtherStep
<1>2. CASE \E u \in Users : Extend(u) \/ Purchase(u) \/ CancelSubscription(u)
  BY <1>2, ExtendStep, PurchaseStep, CancelStep
<1>3. CASE \E w \in Workers : Begin(w) \/ Skip(w) \/ MarkExpired(w) \/ Keep(w)
  BY <1>3, BeginStep, SkipStep, MarkExpiredStep, KeepStep
<1>4. CASE \E w \in Workers : PassOver(w) \/ Reserve(w) \/ Record(w) \/ Finish(w) \/ Crash(w)
  BY <1>4, PassOverStep, ReserveStep, RecordStep, EndStep
<1>5. CASE UNCHANGED vars
  BY <1>5 DEF vars, IInv, TypeOK, SentOnce, ClocksLag, UsedRowsHaveUsers, OneActive, KeyInUse,
    ReminderLocked, Reminder
<1>6. QED BY <1>1, <1>2, <1>3, <1>4, <1>5 DEF Next, Step

LEMMA IInvHolds == Spec => []IInv
BY InitHolds, StepHolds, PTL DEF Spec

-----------------------------------------------------------------------------
(* The variables keep their types.                                          *)
THEOREM TypeCorrect == Spec => []TypeOK
<1>1. IInv => TypeOK
  BY DEF IInv
<1>2. QED BY <1>1, IInvHolds, PTL

(* No notice is handed to Telegram twice, whatever overlaps and dies.       *)
THEOREM NoticesSentOnce == Spec => []SentOnce
<1>1. IInv => SentOnce
  BY DEF IInv
<1>2. QED BY <1>1, IInvHolds, PTL

-----------------------------------------------------------------------------
(* Only a reservation adds to the log, under the lock of its row.           *)
LEMMA CurrentStep ==
  ASSUME IInv, Next
  PROVE  \A k \in DOMAIN logs' \ DOMAIN logs :
           k.kind[1] \in {"before", "expiry_day"} =>
             /\ subscriptions[k.row].status # "cancelled"
             /\ subscriptions[k.row].expires_at = k.expires_at
<1>1. CASE \E w \in Workers : Reserve(w)
  <2>1. PICK w \in Workers : Reserve(w)
    BY <1>1
  <2>2. DOMAIN logs' \ DOMAIN logs = {scan[w].key}
    BY <2>1, ReserveLogs
  <2>3. scan[w].pc = "reserving"
    BY <2>1 DEF Reserve
  <2>4. QED BY <2>2, <2>3 DEF IInv, ReminderLocked, Reminder
<1>2. CASE \E w \in Workers : Record(w)
  <2>1. DOMAIN logs' = DOMAIN logs
    BY <1>2 DEF Record
  <2>2. QED BY <2>1
<1>3. CASE RecoverStale
  <2>1. DOMAIN logs' = DOMAIN logs
    BY <1>3 DEF RecoverStale
  <2>2. QED BY <2>1
<1>4. CASE UNCHANGED logs
  BY <1>4
<1>5. QED BY <1>1, <1>2, <1>3, <1>4 DEF Next, Step, Tick, Extend, Purchase, CancelSubscription,
    UserReturns, Begin, Skip, MarkExpired, Keep, PassOver, Finish, Crash

(* A reminder is reserved only for an end that stands when it is reserved.  *)
THEOREM RemindersCurrent == Spec => RemindersAreCurrent
<1>1. IInv /\ [Next]_vars =>
        [\A k \in DOMAIN logs' \ DOMAIN logs :
           k.kind[1] \in {"before", "expiry_day"} =>
             /\ subscriptions[k.row].status # "cancelled"
             /\ subscriptions[k.row].expires_at = k.expires_at]_vars
  BY CurrentStep
<1>2. QED BY <1>1, IInvHolds, PTL DEF Spec, RemindersAreCurrent

-----------------------------------------------------------------------------
LEMMA OneActiveCounts ==
  ASSUME OneActive', NEW u \in Users
  PROVE  Cardinality(Active(u)') <= 1
<1> DEFINE A == {r \in Rows : subscriptions'[r].user = u /\ subscriptions'[r].status = "active"}
<1>1. \A q, r \in A : q = r
  BY DEF OneActive
<1> HIDE DEF A
<1>2. Cardinality(A) <= 1
  <2>1. CASE A = {}
    BY <2>1, FS_EmptySet
  <2>2. CASE \E r : A = {r}
    <3>1. PICK r : A = {r}
      BY <2>2
    <3>2. Cardinality({r}) = 1
      BY FS_Singleton
    <3>3. QED BY <3>1, <3>2
  <2>3. QED BY <1>1, <2>1, <2>2
<1>3. QED BY <1>2 DEF A, Active

\* A running period is not taken away, but for a cancellation, or shortened.
LEMMA RunningStays ==
  ASSUME IInv, Next, NEW r \in Rows,
         subscriptions[r].status = "active", subscriptions[r].expires_at > now'
  PROVE  /\ subscriptions'[r].status \in {"active", "cancelled"}
         /\ subscriptions'[r].expires_at >= subscriptions[r].expires_at
<1>1. /\ subscriptions \in [Rows -> Subscription] /\ subscriptions[r] \in Subscription
      /\ subscriptions[r].expires_at \in Times /\ now \in 0..MaxTime
  BY DEF IInv, TypeOK, Subscription
<1>2. CASE UNCHANGED subscriptions
  BY <1>1, <1>2 DEF Times
<1>3. CASE \E u \in Users : Extend(u)
  <2>1. PICK q \in Rows, d \in Lengths :
          /\ subscriptions[q].expires_at + d * Day \in Times
          /\ subscriptions' = [subscriptions EXCEPT ![q].expires_at = subscriptions[q].expires_at + d * Day]
    BY <1>1, <1>3 DEF Extend, Current, Active
  <2>2. d * Day \in Nat
    BY NoticeAssumption
  <2>3. CASE q = r
    BY <1>1, <2>1, <2>2, <2>3 DEF Times, Subscription
  <2>4. CASE q # r
    BY <1>1, <2>1, <2>4 DEF Times
  <2>5. QED BY <2>3, <2>4
<1>4. CASE \E u \in Users : Purchase(u)
  <2>1. now' = now
    BY <1>4 DEF Purchase
  <2>2. subscriptions'[r] = subscriptions[r]
    <3>1. PICK u \in Users : Purchase(u)
      BY <1>4
    <3>2. PICK n \in Rows :
            /\ subscriptions[n].status = "none"
            /\ \A q \in Active(u) : subscriptions[q].expires_at <= now
            /\ \A q \in Rows \ (Active(u) \cup {n}) : subscriptions'[q] = subscriptions[q]
      BY <3>1, PurchaseRows
    <3>3. r # n
      BY <3>2
    <3>4. r \notin Active(u)
      BY <1>1, <2>1, <3>2 DEF Times
    <3>5. QED BY <3>2, <3>3, <3>4
  <2>3. QED BY <1>1, <2>2 DEF Times
<1>5. CASE \E u \in Users : CancelSubscription(u)
  <2>1. PICK q \in Rows : subscriptions' = [subscriptions EXCEPT ![q].status = "cancelled"]
    BY <1>5 DEF CancelSubscription, Current, Active
  <2>2. QED BY <1>1, <2>1 DEF Times, Subscription
<1>6. CASE \E w \in Workers : MarkExpired(w)
  <2>1. PICK w \in Workers : MarkExpired(w)
    BY <1>6
  <2>2. /\ subscriptions' = [subscriptions EXCEPT ![Head(scan[w].todo)].status = "expired"]
        /\ subscriptions[Head(scan[w].todo)].expires_at <= scan[w].now /\ now' = now
    BY <2>1 DEF MarkExpired, Over
  <2>3. scan[w].now <= now /\ scan[w].now \in 0..MaxTime
    BY DEF IInv, ClocksLag, TypeOK, Scan
  <2>4. r # Head(scan[w].todo)
    BY <1>1, <2>2, <2>3 DEF Times
  <2>5. subscriptions'[r] = subscriptions[r]
    BY <1>1, <2>2, <2>4
  <2>6. QED BY <1>1, <2>5 DEF Times
<1>7. QED BY <1>2, <1>3, <1>4, <1>5, <1>6 DEF Next, Step, Tick, RecoverStale, UserReturns, Begin,
    Skip, Keep, PassOver, Reserve, Record, Finish, Crash

(* Paid time is kept, and a user has one active row at most.                *)
THEOREM TimeKept == Spec => TimeIsKept
<1>1. IInv /\ IInv' /\ [Next]_vars =>
        [/\ \A r \in Rows :
              subscriptions[r].status = "active" /\ subscriptions[r].expires_at > now' =>
                /\ subscriptions'[r].status \in {"active", "cancelled"}
                /\ subscriptions'[r].expires_at >= subscriptions[r].expires_at
         /\ \A u \in Users : Cardinality(Active(u)') <= 1]_vars
  <2> SUFFICES ASSUME IInv, IInv', Next
               PROVE  /\ \A r \in Rows :
                           subscriptions[r].status = "active" /\ subscriptions[r].expires_at > now' =>
                             /\ subscriptions'[r].status \in {"active", "cancelled"}
                             /\ subscriptions'[r].expires_at >= subscriptions[r].expires_at
                      /\ \A u \in Users : Cardinality(Active(u)') <= 1
    OBVIOUS
  <2>1. \A u \in Users : Cardinality(Active(u)') <= 1
    BY OneActiveCounts DEF IInv
  <2>2. QED BY <2>1, RunningStays
<1>2. QED BY <1>1, IInvHolds, PTL DEF Spec, TimeIsKept
=============================================================================
