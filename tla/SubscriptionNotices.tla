------------------------- MODULE SubscriptionNotices ------------------------
(***************************************************************************)
(* Paid subscriptions and the notices about their end:                     *)
(* app/subscriptions/service.py and repository.py, the administrators'     *)
(* edits, and the Celery tasks notifications.subscription_scan and         *)
(* notifications.recover_stale over app/notifications.                     *)
(*                                                                         *)
(* A purchase or an edit is one short transaction under the locks of the   *)
(* user and the subscription row.  A scan is a long walk over candidates   *)
(* read at its start; it locks a row, may commit in between, and calls     *)
(* Telegram.  It works with the clock it read at its start.  Quotas, the   *)
(* templates and the users an administrator blocked are left out.          *)
(***************************************************************************)
EXTENDS Integers, FiniteSets, Sequences, FiniteSetsExt

CONSTANTS Users, Workers,
          Rows,       \* ids of the subscriptions table
          Day,        \* ticks of the clock in a day
          Lengths,    \* days a purchase or an edit may add
          DaysBefore, DaysAfter, \* notifications.subscription.*
          MaxTime, MaxExpiry, MaxCrashes, \* bounds
          NoUser, NoWorker, NoKey

ASSUME NoticeAssumption ==
  /\ Rows \subseteq Nat /\ IsFiniteSet(Rows)
  /\ Day \in Nat \ {0} /\ Lengths \subseteq Nat \ {0}
  /\ DaysBefore \subseteq Nat \ {0} /\ DaysAfter \subseteq Nat \ {0}
  /\ IsFiniteSet(DaysBefore) /\ IsFiniteSet(DaysAfter)
  /\ MaxTime \in Nat /\ MaxCrashes \in Nat /\ MaxExpiry \in Nat /\ Day <= MaxExpiry /\ Rows # {}
  /\ NoUser \notin Users /\ NoWorker \notin Workers

VARIABLES now,
          subscriptions, \* the rows; status "none" if there is no such row
          lock,          \* the scan that holds each row
          bot_blocked,   \* users.bot_blocked
          logs,          \* notification_logs by dedupe_key: status, and how
                         \* often the notice was handed to Telegram
          scan,          \* what each worker does
          crashes

vars == <<now, subscriptions, lock, bot_blocked, logs, scan, crashes>>

Times == 0..MaxExpiry
Kinds == {<<"expiry_day", 0>>, <<"expired", 0>>}
           \cup ({"before"} \X DaysBefore) \cup ({"after"} \X DaysAfter)
Keys == [row: Rows, expires_at: Times, kind: Kinds]

Subscription == [user: Users \cup {NoUser}, expires_at: Times,
                 status: {"none", "active", "expired", "cancelled"}]

Scan == [pc: {"idle", "loop", "reserving", "sending"},
         now: 0..MaxTime,
         todo: Seq(Rows),   \* candidates not yet looked at
         broken: BOOLEAN,   \* a rollback has expired the objects of the list
         key: Keys \cup {NoKey}]

Idle == [pc |-> "idle", now |-> 0, todo |-> <<>>, broken |-> FALSE, key |-> NoKey]

\* We begin with one subscription that ends within a day or has just ended.
Init ==
  /\ now = 0
  /\ \E u \in Users, e \in 0..Day :
       subscriptions = [r \in Rows |->
         IF r = Min(Rows) THEN [user |-> u, expires_at |-> e, status |-> "active"]
         ELSE [user |-> NoUser, expires_at |-> 0, status |-> "none"]]
  /\ lock = [r \in Rows |-> NoWorker]
  /\ bot_blocked = {}
  /\ logs = <<>>
  /\ scan = [w \in Workers |-> Idle]
  /\ crashes = 0

-----------------------------------------------------------------------------
(* The clock and the rows.                                                  *)

Tick ==
  /\ now < MaxTime
  /\ now' = now + 1
  /\ UNCHANGED <<subscriptions, lock, bot_blocked, logs, scan, crashes>>

Active(u) == {r \in Rows : subscriptions[r].user = u /\ subscriptions[r].status = "active"}
Current(u) == {r \in Active(u) : subscriptions[r].expires_at > now}

\* A paid period is added to the running one, or an administrator adds days.
Extend(u) ==
  /\ \E r \in Current(u), d \in Lengths :
       /\ lock[r] = NoWorker
       /\ subscriptions[r].expires_at + d * Day \in Times
       /\ subscriptions' = [subscriptions EXCEPT ![r].expires_at = @ + d * Day]
  /\ UNCHANGED <<now, lock, bot_blocked, logs, scan, crashes>>

\* Mutant of Purchase: the row that has run out stays active.
PurchaseBeside(u) ==
  /\ Current(u) = {}
  /\ \E r \in Rows, d \in Lengths :
       /\ subscriptions[r].status = "none" /\ \A q \in Rows : q < r => subscriptions[q].status # "none"
       /\ now + d * Day \in Times
       /\ subscriptions' = [subscriptions EXCEPT ![r] =
            [user |-> u, expires_at |-> now + d * Day, status |-> "active"]]
  /\ UNCHANGED <<now, lock, bot_blocked, logs, scan, crashes>>

\* No running period: the active row that has run out is marked, a row is added.
Purchase(u) ==
  /\ Current(u) = {}
  /\ \A q \in Active(u) : lock[q] = NoWorker
  /\ \E r \in Rows, d \in Lengths :
       /\ subscriptions[r].status = "none" /\ \A q \in Rows : q < r => subscriptions[q].status # "none"
       /\ now + d * Day \in Times
       /\ subscriptions' = [q \in Rows |->
            CASE q = r -> [user |-> u, expires_at |-> now + d * Day, status |-> "active"]
              [] q \in Active(u) -> [subscriptions[q] EXCEPT !.status = "expired"]
              [] OTHER -> subscriptions[q]]
  /\ UNCHANGED <<now, lock, bot_blocked, logs, scan, crashes>>

\* The web panel; of a row that has run out it refuses and rolls back.
CancelSubscription(u) ==
  /\ \E r \in Current(u) :
       /\ lock[r] = NoWorker
       /\ subscriptions' = [subscriptions EXCEPT ![r].status = "cancelled"]
  /\ UNCHANGED <<now, lock, bot_blocked, logs, scan, crashes>>

\* The user writes to the bot again.
UserReturns(u) ==
  /\ u \in bot_blocked
  /\ bot_blocked' = bot_blocked \ {u}
  /\ UNCHANGED <<now, subscriptions, lock, logs, scan, crashes>>

-----------------------------------------------------------------------------
(* A scan.                                                                  *)

\* _due_event: the kind of notice due at time t for a period that ends at e.
Due(e, t) ==
  IF e <= t THEN
    IF t - e < Day THEN {<<"expired", 0>>}
    ELSE {<<"after", d>> : d \in {x \in DaysAfter : e + x * Day <= t /\ t < e + (x + 1) * Day}}
  ELSE IF e \div Day = t \div Day THEN {<<"expiry_day", 0>>}
  ELSE {<<"before", d>> : d \in {x \in DaysBefore : (x - 1) * Day < e - t /\ e - t <= x * Day}}

Candidates(t) ==
  {r \in Rows :
     LET s == subscriptions[r] IN
     /\ s.status \in {"active", "expired"} /\ s.user \notin bot_blocked
     /\ t - (Max(DaysAfter \cup {0}) + 2) * Day <= s.expires_at
     /\ s.expires_at <= t + (Max(DaysBefore \cup {0}) + 1) * Day}

Earlier(q, r) ==
  \/ subscriptions[q].expires_at < subscriptions[r].expires_at
  \/ subscriptions[q].expires_at = subscriptions[r].expires_at /\ q < r

InOrder(S) ==
  {q \in [1..Cardinality(S) -> S] : \A i, j \in DOMAIN q : i < j => Earlier(q[i], q[j])}

\* A scan without candidates changes nothing.
Begin(w) ==
  /\ scan[w].pc = "idle" /\ Candidates(now) # {}
  /\ \E q \in InOrder(Candidates(now)) :
       scan' = [scan EXCEPT ![w] = [Idle EXCEPT !.pc = "loop", !.now = now, !.todo = q]]
  /\ UNCHANGED <<now, subscriptions, lock, bot_blocked, logs, crashes>>

\* A commit or a rollback gives every row back.
Unlocked(w) == [r \in Rows |-> IF lock[r] = w THEN NoWorker ELSE lock[r]]

\* The next candidate, once its row is locked and read again.
Looks(w) ==
  /\ scan[w].pc = "loop" /\ scan[w].todo # <<>> /\ ~scan[w].broken
  /\ lock[Head(scan[w].todo)] \in {NoWorker, w}

\* has_other_current_access
OtherAccess(r, t) ==
  \E q \in Active(subscriptions[r].user) : q # r /\ subscriptions[q].expires_at > t

Over(r, t) == subscriptions[r].expires_at <= t

\* The notice the row calls for, if any.
Wanted(r, t) ==
  IF subscriptions[r].status \in {"active", "expired"} /\ ~(Over(r, t) /\ OtherAccess(r, t))
  THEN Due(subscriptions[r].expires_at, t)
  ELSE {}

Key(r, kind) == [row |-> r, expires_at |-> subscriptions[r].expires_at, kind |-> kind]

\* Nothing is due: the rollback also expires the objects of the other candidates.
Skip(w) ==
  LET r == Head(scan[w].todo) IN
  /\ Looks(w)
  /\ Wanted(r, scan[w].now) = {}
  /\ lock' = Unlocked(w)
  /\ scan' = [scan EXCEPT ![w].todo = Tail(@), ![w].broken = TRUE]
  /\ UNCHANGED <<now, subscriptions, bot_blocked, logs, crashes>>

Chooses(w, kind) ==
  scan' = [scan EXCEPT ![w].todo = Tail(@), ![w].pc = "reserving",
                       ![w].key = Key(Head(scan[w].todo), kind)]

\* The first scan that finds the period over commits so, and unlocks the row.
MarkExpired(w) ==
  LET r == Head(scan[w].todo) IN
  /\ Looks(w)
  /\ Over(r, scan[w].now) /\ subscriptions[r].status = "active"
  /\ \E kind \in Wanted(r, scan[w].now) : Chooses(w, kind)
  /\ subscriptions' = [subscriptions EXCEPT ![r].status = "expired"]
  /\ lock' = Unlocked(w)
  /\ UNCHANGED <<now, bot_blocked, logs, crashes>>

\* Mutant of Keep: the decision is committed before the notice is reserved.
KeepUnlocked(w) ==
  LET r == Head(scan[w].todo) IN
  /\ Looks(w)
  /\ ~(Over(r, scan[w].now) /\ subscriptions[r].status = "active")
  /\ \E kind \in Wanted(r, scan[w].now) : Chooses(w, kind)
  /\ lock' = Unlocked(w)
  /\ UNCHANGED <<now, subscriptions, bot_blocked, logs, crashes>>

\* Otherwise the row stays locked until the notice is reserved.
Keep(w) ==
  LET r == Head(scan[w].todo) IN
  /\ Looks(w)
  /\ ~(Over(r, scan[w].now) /\ subscriptions[r].status = "active")
  /\ \E kind \in Wanted(r, scan[w].now) : Chooses(w, kind)
  /\ lock' = [lock EXCEPT ![r] = w]
  /\ UNCHANGED <<now, subscriptions, bot_blocked, logs, crashes>>

\* Mutant of Taken: only a notice that was sent counts as a duplicate.
SentBefore(k) == k \in DOMAIN logs /\ logs[k].status = "sent"

\* ON CONFLICT (dedupe_key) DO NOTHING
Taken(k) == k \in DOMAIN logs

\* Somebody has reserved it: on to the next, with the locks held so far.
PassOver(w) ==
  /\ scan[w].pc = "reserving" /\ Taken(scan[w].key)
  /\ scan' = [scan EXCEPT ![w].pc = "loop", ![w].key = NoKey]
  /\ UNCHANGED <<now, subscriptions, lock, bot_blocked, logs, crashes>>

Handed(k) == IF k \in DOMAIN logs THEN logs[k].handed ELSE 0

\* reserve and its commit, before Telegram is called.
Reserve(w) ==
  LET k == scan[w].key IN
  /\ scan[w].pc = "reserving" /\ ~Taken(k)
  /\ logs' = [j \in DOMAIN logs \cup {k} |->
       IF j = k THEN [status |-> "pending", handed |-> Handed(k) + 1] ELSE logs[j]]
  /\ lock' = Unlocked(w)
  /\ scan' = [scan EXCEPT ![w].pc = "sending"]
  /\ UNCHANGED <<now, subscriptions, bot_blocked, crashes>>

\* Telegram's answer is written whatever recovery has made of the row.
Record(w) ==
  LET k == scan[w].key IN
  /\ scan[w].pc = "sending"
  /\ \E outcome \in {"sent", "failed", "blocked"} :
       /\ logs' = [logs EXCEPT ![k].status = outcome]
       /\ bot_blocked' = IF outcome = "blocked"
                         THEN bot_blocked \cup {subscriptions[k.row].user} ELSE bot_blocked
  /\ scan' = [scan EXCEPT ![w].pc = "loop", ![w].key = NoKey]
  /\ UNCHANGED <<now, subscriptions, lock, crashes>>

\* The list is done, or its next object cannot be read after a rollback: an
\* asynchronous session cannot load an expired attribute (MissingGreenlet).
Finish(w) ==
  /\ scan[w].pc = "loop" /\ (scan[w].todo = <<>> \/ scan[w].broken)
  /\ lock' = Unlocked(w)
  /\ scan' = [scan EXCEPT ![w] = Idle]
  /\ UNCHANGED <<now, subscriptions, bot_blocked, logs, crashes>>

Crash(w) ==
  /\ scan[w].pc # "idle" /\ crashes < MaxCrashes
  /\ crashes' = crashes + 1
  /\ lock' = Unlocked(w)
  /\ scan' = [scan EXCEPT ![w] = Idle]
  /\ UNCHANGED <<now, subscriptions, bot_blocked, logs>>

\* fail_stale_pending: after 20 minutes, during which the scan that reserved it
\* has died or is still waiting for Telegram.
RecoverStale ==
  /\ \E k \in DOMAIN logs :
       logs[k].status = "pending" /\ logs' = [logs EXCEPT ![k].status = "failed"]
  /\ UNCHANGED <<now, subscriptions, lock, bot_blocked, scan, crashes>>

Step(w) ==
  \/ Skip(w) \/ MarkExpired(w) \/ Keep(w) \/ PassOver(w) \/ Reserve(w) \/ Record(w) \/ Finish(w)

Next ==
  \/ Tick \/ RecoverStale
  \/ \E u \in Users : Extend(u) \/ Purchase(u) \/ CancelSubscription(u) \/ UserReturns(u)
  \/ \E w \in Workers : Begin(w) \/ Step(w) \/ Crash(w)

Spec == Init /\ [][Next]_vars

\* The beat schedule starts a scan every minute, a scan goes on until it ends,
\* and recovery runs every fifteen minutes.
FairSpec ==
  /\ Spec
  /\ \A w \in Workers : WF_vars(Begin(w) \/ Step(w))
  /\ WF_vars(RecoverStale)

-----------------------------------------------------------------------------
(* The types of the variables.                                              *)
TypeOK ==
  /\ now \in 0..MaxTime /\ crashes \in 0..MaxCrashes
  /\ subscriptions \in [Rows -> Subscription]
  /\ lock \in [Rows -> Workers \cup {NoWorker}]
  /\ bot_blocked \subseteq Users
  /\ DOMAIN logs \subseteq Keys
  /\ \A k \in DOMAIN logs :
       logs[k] \in [status: {"pending", "sent", "failed", "blocked"}, handed: Nat]
  /\ scan \in [Workers -> Scan]

(***************************************************************************)
(* README.md:1099: the same notice is never handed to Telegram twice, with *)
(* two scans at a time, crashes, recovery and answers that come after it.  *)
(***************************************************************************)
SentOnce == \A k \in DOMAIN logs : logs[k].handed <= 1

(***************************************************************************)
(* A reminder of a coming end is reserved only for an end that stands: a   *)
(* renewal, an edit or a cancellation since the candidates were read wins, *)
(* to the moment the notice is reserved.  (The end may have passed: the    *)
(* clock of the scan is as old as the scan.)                               *)
(***************************************************************************)
RemindersAreCurrent ==
  [][\A k \in DOMAIN logs' \ DOMAIN logs :
       k.kind[1] \in {"before", "expiry_day"} =>
         /\ subscriptions[k.row].status # "cancelled"
         /\ subscriptions[k.row].expires_at = k.expires_at]_vars

(***************************************************************************)
(* Paid time is kept: until its end no scan, purchase or edit takes a row  *)
(* out of use, but for a cancellation, or moves its end forward; and a     *)
(* user never has two active rows.                                         *)
(***************************************************************************)
TimeIsKept ==
  [][/\ \A r \in Rows :
          subscriptions[r].status = "active" /\ subscriptions[r].expires_at > now' =>
            /\ subscriptions'[r].status \in {"active", "cancelled"}
            /\ subscriptions'[r].expires_at >= subscriptions[r].expires_at
     /\ \A u \in Users : Cardinality(Active(u)') <= 1]_vars

(***************************************************************************)
(* STAGE10_REPORT.md:143-153: the default flow covers the days before the  *)
(* end, the end and the day after.  A notice that stays due is reserved.   *)
(***************************************************************************)
NoticeOwed(r) ==
  /\ subscriptions[r].user \notin bot_blocked
  /\ \E kind \in Wanted(r, now) : Key(r, kind) \notin DOMAIN logs

DueIsNotified == \A r \in Rows : NoticeOwed(r) ~> ~NoticeOwed(r)
=============================================================================
