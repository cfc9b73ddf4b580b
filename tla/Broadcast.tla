----------------------------- MODULE Broadcast -----------------------------
(***************************************************************************)
(* One broadcast and the Celery workers that may execute it:               *)
(* app/broadcasts/sender.py, repository.py and service.py.                 *)
(*                                                                         *)
(* Any number of execute tasks for the broadcast may be in the queue (the  *)
(* beat enqueues one every 30 seconds until it starts, recovery enqueues   *)
(* stale ones, the broker redelivers unacknowledged ones), so a free       *)
(* worker may pick one up at any time.  An execution takes the Redis lock  *)
(* and then works in short transactions, each of which locks the broadcast *)
(* row: each is one action.  Between them it talks to Telegram, and each   *)
(* request is one action too.  The text, the picture and the pace of       *)
(* sending are left out; so are users who are deleted while a message is   *)
(* on its way to them.                                                     *)
(***************************************************************************)
EXTENDS Integers, FiniteSets

CONSTANTS Users, Workers,
          MaxAttempts,  \* broadcasts.max_attempts: requests for one recipient
          MaxCrashes,   \* bound on crashes and database outages
          NoWorker, Orphan \* the lock is free; its holder is dead

ASSUME BroadcastAssumption ==
  /\ IsFiniteSet(Users) /\ MaxCrashes \in Nat /\ MaxAttempts \in Nat \ {0}
  /\ NoWorker \notin Workers /\ Orphan \notin Workers /\ NoWorker # Orphan

VARIABLES status, due, stop_requested, counts, \* the broadcasts row
          recipients, \* status of each broadcast_recipients row, "none" if absent
          bot_blocked, \* users.bot_blocked
          lock,   \* broadcast:execute in Redis
          lapsed, \* the lock ran out under a live execution once
          pc, target, \* what each worker does, and to whom it sends
          tries,  \* requests each worker has made for that recipient
          handed, \* all requests for a recipient that may have reached Telegram
          crashes

row == <<status, due, stop_requested, counts>>
vars == <<row, recipients, bot_blocked, lock, lapsed, pc, target, tries, handed, crashes>>

Statuses == {"draft", "scheduled", "running", "completed", "cancelled", "failed"}
Finished == {"completed", "cancelled", "failed"}
Outcomes == {"sent", "failed", "blocked"}
Phases == {"idle", "locked", "loop", "sending", "closing"}

Init ==
  /\ status = "draft" /\ due = FALSE /\ stop_requested = FALSE
  /\ counts = [total |-> 0, sent |-> 0, failed |-> 0, blocked |-> 0]
  /\ recipients = [u \in Users |-> "none"]
  /\ bot_blocked = {}
  /\ lock = NoWorker /\ lapsed = FALSE
  /\ pc = [w \in Workers |-> "idle"]
  /\ target = [w \in Workers |-> {}]
  /\ tries = [w \in Workers |-> 0]
  /\ handed = [u \in Users |-> 0]
  /\ crashes = 0

-----------------------------------------------------------------------------
(* The administrator's requests, each one transaction on the locked row.    *)

\* schedule: at once, or at a later time.
Schedule ==
  /\ status \in {"draft", "scheduled"}
  /\ status' = "scheduled"
  /\ due' \in BOOLEAN
  /\ stop_requested' = FALSE
  /\ UNCHANGED <<counts, recipients, bot_blocked, lock, lapsed, pc, target, tries, handed, crashes>>

\* stop: cancel what has not started, ask what is running to stop.
Stop ==
  /\ status \notin Finished
  /\ IF status = "running"
     THEN stop_requested' = TRUE /\ UNCHANGED status
     ELSE status' = "cancelled" /\ UNCHANGED stop_requested
  /\ UNCHANGED <<due, counts, recipients, bot_blocked, lock, lapsed, pc, target, tries, handed, crashes>>

\* scheduled_at passes.
BecomesDue ==
  /\ status = "scheduled" /\ ~due
  /\ due' = TRUE
  /\ UNCHANGED <<status, stop_requested, counts, recipients, bot_blocked, lock, lapsed, pc, target,
                 tries, handed, crashes>>

\* A user writes to the bot again: update_telegram_profile clears the flag.
UserReturns(u) ==
  /\ u \in bot_blocked
  /\ bot_blocked' = bot_blocked \ {u}
  /\ UNCHANGED <<row, recipients, lock, lapsed, pc, target, tries, handed, crashes>>

-----------------------------------------------------------------------------
(* Counters.                                                                *)

Having(rs, st) == {u \in Users : rs[u] = st}

\* recount: the totals of the recipients as this transaction leaves them.
Recounted(rs) ==
  [total   |-> Cardinality(Users \ Having(rs, "none")),
   sent    |-> Cardinality(Having(rs, "sent")),
   failed  |-> Cardinality(Having(rs, "failed")),
   blocked |-> Cardinality(Having(rs, "blocked"))]

\* Mutant of Uncertain: the message is sent again.
UncertainRetried(rs) == [u \in Users |-> IF rs[u] = "sending" THEN "pending" ELSE rs[u]]

\* fail_uncertain_sending: an interrupted send is not repeated.
Uncertain(rs) == [u \in Users |-> IF rs[u] = "sending" THEN "failed" ELSE rs[u]]

-----------------------------------------------------------------------------
(* An execution.                                                            *)

\* The lock is tried without waiting; "already-running" changes nothing.
Start(w) ==
  /\ pc[w] = "idle"
  /\ lock = NoWorker
  /\ lock' = w
  /\ pc' = [pc EXCEPT ![w] = "locked"]
  /\ UNCHANGED <<row, recipients, bot_blocked, target, tries, handed, crashes, lapsed>>

\* The first transaction of a due broadcast: the audience is fixed now, any
\* of the users that the filters select and that have not blocked the bot.
Launch(w) ==
  /\ pc[w] = "locked"
  /\ status = "scheduled" /\ due
  /\ status' = "running" /\ stop_requested' = FALSE
  /\ \E audience \in SUBSET (Users \ bot_blocked) :
       /\ recipients' = [u \in Users |->
            IF u \in audience /\ recipients[u] = "none" THEN "pending" ELSE recipients[u]]
       /\ counts' = [counts EXCEPT !.total = Cardinality(Users \ Having(recipients', "none"))]
  /\ pc' = [pc EXCEPT ![w] = "loop"]
  /\ UNCHANGED <<due, bot_blocked, lock, lapsed, target, tries, handed, crashes>>

\* Mutant of Resume: the counters are not recomputed.
ResumeUncounted(w) ==
  /\ pc[w] = "locked" /\ status = "running"
  /\ recipients' = Uncertain(recipients)
  /\ pc' = [pc EXCEPT ![w] = "loop"]
  /\ UNCHANGED <<row, bot_blocked, lock, lapsed, target, tries, handed, crashes>>

\* The first transaction of a broadcast another execution has left running.
Resume(w) ==
  /\ pc[w] = "locked" /\ status = "running"
  /\ recipients' = Uncertain(recipients)
  /\ counts' = Recounted(recipients')
  /\ pc' = [pc EXCEPT ![w] = "loop"]
  /\ UNCHANGED <<status, due, stop_requested, bot_blocked, lock, lapsed, target, tries, handed, crashes>>

\* Not due, still a draft, or finished: nothing to execute.
Decline(w) ==
  /\ pc[w] = "locked"
  /\ status # "running" /\ ~(status = "scheduled" /\ due)
  /\ pc' = [pc EXCEPT ![w] = "closing"]
  /\ UNCHANGED <<row, recipients, bot_blocked, lock, lapsed, target, tries, handed, crashes>>

\* The loop sees the request to stop.
Cancel(w) ==
  /\ pc[w] = "loop" /\ stop_requested
  /\ status' = "cancelled" /\ counts' = Recounted(recipients)
  /\ pc' = [pc EXCEPT ![w] = "closing"]
  /\ UNCHANGED <<due, stop_requested, recipients, bot_blocked, lock, lapsed, target, tries, handed, crashes>>

\* No recipient is pending any more.
Complete(w) ==
  /\ pc[w] = "loop" /\ ~stop_requested
  /\ Having(recipients, "pending") = {}
  /\ status' = "completed" /\ counts' = Recounted(recipients)
  /\ pc' = [pc EXCEPT ![w] = "closing"]
  /\ UNCHANGED <<due, stop_requested, recipients, bot_blocked, lock, lapsed, target, tries, handed, crashes>>

\* next_pending: the recipient is committed as "sending" before the first
\* request, which is made at once.
Take(w) ==
  /\ pc[w] = "loop" /\ ~stop_requested
  /\ \E u \in Having(recipients, "pending") :
       /\ recipients' = [recipients EXCEPT ![u] = "sending"]
       /\ target' = [target EXCEPT ![w] = {u}]
       /\ handed' = [handed EXCEPT ![u] = @ + 1]
  /\ tries' = [tries EXCEPT ![w] = 1]
  /\ pc' = [pc EXCEPT ![w] = "sending"]
  /\ UNCHANGED <<row, bot_blocked, lock, lapsed, crashes>>

\* TelegramRetryAfter, TelegramNetworkError or TelegramServerError: the request
\* is repeated, though after the last two Telegram may have accepted it.  The
\* row is not looked at, nor whether the lock is still held.
Repeat(w) ==
  /\ pc[w] = "sending" /\ tries[w] < MaxAttempts
  /\ tries' = [tries EXCEPT ![w] = @ + 1]
  /\ handed' = [u \in Users |-> IF u \in target[w] THEN handed[u] + 1 ELSE handed[u]]
  /\ UNCHANGED <<row, recipients, bot_blocked, lock, lapsed, pc, target, crashes>>

\* The last answer - after the bounded requests it may be an error though an
\* earlier one was accepted - is written whatever the row says meanwhile, and
\* counted once.
Record(w) ==
  /\ pc[w] = "sending"
  /\ \E u \in target[w], outcome \in Outcomes :
       /\ recipients' = [recipients EXCEPT ![u] = outcome]
       /\ counts' = [counts EXCEPT ![outcome] = @ + 1]
       /\ bot_blocked' = IF outcome = "blocked" THEN bot_blocked \cup {u} ELSE bot_blocked
  /\ target' = [target EXCEPT ![w] = {}] /\ tries' = [tries EXCEPT ![w] = 0]
  /\ pc' = [pc EXCEPT ![w] = "loop"]
  /\ UNCHANGED <<status, due, stop_requested, lock, lapsed, handed, crashes>>

\* Mutant of Fail: the status is overwritten whatever it is.
FailAnyStatus(w) ==
  /\ pc[w] \in {"locked", "loop", "sending"}
  /\ status' = "failed" /\ counts' = Recounted(recipients)
  /\ target' = [target EXCEPT ![w] = {}] /\ tries' = [tries EXCEPT ![w] = 0]
  /\ pc' = [pc EXCEPT ![w] = "closing"]
  /\ UNCHANGED <<due, stop_requested, recipients, bot_blocked, lock, lapsed, handed, crashes>>

\* An exception outside the send: a running broadcast becomes failed.
Fail(w) ==
  /\ pc[w] \in {"locked", "loop", "sending"}
  /\ IF status = "running"
     THEN status' = "failed" /\ counts' = Recounted(recipients)
     ELSE UNCHANGED <<status, counts>>
  /\ target' = [target EXCEPT ![w] = {}] /\ tries' = [tries EXCEPT ![w] = 0]
  /\ pc' = [pc EXCEPT ![w] = "closing"]
  /\ UNCHANGED <<due, stop_requested, recipients, bot_blocked, lock, lapsed, handed, crashes>>

\* The database is out of reach: not even the failure can be written.
FailUnsaved(w) ==
  /\ pc[w] \in {"locked", "loop", "sending"} /\ crashes < MaxCrashes
  /\ crashes' = crashes + 1
  /\ target' = [target EXCEPT ![w] = {}] /\ tries' = [tries EXCEPT ![w] = 0]
  /\ pc' = [pc EXCEPT ![w] = "closing"]
  /\ UNCHANGED <<row, recipients, bot_blocked, lock, lapsed, handed>>

\* finally: the lock is released if it is still owned.
Close(w) ==
  /\ pc[w] = "closing"
  /\ lock' = IF lock = w THEN NoWorker ELSE lock
  /\ pc' = [pc EXCEPT ![w] = "idle"]
  /\ UNCHANGED <<row, recipients, bot_blocked, target, tries, handed, crashes, lapsed>>

\* The worker process dies; its lock stays in Redis.
Crash(w) ==
  /\ pc[w] # "idle" /\ crashes < MaxCrashes
  /\ crashes' = crashes + 1
  /\ lock' = IF lock = w THEN Orphan ELSE lock
  /\ target' = [target EXCEPT ![w] = {}] /\ tries' = [tries EXCEPT ![w] = 0]
  /\ pc' = [pc EXCEPT ![w] = "idle"]
  /\ UNCHANGED <<row, recipients, bot_blocked, handed, lapsed>>

\* Mutant of Expire: the lock is taken without a timeout.
ExpireNever == FALSE /\ UNCHANGED vars

\* timeout=600: the lock of a dead worker runs out, and that of a live one too
\* when fewer than 100 recipients are done within it: another can then start.
Expire ==
  /\ lock # NoWorker
  /\ lock' = NoWorker
  /\ lapsed' = (lapsed \/ lock # Orphan)
  /\ UNCHANGED <<row, recipients, bot_blocked, pc, target, tries, handed, crashes>>

Execute(w) ==
  \/ Start(w) \/ Launch(w) \/ Resume(w) \/ Decline(w) \/ Cancel(w) \/ Complete(w)
  \/ Take(w) \/ Repeat(w) \/ Record(w) \/ Close(w)

Next ==
  \/ Schedule \/ Stop \/ BecomesDue \/ Expire
  \/ \E u \in Users : UserReturns(u)
  \/ \E w \in Workers : Execute(w) \/ Fail(w) \/ FailUnsaved(w) \/ Crash(w)

Spec == Init /\ [][Next]_vars

\* The beat keeps enqueuing executions of a broadcast that is due or stale, so
\* some free worker starts one; an execution goes on until it ends; locks expire.
FairSpec ==
  /\ Spec
  /\ \A w \in Workers : WF_vars(Execute(w) /\ pc[w] # "idle")
  /\ WF_vars(\E w \in Workers : Start(w) /\ status \in {"scheduled", "running"})
  /\ WF_vars(lock = Orphan /\ Expire)

-----------------------------------------------------------------------------
(* The types of the variables.                                              *)
TypeOK ==
  /\ status \in Statuses /\ due \in BOOLEAN /\ stop_requested \in BOOLEAN
  /\ counts \in [total: Nat, sent: Nat, failed: Nat, blocked: Nat]
  /\ recipients \in [Users -> {"none", "pending", "sending"} \cup Outcomes]
  /\ bot_blocked \subseteq Users
  /\ lock \in Workers \cup {NoWorker, Orphan} /\ lapsed \in BOOLEAN
  /\ pc \in [Workers -> Phases] /\ target \in [Workers -> SUBSET Users]
  /\ tries \in [Workers -> 0..MaxAttempts]
  /\ handed \in [Users -> Nat] /\ crashes \in 0..MaxCrashes

(***************************************************************************)
(* Whatever workers crash, lose the lock or run at the same time, no       *)
(* recipient is the subject of more requests than one execution may make:  *)
(* a recipient may get a message twice, by the retries after an error that *)
(* follows acceptance, but recovery never resends what was uncertain.      *)
(***************************************************************************)
AttemptsBounded == \A u \in Users : handed[u] <= MaxAttempts

(***************************************************************************)
(* The durable progress is exact at every commit, not only at the end, and *)
(* once a broadcast was completed or cancelled no delivery is unresolved - *)
(* as long as the lock has outlived its holders.                           *)
(***************************************************************************)
ProgressIsExact ==
  ~lapsed =>
    /\ counts = Recounted(recipients)
    /\ status \in {"completed", "cancelled"} => Having(recipients, "sending") = {}

(***************************************************************************)
(* What has finished stays as it is, as long as the lock has outlived its  *)
(* holders: neither the status of a finished broadcast nor the outcome of  *)
(* a recipient is rewritten.  Without the lock they can be: see Record.    *)
(***************************************************************************)
OutcomesAreFinal ==
  [][~lapsed =>
       /\ status \in Finished => status' = status
       /\ \A u \in Users : recipients[u] \in Outcomes => recipients'[u] = recipients[u]]_vars

(***************************************************************************)
(* A started broadcast finishes, across crashes: recovery takes it over.   *)
(***************************************************************************)
RunningFinishes == status = "running" ~> status \in Finished
=============================================================================
