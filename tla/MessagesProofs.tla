--------------------------- MODULE MessagesProofs ---------------------------
(* What is sent through Telegram is sent by one execution only: Broadcast's *)
(* promises hold for every audience, every set of workers, every number of  *)
(* attempts and of crashes, and those of Alerts for every set of turns,     *)
(* callbacks and administrators and for every cooldown.  Both rest on the   *)
(* same device: the row of a message leaves its first status in the         *)
(* transaction before the call, and nothing gives it that status again.     *)
EXTENDS Broadcast, Alerts, FiniteSetTheorems, SequenceTheorems, TLAPS

(***************************************************************************)
(* PART 1: Broadcast.                                                      *)
(*                                                                         *)
(* The requests for a recipient need no lock: it leaves "pending" in the   *)
(* transaction before the first of them, nothing makes it pending again,   *)
(* and the execution that took it counts the rest.  The counters and the   *)
(* outcomes need the lock: while it has never lapsed, at most one worker   *)
(* executes, and only it has a message on its way.                         *)
(***************************************************************************)

\* A recipient that is still to be sent to, or not selected, was the subject of
\* no request and is on nobody's hands; the requests for one that is on
\* somebody's hands were all made by that worker, and the only one it has.
HandedMatches ==
  /\ \A u \in Users : handed[u] <= MaxAttempts
  /\ \A u \in Users : recipients[u] \in {"none", "pending"} => handed[u] = 0
  /\ \A w \in Workers : \A u \in target[w] :
       /\ handed[u] = tries[w] /\ recipients[u] \notin {"none", "pending"}
       /\ \A x \in Workers \ {w} : u \notin target[x]

\* Whoever executes has the lock.
Exclusive == \A w \in Workers : pc[w] # "idle" => lock = w

\* What the row and the recipients look like while a worker is in its loop.
Executing ==
  \A w \in Workers :
    /\ pc[w] \in {"loop", "sending"} => status = "running"
    /\ pc[w] = "loop" => Having(recipients, "sending") = {}
    /\ pc[w] = "sending" =>
         /\ target[w] = Having(recipients, "sending")
         /\ \A u, v \in target[w] : u = v

\* Only a broadcast that was started has messages on their way.
SendingWasStarted == Having(recipients, "sending") # {} => status \in {"running", "failed"}

Locked ==
  /\ Exclusive /\ Executing /\ SendingWasStarted
  /\ counts = Recounted(recipients)

IInv == TypeOK /\ HandedMatches /\ (~lapsed => Locked)

-----------------------------------------------------------------------------
(* Counting a subset of the users gives a number.                           *)
LEMMA UsersCount == \A S \in SUBSET Users : IsFiniteSet(S) /\ Cardinality(S) \in Nat
<1> SUFFICES ASSUME NEW S \in SUBSET Users
             PROVE  IsFiniteSet(S) /\ Cardinality(S) \in Nat
  OBVIOUS
<1>1. IsFiniteSet(S)
  BY BroadcastAssumption, FS_Subset
<1>2. QED BY <1>1, FS_CardinalityType

Counts == [total: Nat, sent: Nat, failed: Nat, blocked: Nat]

(* recount yields counters.                                                 *)
LEMMA RecountedType == ASSUME NEW rs PROVE Recounted(rs) \in Counts
<1>1. \A st : Having(rs, st) \in SUBSET Users /\ Users \ Having(rs, st) \in SUBSET Users
  BY DEF Having
<1>2. QED BY <1>1, UsersCount DEF Recounted, Counts

(* Recounted depends on who has an outcome and who is selected, not on how  *)
(* far the others have come.                                                *)
LEMMA RecountedSame ==
  ASSUME NEW rs, NEW qs,
         \A u \in Users : rs[u] = "none" <=> qs[u] = "none",
         \A u \in Users, st \in Outcomes : rs[u] = st <=> qs[u] = st
  PROVE  Recounted(rs) = Recounted(qs)
<1>1. /\ Having(rs, "none") = Having(qs, "none")
      /\ \A st \in Outcomes : Having(rs, st) = Having(qs, st)
  BY DEF Having
<1>2. /\ Having(rs, "sent") = Having(qs, "sent")
      /\ Having(rs, "failed") = Having(qs, "failed")
      /\ Having(rs, "blocked") = Having(qs, "blocked")
  BY <1>1 DEF Outcomes
<1>3. QED BY <1>1, <1>2 DEF Recounted

(* One more outcome is one more in its counter.                             *)
LEMMA RecountedOneMore ==
  ASSUME NEW rs \in [Users -> {"none", "pending", "sending"} \cup Outcomes],
         NEW u \in Users, rs[u] = "sending", NEW outcome \in Outcomes
  PROVE  Recounted([rs EXCEPT ![u] = outcome])
           = [Recounted(rs) EXCEPT ![outcome] = @ + 1]
<1> DEFINE qs == [rs EXCEPT ![u] = outcome]
<1>1. Having(qs, "none") = Having(rs, "none")
  BY DEF Having, Outcomes
<1>2. \A st \in Outcomes : st # outcome => Having(qs, st) = Having(rs, st)
  BY DEF Having, Outcomes
<1>3. Having(qs, outcome) = Having(rs, outcome) \cup {u} /\ u \notin Having(rs, outcome)
  BY DEF Having, Outcomes
<1>4. Having(rs, outcome) \in SUBSET Users
  BY DEF Having
<1>5. Cardinality(Having(qs, outcome)) = Cardinality(Having(rs, outcome)) + 1
  BY <1>3, <1>4, UsersCount, FS_AddElement
<1> HIDE DEF qs
<1>6. ASSUME outcome = "sent"
      PROVE  Recounted(qs) = [Recounted(rs) EXCEPT ![outcome] = @ + 1]
  BY <1>1, <1>2, <1>5, <1>6 DEF Recounted, Outcomes
<1>7. ASSUME outcome = "failed"
      PROVE  Recounted(qs) = [Recounted(rs) EXCEPT ![outcome] = @ + 1]
  BY <1>1, <1>2, <1>5, <1>7 DEF Recounted, Outcomes
<1>8. ASSUME outcome = "blocked"
      PROVE  Recounted(qs) = [Recounted(rs) EXCEPT ![outcome] = @ + 1]
  BY <1>1, <1>2, <1>5, <1>8 DEF Recounted, Outcomes
<1>9. QED BY <1>6, <1>7, <1>8 DEF Outcomes, qs

-----------------------------------------------------------------------------
(* The types of the variables are preserved by every step.                  *)
LEMMA TypeStep == TypeOK /\ [Next]_vars => TypeOK'
<1> SUFFICES ASSUME TypeOK, [Next]_vars PROVE TypeOK'
  OBVIOUS
<1> USE DEF TypeOK, row
<1>1. CASE Schedule \/ Stop \/ BecomesDue \/ Expire \/ UNCHANGED vars
  BY <1>1 DEF Schedule, Stop, BecomesDue, Expire, vars, Statuses
<1>2. ASSUME NEW u \in Users, UserReturns(u) PROVE TypeOK'
  BY <1>2 DEF UserReturns
<1>3. ASSUME NEW w \in Workers, Start(w) \/ Decline(w) \/ Close(w) PROVE TypeOK'
  BY <1>3 DEF Start, Decline, Close, Phases
<1>4. ASSUME NEW w \in Workers, Launch(w) PROVE TypeOK'
  <2>1. Users \ Having(recipients', "none") \in SUBSET Users
    OBVIOUS
  <2>2. Cardinality(Users \ Having(recipients', "none")) \in Nat
    BY <2>1, UsersCount
  <2>3. counts' \in [total: Nat, sent: Nat, failed: Nat, blocked: Nat]
    BY <1>4, <2>2 DEF Launch
  <2>4. recipients' \in [Users -> {"none", "pending", "sending"} \cup Outcomes]
    BY <1>4 DEF Launch
  <2>5. QED BY <1>4, <2>3, <2>4 DEF Launch, Phases, Statuses
<1>5. ASSUME NEW w \in Workers, Resume(w) PROVE TypeOK'
  <2>1. counts' \in [total: Nat, sent: Nat, failed: Nat, blocked: Nat]
    BY <1>5, RecountedType DEF Resume, Counts
  <2>2. QED BY <1>5, <2>1 DEF Resume, Uncertain, Outcomes, Phases
<1>6. ASSUME NEW w \in Workers, Cancel(w) \/ Complete(w) \/ Fail(w) PROVE TypeOK'
  <2>1. counts' \in [total: Nat, sent: Nat, failed: Nat, blocked: Nat]
    BY <1>6, RecountedType DEF Cancel, Complete, Fail, Counts
  <2>2. QED BY <1>6, <2>1, BroadcastAssumption DEF Cancel, Complete, Fail, Phases, Statuses
<1>7. ASSUME NEW w \in Workers, Take(w) PROVE TypeOK'
  <2>1. PICK u \in Users :
          /\ recipients' = [recipients EXCEPT ![u] = "sending"]
          /\ target' = [target EXCEPT ![w] = {u}]
          /\ handed' = [handed EXCEPT ![u] = @ + 1]
    BY <1>7 DEF Take, Having
  <2>2. pc' \in [Workers -> Phases] /\ tries' \in [Workers -> 0..MaxAttempts]
    BY <1>7, BroadcastAssumption DEF Take, Phases
  <2>3. QED BY <1>7, <2>1, <2>2 DEF Take
<1>8. ASSUME NEW w \in Workers, Record(w) PROVE TypeOK'
  <2>1. PICK u \in target[w], outcome \in Outcomes :
          /\ recipients' = [recipients EXCEPT ![u] = outcome]
          /\ counts' = [counts EXCEPT ![outcome] = @ + 1]
          /\ bot_blocked' = IF outcome = "blocked" THEN bot_blocked \cup {u} ELSE bot_blocked
    BY <1>8 DEF Record
  <2>2. u \in Users
    BY <1>8
  <2>3. counts' \in [total: Nat, sent: Nat, failed: Nat, blocked: Nat]
    BY <2>1 DEF Outcomes
  <2>4. recipients' \in [Users -> {"none", "pending", "sending"} \cup Outcomes]
        /\ bot_blocked' \subseteq Users
    BY <2>1, <2>2
  <2>5. tries' \in [Workers -> 0..MaxAttempts]
    BY <1>8, BroadcastAssumption DEF Record
  <2>6. QED BY <1>8, <2>3, <2>4, <2>5 DEF Record, Phases
<1>9. ASSUME NEW w \in Workers, FailUnsaved(w) \/ Crash(w) PROVE TypeOK'
  BY <1>9, BroadcastAssumption DEF FailUnsaved, Crash, Phases
<1>10. ASSUME NEW w \in Workers, Repeat(w) PROVE TypeOK'
  BY <1>10, BroadcastAssumption DEF Repeat
<1>11. QED
  BY <1>1, <1>2, <1>3, <1>4, <1>5, <1>6, <1>7, <1>8, <1>9, <1>10 DEF Next, Execute

-----------------------------------------------------------------------------
(* The requests for a recipient are those of the worker that took it.       *)
LEMMA HandedStep == TypeOK /\ HandedMatches /\ [Next]_vars => HandedMatches'
<1> SUFFICES ASSUME TypeOK, HandedMatches, [Next]_vars PROVE HandedMatches'
  OBVIOUS
<1> USE DEF TypeOK, HandedMatches, row
<1>1. CASE UNCHANGED <<recipients, target, tries, handed>>
  BY <1>1
<1>2. ASSUME NEW w \in Workers, Launch(w) PROVE HandedMatches'
  BY <1>2 DEF Launch
<1>3. ASSUME NEW w \in Workers, Resume(w) PROVE HandedMatches'
  BY <1>3 DEF Resume, Uncertain
<1>4. ASSUME NEW w \in Workers, Take(w) PROVE HandedMatches'
  <2>1. PICK u \in Users :
          /\ recipients[u] = "pending"
          /\ recipients' = [recipients EXCEPT ![u] = "sending"]
          /\ target' = [target EXCEPT ![w] = {u}]
          /\ handed' = [handed EXCEPT ![u] = @ + 1]
          /\ tries' = [tries EXCEPT ![w] = 1]
    BY <1>4 DEF Take, Having
  <2>2. handed[u] = 0 /\ handed'[u] = 1 /\ \A v \in Users \ {u} : handed'[v] = handed[v]
    BY <2>1
  <2>3. \A x \in Workers : u \notin target[x]
    BY <2>1
  <2>4. target'[w] = {u} /\ tries'[w] = 1
        /\ \A x \in Workers \ {w} : target'[x] = target[x] /\ tries'[x] = tries[x]
    BY <2>1
  <2>5. \A v \in Users : handed'[v] <= MaxAttempts
    BY <2>2, BroadcastAssumption
  <2>6. \A v \in Users : recipients'[v] \in {"none", "pending"} => handed'[v] = 0
    BY <2>1, <2>2
  <2>7. ASSUME NEW x \in Workers, NEW v \in target'[x]
        PROVE  /\ handed'[v] = tries'[x] /\ recipients'[v] \notin {"none", "pending"}
               /\ \A y \in Workers \ {x} : v \notin target'[y]
    <3>1. CASE x = w
      BY <2>1, <2>2, <2>3, <2>4, <2>7, <3>1
    <3>2. CASE x # w
      <4>1. v \in target[x] /\ v # u /\ v \in Users
        BY <2>3, <2>4, <2>7, <3>2
      <4>2. handed'[v] = tries'[x] /\ recipients'[v] \notin {"none", "pending"}
        BY <2>1, <2>2, <2>4, <3>2, <4>1
      <4>3. \A y \in Workers \ {x} : v \notin target'[y]
        BY <2>4, <4>1
      <4>4. QED BY <4>2, <4>3
    <3>3. QED BY <3>1, <3>2
  <2>8. QED BY <2>5, <2>6, <2>7
<1>5. ASSUME NEW w \in Workers, Repeat(w) PROVE HandedMatches'
  <2>1. /\ tries[w] < MaxAttempts /\ tries' = [tries EXCEPT ![w] = @ + 1]
        /\ handed' = [u \in Users |-> IF u \in target[w] THEN handed[u] + 1 ELSE handed[u]]
        /\ recipients' = recipients /\ target' = target
    BY <1>5 DEF Repeat
  <2>2. \A u \in target[w] : handed[u] = tries[w] /\ recipients[u] \notin {"none", "pending"}
    OBVIOUS
  <2>3. \A u \in Users : handed'[u] <= MaxAttempts
    BY <2>1, <2>2, BroadcastAssumption
  <2>4. \A u \in Users : recipients'[u] \in {"none", "pending"} => handed'[u] = 0
    BY <2>1, <2>2
  <2>5. \A x \in Workers : \A u \in target'[x] : handed'[u] = tries'[x]
    BY <2>1
  <2>6. QED BY <2>1, <2>3, <2>4, <2>5
<1>6. ASSUME NEW w \in Workers, Record(w) PROVE HandedMatches'
  <2>1. PICK u \in target[w], outcome \in Outcomes :
          recipients' = [recipients EXCEPT ![u] = outcome]
    BY <1>6 DEF Record
  <2>2. /\ handed' = handed /\ target'[w] = {}
        /\ \A x \in Workers \ {w} : target'[x] = target[x] /\ tries'[x] = tries[x]
    BY <1>6 DEF Record
  <2>3. \A v \in Users : recipients'[v] \in {"none", "pending"} =>
                         recipients[v] \in {"none", "pending"}
    BY <2>1 DEF Outcomes
  <2>4. QED BY <2>2, <2>3
<1>7. ASSUME NEW w \in Workers, Fail(w) \/ FailUnsaved(w) \/ Crash(w) PROVE HandedMatches'
  <2>1. /\ recipients' = recipients /\ handed' = handed /\ target'[w] = {}
        /\ \A x \in Workers \ {w} : target'[x] = target[x] /\ tries'[x] = tries[x]
    BY <1>7 DEF Fail, FailUnsaved, Crash
  <2>2. QED BY <2>1
<1>8. QED
  BY <1>1, <1>2, <1>3, <1>4, <1>5, <1>6, <1>7
  DEF Next, Execute, vars, Schedule, Stop, BecomesDue, Expire, UserReturns, Start, Decline,
      Cancel, Complete, Close

-----------------------------------------------------------------------------
(* With the lock held, a worker that is not idle is alone.                  *)
LEMMA Alone ==
  ASSUME Exclusive, NEW w \in Workers, pc[w] # "idle"
  PROVE  lock = w /\ \A x \in Workers \ {w} : pc[x] = "idle"
BY DEF Exclusive

(* The administrator changes the status only before the broadcast runs.     *)
LEMMA AdminLocked ==
  ASSUME TypeOK, Locked, Schedule \/ Stop PROVE Locked'
<1>1. UNCHANGED <<pc, lock, recipients, target, counts>>
  BY DEF Schedule, Stop
<1>2. status' = status \/ status \in {"draft", "scheduled"}
  BY DEF Schedule, Stop, Finished, TypeOK, Statuses
<1>3. status' # status => \A w \in Workers : pc[w] \notin {"loop", "sending"}
  BY <1>2 DEF Locked, Executing
<1>4. status' # status => Having(recipients, "sending") = {}
  BY <1>2 DEF Locked, SendingWasStarted
<1>5. QED
  BY <1>1, <1>3, <1>4 DEF Locked, Exclusive, Executing, SendingWasStarted, Having, Recounted

(* The lock changes hands only between executions.                          *)
LEMMA LockLocked ==
  ASSUME TypeOK, Locked,
         (Expire /\ ~lapsed') \/ \E w \in Workers : Start(w)
  PROVE  Locked'
<1>1. UNCHANGED <<status, counts, recipients, target>>
  BY DEF Expire, Start, row
<1>2. \A w \in Workers : pc[w] = "idle"
  BY BroadcastAssumption DEF Expire, Start, Locked, Exclusive
<1>3. CASE Expire
  <2>1. UNCHANGED pc
    BY <1>3 DEF Expire
  <2>2. QED
    BY <1>1, <1>2, <2>1 DEF Locked, Exclusive, Executing, SendingWasStarted, Having, Recounted
<1>4. CASE \E w \in Workers : Start(w)
  <2>1. PICK w \in Workers : lock' = w /\ pc' = [pc EXCEPT ![w] = "locked"]
    BY <1>4 DEF Start
  <2>2. pc'[w] = "locked" /\ \A x \in Workers \ {w} : pc'[x] = "idle"
    BY <2>1, <1>2 DEF TypeOK
  <2>3. Exclusive' /\ Executing'
    BY <2>1, <2>2 DEF Exclusive, Executing
  <2>4. QED BY <2>3, <1>1 DEF Locked, SendingWasStarted, Having, Recounted
<1>5. QED BY <1>3, <1>4

(* The first transaction of an execution leaves nothing on its way.         *)
LEMMA OpeningLocked ==
  ASSUME TypeOK, Locked, NEW w \in Workers, Launch(w) \/ Resume(w)
  PROVE  Locked'
<1>1. pc[w] # "idle" /\ Exclusive
  BY DEF Launch, Resume, Locked
<1>2. pc' = [pc EXCEPT ![w] = "loop"] /\ lock' = lock /\ status' = "running"
  BY DEF Launch, Resume, row
<1>3. Having(recipients', "sending") = {}
  <2>1. CASE Launch(w)
    <3>1. Having(recipients, "sending") = {}
      BY <2>1 DEF Launch, Locked, SendingWasStarted
    <3>2. QED BY <2>1, <3>1 DEF Launch, Having, TypeOK
  <2>2. CASE Resume(w)
    BY <2>2 DEF Resume, Uncertain, Having, TypeOK
  <2>3. QED BY <2>1, <2>2
<1>4. pc'[w] = "loop" /\ \A x \in Workers \ {w} : pc'[x] = "idle"
  BY <1>1, <1>2, Alone DEF TypeOK
<1>5. Exclusive'
  BY <1>1, <1>2, <1>4, Alone DEF Exclusive
<1>6. Executing' /\ SendingWasStarted'
  BY <1>2, <1>3, <1>4 DEF Executing, SendingWasStarted, Having
<1>7. counts' = Recounted(recipients')
  <2>1. CASE Launch(w)
    <3>1. \A st \in Outcomes : Having(recipients', st) = Having(recipients, st)
      BY <2>1 DEF Launch, Having, Outcomes, TypeOK
    <3>2. counts' = [Recounted(recipients) EXCEPT !.total =
                      Cardinality(Users \ Having(recipients', "none"))]
      BY <2>1 DEF Launch, Locked
    <3>3. QED BY <3>1, <3>2 DEF Recounted, Outcomes
  <2>2. CASE Resume(w)
    BY <2>2 DEF Resume
  <2>3. QED BY <2>1, <2>2
<1>8. QED BY <1>5, <1>6, <1>7 DEF Locked, Having, Recounted

(* Handing a recipient over puts exactly that message on its way.           *)
LEMMA TakeLocked ==
  ASSUME TypeOK, Locked, NEW w \in Workers, Take(w)
  PROVE  Locked'
<1>1. pc[w] = "loop" /\ Exclusive /\ status = "running" /\ Having(recipients, "sending") = {}
  BY DEF Take, Locked, Executing
<1>2. PICK u \in Users :
        /\ recipients[u] = "pending"
        /\ recipients' = [recipients EXCEPT ![u] = "sending"]
        /\ target' = [target EXCEPT ![w] = {u}]
  BY DEF Take, Having
<1>3. pc' = [pc EXCEPT ![w] = "sending"] /\ UNCHANGED <<lock, status, counts>>
  BY DEF Take, row
<1>4. pc'[w] = "sending" /\ \A x \in Workers \ {w} : pc'[x] = "idle"
  BY <1>1, <1>3, Alone DEF TypeOK
<1>5. Having(recipients', "sending") = {u} /\ target'[w] = {u}
  BY <1>1, <1>2 DEF Having, TypeOK
<1>6. Exclusive'
  BY <1>1, <1>3, <1>4, Alone DEF Exclusive
<1>7. Executing' /\ SendingWasStarted'
  BY <1>1, <1>3, <1>4, <1>5 DEF Executing, SendingWasStarted, Having
<1>8. Recounted(recipients') = Recounted(recipients)
  <2>1. /\ \A v \in Users : recipients'[v] = "none" <=> recipients[v] = "none"
        /\ \A v \in Users, st \in Outcomes : recipients'[v] = st <=> recipients[v] = st
    BY <1>2 DEF TypeOK, Outcomes
  <2>2. QED BY <2>1, RecountedSame
<1>9. counts' = Recounted(recipients')
  BY <1>3, <1>8 DEF Locked
<1>10. QED BY <1>6, <1>7, <1>9 DEF Locked, Having, Recounted

(* The only message on its way is the one whose outcome is recorded.        *)
LEMMA RecordLocked ==
  ASSUME TypeOK, Locked, NEW w \in Workers, Record(w)
  PROVE  Locked'
<1>1. /\ pc[w] = "sending" /\ Exclusive /\ status = "running"
      /\ target[w] = Having(recipients, "sending") /\ \A u, v \in target[w] : u = v
  BY DEF Record, Locked, Executing
<1>2. PICK u \in target[w], outcome \in Outcomes :
        /\ recipients' = [recipients EXCEPT ![u] = outcome]
        /\ counts' = [counts EXCEPT ![outcome] = @ + 1]
  BY DEF Record
<1>3. u \in Users /\ recipients[u] = "sending"
  BY <1>1 DEF Having
<1>4. pc' = [pc EXCEPT ![w] = "loop"] /\ UNCHANGED <<lock, status>>
  BY DEF Record
<1>5. pc'[w] = "loop" /\ \A x \in Workers \ {w} : pc'[x] = "idle"
  BY <1>1, <1>4, Alone DEF TypeOK
<1>6. Having(recipients', "sending") = {}
  BY <1>1, <1>2 DEF Having, TypeOK, Outcomes
<1>7. Exclusive'
  BY <1>1, <1>4, <1>5, Alone DEF Exclusive
<1>8. Executing' /\ SendingWasStarted'
  BY <1>1, <1>4, <1>5, <1>6 DEF Executing, SendingWasStarted, Having
<1>9. counts' = Recounted(recipients')
  <2>1. Recounted(recipients') = [Recounted(recipients) EXCEPT ![outcome] = @ + 1]
    BY <1>2, <1>3, RecountedOneMore DEF TypeOK
  <2>2. QED BY <1>2, <2>1 DEF Locked
<1>10. QED BY <1>7, <1>8, <1>9 DEF Locked, Having, Recounted

(* However an execution ends, it leaves the counters exact and, unless it   *)
(* failed, no message on its way.                                           *)
LEMMA EndLocked ==
  ASSUME TypeOK, Locked, NEW w \in Workers,
         \/ Decline(w) \/ Cancel(w) \/ Complete(w) \/ Fail(w) \/ FailUnsaved(w)
         \/ Close(w) \/ Crash(w)
  PROVE  Locked'
<1>1. pc[w] # "idle" /\ Exclusive
  BY DEF Decline, Cancel, Complete, Fail, FailUnsaved, Close, Crash, Locked
<1>2. recipients' = recipients
  BY DEF Decline, Cancel, Complete, Fail, FailUnsaved, Close, Crash
<1>3. \A x \in Workers \ {w} : pc'[x] = "idle" /\ pc'[x] = pc[x]
  BY <1>1, Alone
  DEF Decline, Cancel, Complete, Fail, FailUnsaved, Close, Crash, TypeOK
<1>4. \/ pc'[w] = "closing" /\ lock' = lock
      \/ pc'[w] = "idle"
  BY DEF Decline, Cancel, Complete, Fail, FailUnsaved, Close, Crash, TypeOK
<1>5. Exclusive'
  BY <1>1, <1>3, <1>4, Alone DEF Exclusive
<1>6. Executing'
  BY <1>3, <1>4 DEF Executing
<1>7. SendingWasStarted'
  <2>1. CASE Cancel(w) \/ Complete(w)
    BY <2>1, <1>2 DEF Cancel, Complete, Locked, Executing, SendingWasStarted, Having
  <2>2. CASE ~(Cancel(w) \/ Complete(w))
    <3>1. status' = status \/ status' = "failed"
      BY <2>2 DEF Decline, Fail, FailUnsaved, Close, Crash, row
    <3>2. QED BY <3>1, <1>2 DEF Locked, SendingWasStarted, Having
  <2>3. QED BY <2>1, <2>2
<1>8. counts' = Recounted(recipients')
  <2>1. counts' = counts \/ counts' = Recounted(recipients)
    BY DEF Decline, Cancel, Complete, Fail, FailUnsaved, Close, Crash, row
  <2>2. QED BY <2>1, <1>2 DEF Locked
<1>9. QED BY <1>5, <1>6, <1>7, <1>8 DEF Locked, Having, Recounted

(* While the lock has never lapsed, its discipline is preserved.            *)
LEMMA LockedStep == TypeOK /\ (~lapsed => Locked) /\ [Next]_vars => (~lapsed' => Locked')
<1> SUFFICES ASSUME TypeOK, ~lapsed => Locked, [Next]_vars, ~lapsed' PROVE Locked'
  OBVIOUS
<1>1. ~lapsed
  BY DEF Next, Execute, vars, Schedule, Stop, BecomesDue, Expire, UserReturns, Start, Launch,
         Resume, Decline, Cancel, Complete, Take, Repeat, Record, Fail, FailUnsaved, Close,
         Crash
<1>2. Locked
  BY <1>1
<1>3. CASE UNCHANGED <<status, counts, recipients, lock, pc, target>>
  BY <1>2, <1>3 DEF Locked, Exclusive, Executing, SendingWasStarted, Having, Recounted
<1>4. CASE \/ UNCHANGED vars \/ BecomesDue \/ \E u \in Users : UserReturns(u)
          \/ \E w \in Workers : Repeat(w)
  BY <1>3, <1>4 DEF vars, row, BecomesDue, UserReturns, Repeat
<1>5. CASE Schedule \/ Stop
  BY <1>2, <1>5, AdminLocked
<1>6. CASE Expire \/ \E w \in Workers : Start(w)
  BY <1>2, <1>6, LockLocked
<1>7. CASE \E w \in Workers : Launch(w) \/ Resume(w)
  BY <1>2, <1>7, OpeningLocked
<1>8. CASE \E w \in Workers : Take(w)
  BY <1>2, <1>8, TakeLocked
<1>9. CASE \E w \in Workers : Record(w)
  BY <1>2, <1>9, RecordLocked
<1>10. CASE \E w \in Workers :
          \/ Decline(w) \/ Cancel(w) \/ Complete(w) \/ Fail(w) \/ FailUnsaved(w)
          \/ Close(w) \/ Crash(w)
  BY <1>2, <1>10, EndLocked
<1>11. QED
  BY <1>4, <1>5, <1>6, <1>7, <1>8, <1>9, <1>10 DEF Next, Execute

-----------------------------------------------------------------------------
(* A new draft has no recipients, no messages and no executions.            *)
LEMMA InitIInv == Init => IInv
<1> SUFFICES ASSUME Init PROVE IInv
  OBVIOUS
<1>1. TypeOK
  <2>1. target \in [Workers -> SUBSET Users] /\ bot_blocked \subseteq Users
    BY DEF Init
  <2>2. counts \in [total: Nat, sent: Nat, failed: Nat, blocked: Nat]
        /\ recipients \in [Users -> {"none", "pending", "sending"} \cup Outcomes]
        /\ handed \in [Users -> Nat] /\ crashes \in 0..MaxCrashes
        /\ tries \in [Workers -> 0..MaxAttempts]
    BY BroadcastAssumption DEF Init
  <2>3. QED BY <2>1, <2>2 DEF Init, TypeOK, Statuses, Phases
<1>2. HandedMatches
  BY BroadcastAssumption DEF Init, HandedMatches
<1>3. Exclusive /\ Executing /\ SendingWasStarted
  BY DEF Init, Exclusive, Executing, SendingWasStarted, Having
<1>4. counts = Recounted(recipients)
  <2>1. /\ Users \ Having(recipients, "none") = {}
        /\ Having(recipients, "sent") = {}
        /\ Having(recipients, "failed") = {}
        /\ Having(recipients, "blocked") = {}
    BY DEF Init, Having
  <2>2. QED BY <2>1, FS_EmptySet DEF Init, Recounted
<1>5. QED BY <1>1, <1>2, <1>3, <1>4 DEF IInv, Locked

(* Every reachable state satisfies the inductive invariant.                 *)
THEOREM SpecIInv == Spec => []IInv
<1>1. Init => IInv
  BY InitIInv
<1>2. IInv /\ [Next]_vars => IInv'
  BY TypeStep, HandedStep, LockedStep DEF IInv
<1>3. QED BY <1>1, <1>2, PTL DEF Spec

(* The tables and the workers keep their types.                             *)
THEOREM TypeCorrect == Spec => []TypeOK
<1>1. IInv => TypeOK
  BY DEF IInv
<1>2. QED BY <1>1, SpecIInv, PTL

(* No recipient is the subject of more requests than one execution may      *)
(* make, whatever becomes of the lock: only the retries can send it twice.  *)
THEOREM AttemptsHold == Spec => []AttemptsBounded
<1>1. IInv => AttemptsBounded
  BY DEF IInv, HandedMatches, AttemptsBounded
<1>2. QED BY <1>1, SpecIInv, PTL

(* While the lock outlives its holders, the counters are exact and nothing  *)
(* is left unresolved by a completed or a cancelled broadcast.              *)
THEOREM ProgressCorrect == Spec => []ProgressIsExact
<1>1. IInv => ProgressIsExact
  BY DEF IInv, Locked, SendingWasStarted, ProgressIsExact
<1>2. QED BY <1>1, SpecIInv, PTL

(* While the lock outlives its holders, neither the status of a finished    *)
(* broadcast nor the outcome of a recipient is rewritten.                   *)
THEOREM OutcomesFinal == Spec => OutcomesAreFinal
<1> DEFINE Final == ~lapsed =>
       /\ status \in Finished => status' = status
       /\ \A u \in Users : recipients[u] \in Outcomes => recipients'[u] = recipients[u]
<1>1. ASSUME IInv, [Next]_vars PROVE [Final]_vars
  <2> SUFFICES ASSUME Next, ~lapsed
               PROVE  /\ status \in Finished => status' = status
                      /\ \A u \in Users : recipients[u] \in Outcomes =>
                                            recipients'[u] = recipients[u]
    BY <1>1
  <2>1. TypeOK /\ Executing
    BY <1>1 DEF IInv, Locked
  <2>2. status \in Finished => status' = status
    BY <2>1
    DEF Executing, Finished, Next, Execute, row, Schedule, Stop, BecomesDue, Expire,
        UserReturns, Start, Launch, Resume, Decline, Cancel, Complete, Take, Repeat, Record,
        Fail, FailUnsaved, Close, Crash
  <2>3. CASE UNCHANGED recipients
    BY <2>2, <2>3
  <2>4. CASE \E w \in Workers : Launch(w) \/ Resume(w)
    BY <2>2, <2>4 DEF Launch, Resume, Uncertain, Outcomes
  <2>5. CASE \E w \in Workers : Take(w)
    BY <2>1, <2>2, <2>5 DEF Take, Having, Outcomes, TypeOK
  <2>6. CASE \E w \in Workers : Record(w)
    BY <2>1, <2>2, <2>6 DEF Record, Executing, Having, Outcomes, TypeOK
  <2>7. QED
    BY <2>3, <2>4, <2>5, <2>6
    DEF Next, Execute, Schedule, Stop, BecomesDue, Expire, UserReturns, Start, Decline, Cancel,
        Complete, Repeat, Fail, FailUnsaved, Close, Crash
<1>2. QED BY <1>1, SpecIInv, PTL DEF Spec, OutcomesAreFinal

(***************************************************************************)
(* PART 2: Alerts, and the requests to OpenAI it builds on.                *)
(*                                                                         *)
(* A request brings a response only as it ends, and is repeated only while *)
(* it has brought none.  What a notifier has still to tell is in its list, *)
(* the rest in the log.  A notice has the stamp of its report from the     *)
(* moment the row of its error counts it; the row has the stamp of the     *)
(* last one, and is read and written in one transaction, so that any other *)
(* notice of the error is a cooldown older.                                *)
(***************************************************************************)

\* Until it has ended a request has brought no response, and the second attempt
\* is the last.
RequestsSound ==
  \A c \in Calls :
    /\ processed[c] <= 1
    /\ call[c].pc # "ended" => processed[c] = 0
    /\ call[c].pc = "waiting" => call[c].attempt = 0

\* What a job has found out is still to be done, or is in the log.
InLog(j, a) == [base |-> job[j].base, admin |-> a] \in DOMAIN logs

JobIsSound(j) ==
  /\ job[j].pc = "idle" => job[j] = Idle
  /\ job[j].pc = "recording" => call[j].outcome \in Failures
  /\ job[j].pc \in {"recording", "alerting"} => job[j].wanted = {}
  /\ job[j].pc \in {"reserving", "sending"} =>
       \A a \in job[j].wanted : InLog(j, a) \/ \E i \in DOMAIN job[j].todo : job[j].todo[i][1] = a
  /\ job[j].pc = "sending" => job[j].todo # <<>> /\ Key(j) \in DOMAIN logs
  /\ job[j].pc = "ended" => \A a \in job[j].wanted : InLog(j, a)

JobsSound == \A j \in Calls : JobIsSound(j)

OneHanded == \A k \in DOMAIN logs : logs[k].handed = 1

\* A notice of base b goes back to a report stamped s.
Stamped(b, s) ==
  \/ \E j \in Calls :
       job[j].pc \in {"alerting", "reserving", "sending"} /\ job[j].base = b /\ job[j].stamp = s
  \/ \E k \in DOMAIN logs : k.base = b /\ logs[k].stamp = s

\* The row of an error has the stamp of its last notice; those before are a
\* cooldown older.
StampsLag ==
  \A b \in Bases, s \in 0..MaxTime : Stamped(b, s) =>
    IF b.source = "payment" THEN b.notice = 0
    ELSE LET e == events[b.source] IN
         /\ e.notified \in Nat /\ b.notice <= e.notices
         /\ b.notice = e.notices => s = e.notified
         /\ b.notice < e.notices => s + Cooldown <= e.notified

StampsApart ==
  \A b, c \in Bases, s, t \in 0..MaxTime :
    Stamped(b, s) /\ Stamped(c, t) /\ b.source = c.source /\ b.notice < c.notice => s + Cooldown <= t

AlertsIInv ==
  /\ AlertsTypeOK /\ RequestsSound /\ JobsSound /\ OneHanded /\ StampsLag /\ StampsApart

-----------------------------------------------------------------------------
(* Whatever the server answers, the client makes an outcome of it.          *)
LEMMA OutcomeType == ASSUME NEW body PROVE Outcome(body) \in CallOutcomes
BY DEF Outcome, CallOutcomes, Failures

\* What a step of a request may make of it.
LEMMA RequestEnds ==
  ASSUME AlertsTypeOK, RequestsSound, NEW c \in Calls, call[c].pc # "ended",
         NEW outcome \in CallOutcomes, Ends(c, outcome),
         NEW n \in {0, 1}, processed' = [processed EXCEPT ![c] = @ + n]
  PROVE  call' \in [Calls -> CallState] /\ processed' \in [Calls -> Nat] /\ RequestsSound'
BY DEF AlertsTypeOK, RequestsSound, Ends, CallState

(* A request that goes on has brought nothing yet.                          *)
LEMMA RequestGoesOn ==
  ASSUME AlertsTypeOK, RequestsSound, NEW c \in Calls, call[c].pc # "ended",
         NEW r \in CallState, call' = [call EXCEPT ![c] = r], processed' = processed,
         r.pc # "ended", r.pc = "waiting" => r.attempt = 0
  PROVE  call' \in [Calls -> CallState] /\ processed' \in [Calls -> Nat] /\ RequestsSound'
BY DEF AlertsTypeOK, RequestsSound

(* Every step of a request keeps its type and what is known of it.          *)
LEMMA RequestKeeps ==
  ASSUME AlertsTypeOK, RequestsSound, NEW c \in Calls, RequestStep(c)
  PROVE  call' \in [Calls -> CallState] /\ processed' \in [Calls -> Nat] /\ RequestsSound'
<1>1. call[c] \in CallState /\ processed[c] \in Nat /\ call \in [Calls -> CallState]
  BY DEF AlertsTypeOK
<1>2. "api" \in CallOutcomes
  BY DEF CallOutcomes, Failures
<1>3. UNCHANGED processed => processed' = [processed EXCEPT ![c] = @ + 0]
  BY <1>1 DEF AlertsTypeOK
<1>4. ASSUME Ends(c, "api"), UNCHANGED processed, call[c].pc # "ended"
      PROVE  call' \in [Calls -> CallState] /\ processed' \in [Calls -> Nat] /\ RequestsSound'
  BY <1>2, <1>3, <1>4, RequestEnds
<1>5. ASSUME Pause(c), UNCHANGED processed, call[c].pc = "posting", call[c].attempt = 0
      PROVE  call' \in [Calls -> CallState] /\ processed' \in [Calls -> Nat] /\ RequestsSound'
  <2> DEFINE r == [call[c] EXCEPT !.pc = "waiting"]
  <2>1. r \in CallState /\ r.pc = "waiting" /\ r.attempt = 0
    BY <1>1, <1>5 DEF CallState
  <2>2. call' = [call EXCEPT ![c] = r]
    BY <1>5 DEF Pause
  <2> HIDE DEF r
  <2>3. QED BY <1>5, <2>1, <2>2, RequestGoesOn
<1>6. CASE CreateResponse(c)
  <2> DEFINE r == [call[c] EXCEPT !.pc = "posting"]
  <2>1. r \in CallState /\ r.pc = "posting"
    BY <1>1 DEF CallState
  <2>2. CASE call' = [call EXCEPT ![c] = r]
    <3> HIDE DEF r
    <3>1. QED BY <1>6, <2>1, <2>2, RequestGoesOn DEF CreateResponse
  <2>3. QED BY <1>4, <1>6, <2>2 DEF CreateResponse
<1>7. CASE ConnectFails(c)
  BY <1>1, <1>4, <1>5, <1>7 DEF ConnectFails
<1>8. CASE TooManyRequests(c)
  BY <1>1, <1>4, <1>5, <1>8 DEF TooManyRequests
<1>9. CASE Breaks(c) \/ ErrorStatus(c)
  <2>1. PICK n \in {0, 1} : processed' = [processed EXCEPT ![c] = @ + n]
    BY <1>9 DEF Breaks, ErrorStatus
  <2>2. call[c].pc # "ended" /\ Ends(c, "api")
    BY <1>9 DEF Breaks, ErrorStatus
  <2>3. QED BY <1>2, <2>1, <2>2, RequestEnds
<1>10. CASE Responds(c)
  <2>1. PICK outcome \in CallOutcomes : Ends(c, outcome)
    BY <1>10, OutcomeType DEF Responds
  <2>2. call[c].pc # "ended" /\ processed' = [processed EXCEPT ![c] = @ + 1]
    BY <1>10 DEF Responds
  <2>3. QED BY <2>1, <2>2, RequestEnds
<1>11. CASE Retry(c)
  <2> DEFINE r == [call[c] EXCEPT !.pc = "posting", !.attempt = @ + 1]
  <2>1. call[c].pc = "waiting" /\ call[c].attempt + 1 \in 0..1
    BY <1>11 DEF Retry, RequestsSound
  <2>2. r \in CallState /\ r.pc = "posting"
    BY <1>1, <2>1 DEF CallState
  <2>3. call' = [call EXCEPT ![c] = r] /\ processed' = processed
    BY <1>11 DEF Retry
  <2> HIDE DEF r
  <2>4. QED BY <2>1, <2>2, <2>3, RequestGoesOn
<1>12. QED BY <1>6, <1>7, <1>8, <1>9, <1>10, <1>11 DEF RequestStep

-----------------------------------------------------------------------------
\* The steps of a job.
JobSteps(j) == Report(j) \/ RecordError(j) \/ PaymentFailed(j) \/ Notify(j) \/ Die(j)

(* A job that has not begun is a job.                                       *)
LEMMA IdleType == Idle \in Job
BY AlertsAssumption DEF Idle, Job, Bases, Todos

\* Whoever is wanted has his place in the order of the ids.
LEMMA InOrderSeq ==
  ASSUME NEW S, IsFiniteSet(S), NEW q \in InOrder(S)
  PROVE  q \in Seq(S) /\ \A x \in S : \E i \in DOMAIN q : q[i] = x
<1>1. Cardinality(S) \in Nat /\ q \in [1..Cardinality(S) -> S] /\ Range(q) = S
  BY FS_CardinalityType DEF InOrder
<1>2. QED BY <1>1 DEF Range

\* Whom a job goes to: all it has found to want the notice.
LEMMA RecipientsTodo ==
  ASSUME AlertsTypeOK, NEW j \in Calls, Recipients(j)
  PROVE  \E wanted \in SUBSET EnvAdmins, todo \in Todos :
           /\ job' = [job EXCEPT ![j].pc = "reserving", ![j].wanted = wanted, ![j].todo = todo]
           /\ \A a \in wanted : \E i \in DOMAIN todo : todo[i][1] = a
<1> DEFINE wanted == {a \in EnvAdmins : Wants(a, Kind(job[j].base))}
<1>1. PICK q \in InOrder(wanted) :
        job' = [job EXCEPT ![j].pc = "reserving", ![j].wanted = wanted,
                           ![j].todo = [i \in DOMAIN q |-> Recipient(q[i])]]
  BY DEF Recipients
<1>2. wanted \in SUBSET EnvAdmins /\ IsFiniteSet(wanted)
  BY AlertsAssumption, FS_Subset
<1>3. \A a \in EnvAdmins : Recipient(a) \in EnvAdmins \X ({NoRow} \cup 0..MaxEdits)
  BY DEF Recipient, AlertsTypeOK, Admins, Row
<1> HIDE DEF wanted
<1> DEFINE todo == [i \in DOMAIN q |-> Recipient(q[i])]
<1>4. q \in Seq(wanted) /\ \A x \in wanted : \E i \in DOMAIN q : q[i] = x
  BY <1>2, InOrderSeq
<1>5. todo \in Todos
  <2>1. todo \in [1..Len(q) -> EnvAdmins \X ({NoRow} \cup 0..MaxEdits)] /\ Len(q) \in Nat
    BY <1>2, <1>3, <1>4
  <2>2. QED BY <2>1, SeqDef DEF Todos
<1>6. \A a \in wanted : \E i \in DOMAIN todo : todo[i][1] = a
  BY <1>4 DEF Recipient
<1> HIDE DEF todo
<1>7. QED BY <1>1, <1>2, <1>5, <1>6 DEF todo

-----------------------------------------------------------------------------
(* The types of the variables are preserved by every step.                  *)
LEMMA JobTypes ==
  ASSUME AlertsTypeOK, JobsSound, NEW j \in Calls, JobSteps(j)
  PROVE  job' \in [Calls -> Job]
<1>1. job \in [Calls -> Job] /\ job[j] \in Job /\ now \in 0..MaxTime
  BY DEF AlertsTypeOK
<1>2. CASE Report(j)
  BY <1>1, <1>2 DEF Report, Job
<1>3. CASE RecordError(j)
  <2> DEFINE f == call[j].outcome
             base == [source |-> f, notice |-> events'[f].notices]
  <2>1. f \in Failures /\ events[f] \in Event
    BY <1>3 DEF RecordError, JobsSound, JobIsSound, AlertsTypeOK
  <2>2. events'[f].notices \in Nat
    BY <1>3, <2>1 DEF RecordError, Event, AlertsTypeOK
  <2>3. base \in Bases
    BY <2>1, <2>2 DEF Bases
  <2>4. PICK p \in {"alerting", "ended"} : job' = [job EXCEPT ![j].pc = p, ![j].base = base]
    BY <1>3 DEF RecordError
  <2> HIDE DEF base
  <2>5. [job[j] EXCEPT !.pc = p, !.base = base] \in Job
    BY <1>1, <2>3 DEF Job
  <2>6. QED BY <1>1, <2>4, <2>5
<1>4. CASE PaymentFailed(j)
  BY <1>1, <1>4 DEF PaymentFailed, Job
<1>5. CASE Recipients(j)
  <2>1. PICK wanted \in SUBSET EnvAdmins, todo \in Todos :
          job' = [job EXCEPT ![j].pc = "reserving", ![j].wanted = wanted, ![j].todo = todo]
    BY <1>5, RecipientsTodo
  <2>2. [job[j] EXCEPT !.pc = "reserving", !.wanted = wanted, !.todo = todo] \in Job
    BY <1>1 DEF Job
  <2>3. QED BY <1>1, <2>1, <2>2
<1>6. CASE PassOver(j) \/ Answer(j)
  <2>1. job' = [job EXCEPT ![j].pc = "reserving", ![j].todo = Tail(@)]
    <3>1. CASE PassOver(j)
      <4>1. job[j].pc = "reserving" /\ job' = [job EXCEPT ![j].todo = Tail(@)]
        BY <3>1 DEF PassOver, Reserving
      <4>2. [job[j] EXCEPT !.todo = Tail(@)] = [job[j] EXCEPT !.pc = "reserving", !.todo = Tail(@)]
        BY <1>1, <4>1 DEF Job
      <4>3. QED BY <4>1, <4>2
    <3>2. CASE Answer(j)
      BY <3>2 DEF Answer
    <3>3. QED BY <1>6, <3>1, <3>2
  <2>2. job[j].todo # <<>>
    BY <1>6 DEF PassOver, Answer, Reserving, JobsSound, JobIsSound
  <2>3. Tail(job[j].todo) \in Todos
    BY <1>1, <2>2 DEF Job, Todos
  <2>4. [job[j] EXCEPT !.pc = "reserving", !.todo = Tail(@)] \in Job
    BY <1>1, <2>3 DEF Job
  <2>5. QED BY <1>1, <2>1, <2>4
<1>7. CASE Reserve(j) \/ Abort(j) \/ Finish(j) \/ Die(j)
  <2>1. PICK p \in {"sending", "aborted", "ended", "crashed"} : job' = [job EXCEPT ![j].pc = p]
    BY <1>7 DEF Reserve, Abort, Finish, Die
  <2>2. [job[j] EXCEPT !.pc = p] \in Job
    BY <1>1 DEF Job
  <2>3. QED BY <1>1, <2>1, <2>2
<1>8. QED BY <1>2, <1>3, <1>4, <1>5, <1>6, <1>7 DEF JobSteps, Notify

(* What is written to the log is a row of it.                               *)
LEMMA LogTypes ==
  ASSUME AlertsTypeOK, JobsSound, NEW j \in Calls, Reserve(j) \/ Answer(j)
  PROVE  DOMAIN logs' \subseteq Keys /\ logs' \in [DOMAIN logs' -> LogRow]
<1>1. job[j] \in Job /\ DOMAIN logs \subseteq Keys /\ logs \in [DOMAIN logs -> LogRow]
  BY DEF AlertsTypeOK
<1>2. CASE Reserve(j)
  <2>1. Head(job[j].todo) \in EnvAdmins \X ({NoRow} \cup 0..MaxEdits)
    BY <1>1, <1>2 DEF Reserve, Reserving, Job, Todos
  <2>2. Key(j) \in Keys
    BY <1>1, <2>1 DEF Key, Keys, Job
  <2>3. [status |-> "pending", handed |-> 1, stamp |-> job[j].stamp] \in LogRow
    BY <1>1 DEF LogRow, Job
  <2>4. QED BY <1>1, <1>2, <2>2, <2>3 DEF Reserve
<1>3. CASE Answer(j)
  <2>1. PICK st \in {"sent", "failed"} : logs' = [logs EXCEPT ![Key(j)].status = st]
    BY <1>3 DEF Answer
  <2>2. Key(j) \in DOMAIN logs
    BY <1>3 DEF Answer, JobsSound, JobIsSound
  <2>3. logs[Key(j)] \in LogRow
    BY <1>1, <2>2
  <2>4. [logs[Key(j)] EXCEPT !.status = st] \in LogRow
    BY <2>3 DEF LogRow
  <2>5. QED BY <1>1, <2>1, <2>2, <2>4
<1>4. QED BY <1>2, <1>3

(* The administrators' hands leave settings rows, and count themselves.     *)
LEMMA RowTypes ==
  ASSUME AlertsTypeOK, Edits,
         \/ SyncNotificationAdmins
         \/ \E a \in Admins :
              \/ CreateRecipient(a) \/ UpdateRecipient(a)
              \/ DeleteRecipient(a) \/ NotificationToggle(a)
  PROVE  rows' \in [Admins -> Row \cup {NoRow}] /\ edits' \in 0..MaxEdits
<1>1. rows \in [Admins -> Row \cup {NoRow}] /\ edits \in 0..MaxEdits /\ MaxEdits \in Nat
  BY AlertsAssumption DEF AlertsTypeOK
<1>2. edits' \in 0..MaxEdits /\ NewRow \in Row
  BY <1>1 DEF Edits, NewRow, Row
<1>3. CASE SyncNotificationAdmins
  <2>1. \A a \in Admins : rows[a] # NoRow => [rows[a] EXCEPT !.enabled = FALSE] \in Row
    BY <1>1 DEF Row
  <2>2. QED BY <1>1, <1>2, <1>3, <2>1 DEF SyncNotificationAdmins
<1>4. ASSUME NEW a \in Admins, CreateRecipient(a) \/ DeleteRecipient(a)
      PROVE  rows' \in [Admins -> Row \cup {NoRow}]
  BY <1>1, <1>2, <1>4 DEF CreateRecipient, DeleteRecipient
<1>5. ASSUME NEW a \in Admins, UpdateRecipient(a)
      PROVE  rows' \in [Admins -> Row \cup {NoRow}]
  <2>1. PICK form \in Forms :
          rows' = [rows EXCEPT ![a].enabled = form.enabled, ![a].wants = form.wants]
    BY <1>5 DEF UpdateRecipient
  <2>2. form.enabled \in BOOLEAN /\ form.wants \in SUBSET Kinds
    BY AlertsAssumption
  <2>3. rows[a] \in Row
    BY <1>1, <1>5 DEF UpdateRecipient
  <2>4. [rows[a] EXCEPT !.enabled = form.enabled, !.wants = form.wants] \in Row
    BY <2>2, <2>3 DEF Row
  <2>5. QED BY <1>1, <2>1, <2>4
<1>6. ASSUME NEW a \in Admins, NotificationToggle(a)
      PROVE  rows' \in [Admins -> Row \cup {NoRow}]
  <2>1. rows[a] \in Row
    BY <1>1, <1>6 DEF NotificationToggle
  <2>2. [rows[a] EXCEPT !.enabled = ~@] \in Row
    BY <2>1 DEF Row
  <2>3. ASSUME NEW kind \in Kinds PROVE [rows[a] EXCEPT !.wants = SymDiff(@, {kind})] \in Row
    <3>1. SymDiff(rows[a].wants, {kind}) \in SUBSET Kinds
      BY <2>1 DEF Row, SymDiff
    <3>2. QED BY <2>1, <3>1 DEF Row
  <2>4. QED BY <1>1, <1>6, <2>2, <2>3 DEF NotificationToggle
<1>7. QED BY <1>2, <1>3, <1>4, <1>5, <1>6

(* An error that is counted keeps the type of its row.                      *)
LEMMA EventTypes ==
  ASSUME AlertsTypeOK, JobsSound, NEW j \in Calls, RecordError(j)
  PROVE  events' \in [Failures -> Event]
<1>1. call[j].outcome \in Failures /\ job[j] \in Job /\ events \in [Failures -> Event]
  BY DEF RecordError, AlertsTypeOK, JobsSound, JobIsSound
<1>2. job[j].stamp \in 0..MaxTime
  BY <1>1 DEF Job
<1>3. events[call[j].outcome] \in Event
  BY <1>1
<1>4. QED BY <1>1, <1>2, <1>3 DEF RecordError, Event

(* Every step keeps the types, given what is known of requests and jobs.    *)
LEMMA AlertsTypeStep ==
  AlertsTypeOK /\ RequestsSound /\ JobsSound /\ [AlertsNext]_alertsVars => AlertsTypeOK'
<1> SUFFICES ASSUME AlertsTypeOK, RequestsSound, JobsSound, [AlertsNext]_alertsVars
             PROVE  AlertsTypeOK'
  OBVIOUS
<1>1. CASE Tick \/ UNCHANGED alertsVars
  BY <1>1, AlertsAssumption DEF Tick, alertsVars, AlertsTypeOK
<1>2. CASE Requests
  BY <1>2, RequestKeeps DEF Requests, AlertsTypeOK
<1>3. CASE RecoverStale
  <2>1. PICK k \in DOMAIN logs : logs' = [logs EXCEPT ![k].status = "failed"]
    BY <1>3 DEF RecoverStale
  <2>2. [logs[k] EXCEPT !.status = "failed"] \in LogRow
    BY DEF AlertsTypeOK, LogRow
  <2>3. DOMAIN logs' = DOMAIN logs /\ logs' \in [DOMAIN logs -> LogRow]
    BY <2>1, <2>2 DEF AlertsTypeOK
  <2>4. QED BY <1>3, <2>3 DEF RecoverStale, AlertsTypeOK
<1>4. CASE \/ SyncNotificationAdmins
           \/ \E a \in Admins :
                \/ CreateRecipient(a) \/ UpdateRecipient(a)
                \/ DeleteRecipient(a) \/ NotificationToggle(a)
  <2>1. Edits /\ EditKeeps
    BY <1>4
    DEF SyncNotificationAdmins, CreateRecipient, UpdateRecipient, DeleteRecipient,
        NotificationToggle
  <2>2. rows' \in [Admins -> Row \cup {NoRow}] /\ edits' \in 0..MaxEdits
    BY <1>4, <2>1, RowTypes
  <2>3. QED BY <2>1, <2>2 DEF EditKeeps, AlertsTypeOK
<1>5. ASSUME NEW j \in Calls, JobSteps(j) PROVE AlertsTypeOK'
  <2>1. job' \in [Calls -> Job]
    BY <1>5, JobTypes
  <2>2. UNCHANGED <<call, processed, now, rows, edits>>
    BY <1>5
    DEF JobSteps, Notify, Report, RecordError, PaymentFailed, Recipients, PassOver, Reserve, Abort,
        Answer, Finish, Die
  <2>3. deaths' \in 0..MaxDeaths
    <3>1. CASE Die(j)
      BY <3>1, AlertsAssumption DEF Die, AlertsTypeOK
    <3>2. CASE ~Die(j)
      <4>1. UNCHANGED deaths
        BY <1>5, <3>2
        DEF JobSteps, Notify, Report, RecordError, PaymentFailed, Recipients, PassOver, Reserve,
            Abort, Answer, Finish
      <4>2. QED BY <4>1 DEF AlertsTypeOK
    <3>3. QED BY <3>1, <3>2
  <2>4. events' \in [Failures -> Event]
    BY <1>5, EventTypes
    DEF JobSteps, Notify, Report, PaymentFailed, Recipients, PassOver, Reserve, Abort,
        Answer, Finish, Die, AlertsTypeOK
  <2>5. DOMAIN logs' \subseteq Keys /\ logs' \in [DOMAIN logs' -> LogRow]
    BY <1>5, LogTypes
    DEF JobSteps, Notify, Report, RecordError, PaymentFailed, Recipients, PassOver, Abort,
        Finish, Die, AlertsTypeOK
  <2>6. QED BY <2>1, <2>2, <2>3, <2>4, <2>5 DEF AlertsTypeOK
<1>6. QED BY <1>1, <1>2, <1>3, <1>4, <1>5 DEF AlertsNext, JobSteps

(* Only a request changes what is known of the requests.                    *)
LEMMA RequestsStep ==
  AlertsTypeOK /\ RequestsSound /\ [AlertsNext]_alertsVars => RequestsSound'
<1> SUFFICES ASSUME AlertsTypeOK, RequestsSound, [AlertsNext]_alertsVars PROVE RequestsSound'
  OBVIOUS
<1>1. CASE Requests
  BY <1>1, RequestKeeps DEF Requests
<1>2. CASE UNCHANGED <<call, processed>>
  BY <1>2 DEF RequestsSound
<1>3. QED
  BY <1>1, <1>2
  DEF AlertsNext, alertsVars, Tick, RecoverStale, SyncNotificationAdmins, EditKeeps,
      CreateRecipient, UpdateRecipient, DeleteRecipient, NotificationToggle, Notify, Report, RecordError,
      PaymentFailed, Recipients, PassOver, Reserve, Abort, Answer, Finish, Die

-----------------------------------------------------------------------------
(* What becomes of the log: rows are added, never removed, and keep what    *)
(* they were reserved with.                                                 *)
LEMMA LogGrows ==
  ASSUME AlertsTypeOK, OneHanded, JobsSound, [AlertsNext]_alertsVars
  PROVE  /\ DOMAIN logs \subseteq DOMAIN logs'
         /\ \A k \in DOMAIN logs : logs'[k].stamp = logs[k].stamp
         /\ OneHanded'
<1>1. logs \in [DOMAIN logs -> LogRow]
  BY DEF AlertsTypeOK
<1>2. ASSUME NEW j \in Calls, Reserve(j)
      PROVE  /\ DOMAIN logs \subseteq DOMAIN logs'
             /\ \A k \in DOMAIN logs : logs'[k].stamp = logs[k].stamp
             /\ OneHanded'
  BY <1>2 DEF Reserve, OneHanded
<1>3. ASSUME NEW k \in DOMAIN logs, NEW st, logs' = [logs EXCEPT ![k].status = st]
      PROVE  /\ DOMAIN logs' = DOMAIN logs
             /\ \A m \in DOMAIN logs : logs'[m].stamp = logs[m].stamp
             /\ OneHanded'
  <2>1. logs[k] \in LogRow
    BY <1>1
  <2>2. DOMAIN logs' = DOMAIN logs /\ \A m \in DOMAIN logs \ {k} : logs'[m] = logs[m]
    BY <1>3
  <2>3. logs'[k].stamp = logs[k].stamp /\ logs'[k].handed = logs[k].handed
    BY <1>1, <1>3, <2>1 DEF LogRow
  <2>4. QED BY <2>2, <2>3 DEF OneHanded
<1>4. ASSUME NEW j \in Calls, Answer(j)
      PROVE  \E k \in DOMAIN logs, st \in {"sent", "failed"} :
                logs' = [logs EXCEPT ![k].status = st]
  BY <1>4 DEF Answer, JobsSound, JobIsSound
<1>5. CASE RecoverStale \/ \E j \in Calls : Answer(j)
  BY <1>3, <1>4, <1>5 DEF RecoverStale
<1>6. CASE UNCHANGED logs
  BY <1>6 DEF OneHanded
<1>7. QED
  BY <1>2, <1>5, <1>6
  DEF AlertsNext, alertsVars, Tick, Requests, SyncNotificationAdmins, EditKeeps, CreateRecipient,
      UpdateRecipient, DeleteRecipient, NotificationToggle, Notify, Report, RecordError,
      PaymentFailed, Recipients, PassOver, Abort, Finish, Die

-----------------------------------------------------------------------------
(* No job loses a recipient.                                                *)
LEMMA JobUntouched ==
  ASSUME NEW j \in Calls, JobIsSound(j), DOMAIN logs \subseteq DOMAIN logs',
         job'[j] = job[j], job[j].pc = "recording" => call'[j] = call[j]
  PROVE  JobIsSound(j)'
<1>1. \A a : InLog(j, a) => InLog(j, a)'
  BY DEF InLog
<1>2. Key(j)' = Key(j)
  BY DEF Key
<1>3. QED BY <1>1, <1>2 DEF JobIsSound

(* A job that begins has found nobody yet.                                  *)
LEMMA JobOpens ==
  ASSUME AlertsTypeOK, JobsSound, NEW j \in Calls, Report(j) \/ RecordError(j) \/ PaymentFailed(j)
  PROVE  JobIsSound(j)'
<1>1. job[j] \in Job /\ job \in [Calls -> Job] /\ call' = call
  BY DEF AlertsTypeOK, Report, RecordError, PaymentFailed
<1>2. job[j].wanted = {}
  BY DEF Report, RecordError, PaymentFailed, JobsSound, JobIsSound, Idle
<1>3. job'[j].wanted = {} /\ job'[j].pc \in {"recording", "alerting", "ended"}
  BY <1>1, <1>2 DEF Report, RecordError, PaymentFailed, Job
<1>4. job'[j].pc = "recording" => call'[j].outcome \in Failures
  BY <1>1 DEF Report, RecordError, PaymentFailed, Job
<1>5. QED BY <1>3, <1>4 DEF JobIsSound

(* All it has found are still to be told.                                   *)
LEMMA JobFindsRecipients ==
  ASSUME AlertsTypeOK, NEW j \in Calls, Recipients(j)
  PROVE  JobIsSound(j)'
<1>1. job[j] \in Job /\ job \in [Calls -> Job]
  BY DEF AlertsTypeOK
<1>2. PICK wanted \in SUBSET EnvAdmins, todo \in Todos :
         /\ job' = [job EXCEPT ![j].pc = "reserving", ![j].wanted = wanted, ![j].todo = todo]
         /\ \A a \in wanted : \E i \in DOMAIN todo : todo[i][1] = a
  BY RecipientsTodo
<1>3. job'[j].pc = "reserving" /\ job'[j].wanted = wanted /\ job'[j].todo = todo
  BY <1>1, <1>2 DEF Job
<1>4. QED BY <1>2, <1>3 DEF JobIsSound

(* The one it leaves has the notice in the log; the others stay in the list.*)
LEMMA JobLeavesHead ==
  ASSUME AlertsTypeOK, JobsSound, NEW j \in Calls, PassOver(j) \/ Answer(j)
  PROVE  JobIsSound(j)'
<1>1. job[j] \in Job /\ job \in [Calls -> Job] /\ logs \in [DOMAIN logs -> LogRow]
  BY DEF AlertsTypeOK
<1>2. job[j].pc \in {"reserving", "sending"} /\ Key(j) \in DOMAIN logs /\ job[j].todo # <<>>
  BY DEF PassOver, Answer, Reserving, JobsSound, JobIsSound
<1>3. job'[j].pc = "reserving" /\ job'[j].todo = Tail(job[j].todo)
      /\ job'[j].wanted = job[j].wanted /\ job'[j].base = job[j].base
  BY <1>1 DEF PassOver, Answer, Reserving, Job
<1>4. DOMAIN logs' = DOMAIN logs
  BY <1>1 DEF PassOver, Answer
<1>5. ASSUME NEW a \in job[j].wanted
      PROVE  InLog(j, a)' \/ \E i \in DOMAIN job'[j].todo : job'[j].todo[i][1] = a
  <2>1. CASE InLog(j, a)
    BY <2>1, <1>3, <1>4 DEF InLog
  <2>2. CASE \E i \in DOMAIN job[j].todo : job[j].todo[i][1] = a
    <3>1. PICK i \in DOMAIN job[j].todo : job[j].todo[i][1] = a
      BY <2>2
    <3>2. job[j].todo \in Seq(EnvAdmins \X ({NoRow} \cup 0..MaxEdits))
      BY <1>1 DEF Job, Todos
    <3>3. CASE i = 1
      BY <3>1, <3>2, <3>3, <1>2, <1>3, <1>4 DEF Key, InLog
    <3>4. CASE i # 1
      <4>1. i - 1 \in DOMAIN Tail(job[j].todo) /\ Tail(job[j].todo)[i - 1] = job[j].todo[i]
        BY <3>1, <3>2, <3>4, <1>2
      <4>2. QED BY <4>1, <3>1, <1>3
    <3>5. QED BY <3>3, <3>4
  <2>3. QED BY <1>2, <2>1, <2>2 DEF JobsSound, JobIsSound
<1>6. QED BY <1>3, <1>5 DEF JobIsSound

(* The one it reserves for is the head of the list, and now in the log.     *)
LEMMA JobReserves ==
  ASSUME AlertsTypeOK, JobsSound, NEW j \in Calls, Reserve(j)
  PROVE  JobIsSound(j)'
<1>1. job[j] \in Job /\ job \in [Calls -> Job]
  BY DEF AlertsTypeOK
<1>2. job'[j].pc = "sending" /\ job'[j].todo = job[j].todo
      /\ job'[j].wanted = job[j].wanted /\ job'[j].base = job[j].base
  BY <1>1 DEF Reserve, Job
<1>3. Key(j)' = Key(j)
  BY <1>2 DEF Key
<1>4. Key(j)' \in DOMAIN logs' /\ DOMAIN logs \subseteq DOMAIN logs'
  BY <1>3 DEF Reserve
<1>5. \A a : InLog(j, a) => InLog(j, a)'
  BY <1>2, <1>4 DEF InLog
<1>6. job[j].pc = "reserving" /\ job[j].todo # <<>>
  BY DEF Reserve, Reserving
<1>7. QED BY <1>2, <1>4, <1>5, <1>6 DEF JobsSound, JobIsSound

(* A job ends when its list is empty; one that fails promises nothing.      *)
LEMMA JobStops ==
  ASSUME AlertsTypeOK, JobsSound, NEW j \in Calls, Abort(j) \/ Finish(j) \/ Die(j)
  PROVE  JobIsSound(j)'
<1>1. job[j] \in Job /\ job \in [Calls -> Job] /\ logs' = logs
  BY DEF AlertsTypeOK, Abort, Finish, Die
<1>2. job'[j].pc \in {"aborted", "ended", "crashed"}
      /\ job'[j].wanted = job[j].wanted /\ job'[j].base = job[j].base
  BY <1>1 DEF Abort, Finish, Die, Job
<1>3. job'[j].pc = "ended" => job[j].pc = "reserving" /\ job[j].todo = <<>>
  BY <1>1 DEF Abort, Finish, Die, Job
<1>4. \A a : InLog(j, a)' <=> InLog(j, a)
  BY <1>1, <1>2 DEF InLog
<1>5. QED BY <1>2, <1>3, <1>4 DEF JobsSound, JobIsSound

(* Every step keeps the jobs sound: the log only grows.                     *)
LEMMA JobsStep ==
  AlertsTypeOK /\ OneHanded /\ JobsSound /\ [AlertsNext]_alertsVars => JobsSound'
<1> SUFFICES ASSUME AlertsTypeOK, OneHanded, JobsSound, [AlertsNext]_alertsVars,
                    NEW d \in Calls
             PROVE  JobIsSound(d)'
  BY DEF JobsSound
<1>1. DOMAIN logs \subseteq DOMAIN logs' /\ JobIsSound(d)
  BY LogGrows DEF JobsSound
<1>2. job \in [Calls -> Job] /\ call \in [Calls -> CallState]
  BY DEF AlertsTypeOK
<1>3. CASE UNCHANGED <<call, job>>
  BY <1>1, <1>3, JobUntouched
<1>4. CASE Requests
  <2>1. PICK c \in Calls : job[c].pc = "idle" /\ RequestStep(c)
    BY <1>4 DEF Requests
  <2>2. \A e \in Calls \ {c} : call'[e] = call[e]
    BY <1>2, <2>1
    DEF RequestStep, CreateResponse, ConnectFails, Breaks, TooManyRequests, ErrorStatus, Responds,
        Retry, Pause, Ends
  <2>3. job[d].pc = "recording" => call'[d] = call[d]
    BY <2>1, <2>2
  <2>4. QED BY <1>1, <1>4, <2>3, JobUntouched DEF Requests
<1>5. ASSUME NEW j \in Calls, JobSteps(j) PROVE JobIsSound(d)'
  <2>1. CASE d = j
    BY <1>5, <2>1, JobOpens, JobFindsRecipients, JobLeavesHead, JobReserves, JobStops
    DEF JobSteps, Notify
  <2>2. CASE d # j
    <3>1. call' = call /\ job'[d] = job[d]
      BY <1>2, <1>5, <2>2
      DEF JobSteps, Notify, Report, RecordError, PaymentFailed, Recipients, PassOver, Reserve,
          Abort, Answer, Finish, Die
    <3>2. QED BY <1>1, <3>1, JobUntouched
  <2>3. QED BY <2>1, <2>2
<1>6. QED
  BY <1>3, <1>4, <1>5
  DEF AlertsNext, JobSteps, alertsVars, Tick, RecoverStale, SyncNotificationAdmins, EditKeeps,
      CreateRecipient, UpdateRecipient, DeleteRecipient, NotificationToggle

-----------------------------------------------------------------------------
(* Stamps.  A step that stamps nothing new and leaves the errors' rows      *)
(* alone cannot break their order.                                          *)
Bounded == \A b \in Bases, s \in 0..MaxTime : Stamped(b, s)' => Stamped(b, s)

(* Fewer stamps keep the order they had.                                    *)
LEMMA NothingStamped ==
  ASSUME StampsLag, StampsApart, Bounded, events' = events
  PROVE  StampsLag' /\ StampsApart'
BY DEF StampsLag, StampsApart, Bounded

(* Jobs that keep their stamp, or end, and a log without new rows stamp nothing.*)
LEMMA KeptStamps ==
  ASSUME AlertsTypeOK, OneHanded, JobsSound, [AlertsNext]_alertsVars,
         DOMAIN logs' = DOMAIN logs,
         \A j \in Calls : job'[j].pc \in {"alerting", "reserving", "sending"} =>
            /\ job[j].pc \in {"alerting", "reserving", "sending"}
            /\ job'[j].base = job[j].base /\ job'[j].stamp = job[j].stamp
  PROVE  Bounded
<1>1. DOMAIN logs' = DOMAIN logs /\ \A k \in DOMAIN logs : logs'[k].stamp = logs[k].stamp
  BY LogGrows
<1>2. QED BY <1>1 DEF Bounded, Stamped

(* A reserved row has the stamp of its job.                                 *)
LEMMA ReserveStamps ==
  ASSUME AlertsTypeOK, NEW j \in Calls, Reserve(j)
  PROVE  Bounded
<1>1. job[j] \in Job /\ job \in [Calls -> Job]
  BY DEF AlertsTypeOK
<1>2. \A i \in Calls : job'[i].base = job[i].base /\ job'[i].stamp = job[i].stamp
                       /\ (job'[i].pc = job[i].pc \/ i = j)
  BY <1>1 DEF Reserve, Job
<1>3. job[j].pc = "reserving"
  BY DEF Reserve, Reserving
<1>4. \A k \in DOMAIN logs' :
         \/ k \in DOMAIN logs /\ logs'[k] = logs[k]
         \/ k.base = job[j].base /\ logs'[k].stamp = job[j].stamp
  BY DEF Reserve, Key
<1>5. SUFFICES ASSUME NEW b \in Bases, NEW s \in 0..MaxTime, Stamped(b, s)'
               PROVE  Stamped(b, s)
  BY DEF Bounded
<1>6. CASE \E k \in DOMAIN logs' : k.base = b /\ logs'[k].stamp = s
  BY <1>3, <1>4, <1>6 DEF Stamped
<1>7. CASE \E i \in Calls :
             job'[i].pc \in {"alerting", "reserving", "sending"} /\ job'[i].base = b /\ job'[i].stamp = s
  BY <1>2, <1>3, <1>7 DEF Stamped
<1>8. QED BY <1>5, <1>6, <1>7 DEF Stamped

(* A failed payment has one notice only.                                    *)
LEMMA PaymentStamps ==
  ASSUME AlertsTypeOK, JobsSound, StampsLag, StampsApart, NEW j \in Calls, PaymentFailed(j)
  PROVE  StampsLag' /\ StampsApart'
<1>1. job[j] = Idle /\ job \in [Calls -> Job] /\ job[j] \in Job
  BY DEF PaymentFailed, JobsSound, JobIsSound, AlertsTypeOK
<1>2. job'[j].base = [source |-> "payment", notice |-> 0]
  BY <1>1 DEF PaymentFailed, Idle
<1>3. \A i \in Calls \ {j} : job'[i] = job[i]
  BY <1>1 DEF PaymentFailed
<1>4. logs' = logs /\ events' = events
  BY DEF PaymentFailed
<1>5. ASSUME NEW b \in Bases, NEW s \in 0..MaxTime, Stamped(b, s)'
      PROVE  Stamped(b, s) \/ b = [source |-> "payment", notice |-> 0]
  BY <1>2, <1>3, <1>4, <1>5 DEF Stamped
<1>6. StampsLag'
  BY <1>4, <1>5 DEF StampsLag
<1>7. StampsApart'
  <2> SUFFICES ASSUME NEW b \in Bases, NEW c \in Bases, NEW s \in 0..MaxTime, NEW t \in 0..MaxTime,
                      Stamped(b, s)', Stamped(c, t)', b.source = c.source, b.notice < c.notice
               PROVE  s + Cooldown <= t
    BY DEF StampsApart
  <2>1. c.source # "payment"
    BY <1>6 DEF StampsLag, Bases
  <2>2. Stamped(b, s) /\ Stamped(c, t)
    BY <1>5, <2>1
  <2>3. QED BY <2>2 DEF StampsApart
<1>8. QED BY <1>6, <1>7

(* A notice is stamped a cooldown after the one before it, whoever of the   *)
(* reporters gets the row first.                                            *)
LEMMA ErrorStamps ==
  ASSUME AlertsTypeOK, JobsSound, StampsLag, StampsApart, NEW j \in Calls, RecordError(j)
  PROVE  StampsLag' /\ StampsApart'
<1> DEFINE f == call[j].outcome
           at == job[j].stamp
           n == events[f].notices
           new == [source |-> f, notice |-> n + 1]
<1>1. /\ job[j] \in Job /\ job \in [Calls -> Job] /\ f \in Failures /\ events[f] \in Event
      /\ events \in [Failures -> Event]
  BY DEF RecordError, JobsSound, JobIsSound, AlertsTypeOK
<1>2. at \in 0..MaxTime /\ n \in Nat /\ new \in Bases /\ f # "payment"
  BY <1>1 DEF Job, Event, Bases, Failures
<1>3. \A i \in Calls \ {j} : job'[i] = job[i]
  BY <1>1 DEF RecordError
<1>4. logs' = logs /\ job[j].pc = "recording"
  BY DEF RecordError
<1>5. CASE ~Due(f, at)
  <2>1. job'[j].pc = "ended"
    BY <1>1, <1>5 DEF RecordError, Job
  <2>2. Bounded
    BY <1>3, <1>4, <2>1 DEF Bounded, Stamped
  <2>3. events' = events
    <3>1. events[f] = [notified |-> events[f].notified, notices |-> events[f].notices]
      BY <1>1 DEF Event
    <3>2. events'[f] = events[f]
      BY <1>1, <1>5, <3>1 DEF RecordError
    <3>3. QED BY <1>1, <3>2 DEF RecordError
  <2>4. QED BY <2>2, <2>3, NothingStamped
<1>6. CASE Due(f, at)
  <2>1. /\ events'[f].notified = at /\ events'[f].notices = n + 1
        /\ \A g \in Failures \ {f} : events'[g] = events[g]
    BY <1>1, <1>6 DEF RecordError, Event
  <2>2. job'[j].base = new /\ job'[j].stamp = at
    <3>1. [source |-> f, notice |-> events'[f].notices] = new
      BY <2>1
    <3> HIDE DEF new
    <3>2. job' = [job EXCEPT ![j].pc = "alerting", ![j].base = new]
      BY <1>6, <3>1 DEF RecordError
    <3>3. job'[j] = [job[j] EXCEPT !.pc = "alerting", !.base = new]
      BY <1>1, <3>2
    <3>4. QED BY <1>1, <3>3 DEF Job
  <2>3. ASSUME NEW b \in Bases, NEW s \in 0..MaxTime, Stamped(b, s)'
        PROVE  Stamped(b, s) \/ (b = new /\ s = at)
    <3> HIDE DEF new, at, n, f
    <3>1. QED BY <1>3, <1>4, <2>2, <2>3 DEF Stamped
  <2>4. ASSUME NEW b \in Bases, NEW s \in 0..MaxTime, Stamped(b, s), b.source = f
        PROVE  b.notice <= n /\ s + Cooldown <= at
    <3>1. /\ events[f].notified \in Nat /\ b.notice <= n
          /\ b.notice = n => s = events[f].notified
          /\ b.notice < n => s + Cooldown <= events[f].notified
      BY <1>2, <2>4 DEF StampsLag
    <3>2. events[f].notified + Cooldown <= at
      BY <1>6, <3>1, AlertsAssumption DEF Due
    <3>3. b.notice \in Nat /\ Cooldown \in Nat
      BY AlertsAssumption DEF Bases
    <3>4. QED BY <1>2, <3>1, <3>2, <3>3
  <2>5. StampsLag'
    <3> SUFFICES ASSUME NEW b \in Bases, NEW s \in 0..MaxTime, Stamped(b, s)'
                 PROVE  IF b.source = "payment" THEN b.notice = 0
                        ELSE LET e == events'[b.source] IN
                             /\ e.notified \in Nat /\ b.notice <= e.notices
                             /\ b.notice = e.notices => s = e.notified
                             /\ b.notice < e.notices => s + Cooldown <= e.notified
      BY DEF StampsLag
    <3>1. CASE b = new /\ s = at
      BY <1>2, <2>1, <3>1
    <3>2. CASE Stamped(b, s) /\ b.source = f
      <4>1. b.notice <= n /\ s + Cooldown <= at /\ b.notice \in Nat
        BY <2>4, <3>2 DEF Bases
      <4>2. QED BY <1>2, <2>1, <3>2, <4>1
    <3>3. CASE Stamped(b, s) /\ b.source # f
      <4>1. b.source # "payment" => b.source \in Failures
        BY DEF Bases
      <4>2. QED BY <2>1, <3>3, <4>1 DEF StampsLag
    <3>4. QED BY <2>3, <3>1, <3>2, <3>3
  <2>6. StampsApart'
    <3> SUFFICES ASSUME NEW b \in Bases, NEW c \in Bases, NEW s \in 0..MaxTime, NEW t \in 0..MaxTime,
                        Stamped(b, s)', Stamped(c, t)', b.source = c.source, b.notice < c.notice
                 PROVE  s + Cooldown <= t
      BY DEF StampsApart
    <3>1. CASE b = new /\ s = at
      <4>1. c.notice \in Nat /\ c.source = f /\ c # new
        BY <1>2, <3>1 DEF Bases
      <4>2. c.notice <= n
        BY <2>3, <2>4, <4>1
      <4>3. QED BY <1>2, <3>1, <4>1, <4>2
    <3>2. CASE Stamped(b, s) /\ c = new /\ t = at
      BY <2>4, <3>2
    <3>3. CASE Stamped(b, s) /\ Stamped(c, t)
      BY <3>3 DEF StampsApart
    <3>4. QED BY <2>3, <3>1, <3>2, <3>3
  <2>7. QED BY <2>5, <2>6
<1>7. QED BY <1>5, <1>6

(* Every step keeps the stamps in order.                                    *)
LEMMA StampsStep ==
  /\ AlertsTypeOK /\ OneHanded /\ JobsSound /\ StampsLag /\ StampsApart /\ [AlertsNext]_alertsVars
  => StampsLag' /\ StampsApart'
<1> SUFFICES ASSUME AlertsTypeOK, OneHanded, JobsSound, StampsLag, StampsApart,
                    [AlertsNext]_alertsVars
             PROVE  StampsLag' /\ StampsApart'
  OBVIOUS
<1>1. job \in [Calls -> Job] /\ logs \in [DOMAIN logs -> LogRow]
  BY DEF AlertsTypeOK
<1>2. CASE job' = job /\ events' = events /\ DOMAIN logs' = DOMAIN logs
  BY <1>2, KeptStamps, NothingStamped
<1>3. CASE RecoverStale
  BY <1>1, <1>2, <1>3 DEF RecoverStale
<1>4. ASSUME NEW j \in Calls, Reserve(j) PROVE StampsLag' /\ StampsApart'
  BY <1>4, ReserveStamps, NothingStamped DEF Reserve
<1>5. ASSUME NEW j \in Calls, RecordError(j) \/ PaymentFailed(j)
      PROVE  StampsLag' /\ StampsApart'
  BY <1>5, ErrorStamps, PaymentStamps
<1>6. ASSUME NEW j \in Calls, Report(j) \/ Recipients(j) \/ PassOver(j) \/ Abort(j) \/ Answer(j)
                              \/ Finish(j) \/ Die(j)
      PROVE  StampsLag' /\ StampsApart'
  <2>1. job[j] \in Job
    BY <1>1
  <2>2. events' = events /\ DOMAIN logs' = DOMAIN logs /\ \A i \in Calls \ {j} : job'[i] = job[i]
    BY <1>1, <1>6 DEF Report, Recipients, PassOver, Abort, Answer, Finish, Die
  <2>3. job'[j].pc \in {"alerting", "reserving", "sending"} =>
            /\ job[j].pc \in {"alerting", "reserving", "sending"}
            /\ job'[j].base = job[j].base /\ job'[j].stamp = job[j].stamp
    <3>1. CASE Recipients(j)
      <4>1. PICK wanted \in SUBSET EnvAdmins, todo \in Todos :
              job' = [job EXCEPT ![j].pc = "reserving", ![j].wanted = wanted, ![j].todo = todo]
        BY <3>1, RecipientsTodo
      <4>2. job'[j].base = job[j].base /\ job'[j].stamp = job[j].stamp
        BY <1>1, <2>1, <4>1 DEF Job
      <4>3. QED BY <3>1, <4>2 DEF Recipients
    <3>2. CASE PassOver(j) \/ Answer(j)
      BY <1>1, <2>1, <3>2 DEF PassOver, Reserving, Answer, Job
    <3>3. CASE Report(j) \/ Abort(j) \/ Finish(j) \/ Die(j)
      BY <1>1, <2>1, <3>3 DEF Report, Abort, Finish, Die, Job
    <3>4. QED BY <1>6, <3>1, <3>2, <3>3
  <2>4. QED BY <2>2, <2>3, KeptStamps, NothingStamped
<1>7. QED
  BY <1>2, <1>3, <1>4, <1>5, <1>6
  DEF AlertsNext, Notify, alertsVars, Tick, Requests, SyncNotificationAdmins, EditKeeps,
      CreateRecipient, UpdateRecipient, DeleteRecipient, NotificationToggle

-----------------------------------------------------------------------------
(* In the beginning nothing was asked for, and nothing has failed.          *)
LEMMA InitAlertsIInv == AlertsInit => AlertsIInv
<1> SUFFICES ASSUME AlertsInit PROVE AlertsIInv
  OBVIOUS
<1>1. AlertsTypeOK
  <2>1. call \in [Calls -> CallState] /\ processed \in [Calls -> Nat]
    BY DEF AlertsInit, RequestInit, CallState
  <2>2. now \in 0..MaxTime /\ edits \in 0..MaxEdits /\ deaths \in 0..MaxDeaths
    BY AlertsAssumption DEF AlertsInit
  <2>3. events \in [Failures -> Event]
    BY DEF AlertsInit, Event
  <2>4. rows \in [Admins -> Row \cup {NoRow}]
    <3>1. PICK r \in {NoRow, [id |-> 0, enabled |-> TRUE, wants |-> Kinds]} :
            rows = [a \in Admins |-> r]
      BY DEF AlertsInit
    <3>2. 0 \in 0..MaxEdits
      BY AlertsAssumption
    <3>3. [id |-> 0, enabled |-> TRUE, wants |-> Kinds] \in Row
      BY <3>2 DEF Row
    <3>4. QED BY <3>1, <3>3
  <2>5. DOMAIN logs \subseteq Keys /\ logs \in [DOMAIN logs -> LogRow]
    <3>1. logs = <<>> /\ DOMAIN logs = {}
      BY DEF AlertsInit
    <3>2. QED BY <3>1
  <2>6. job \in [Calls -> Job]
    BY IdleType DEF AlertsInit
  <2>7. QED BY <2>1, <2>2, <2>3, <2>4, <2>5, <2>6 DEF AlertsTypeOK
<1>2. RequestsSound
  BY DEF AlertsInit, RequestInit, RequestsSound
<1>3. JobsSound
  BY DEF AlertsInit, Idle, JobsSound, JobIsSound
<1>4. DOMAIN logs = {} /\ \A j \in Calls : job[j].pc = "idle"
  BY DEF AlertsInit, Idle
<1>5. OneHanded /\ StampsLag /\ StampsApart
  BY <1>4 DEF OneHanded, StampsLag, StampsApart, Stamped
<1>6. QED BY <1>1, <1>2, <1>3, <1>5 DEF AlertsIInv

(* Every reachable state satisfies the inductive invariant.                 *)
THEOREM AlertsIInvHolds == AlertsSpec => []AlertsIInv
<1>1. AlertsInit => AlertsIInv
  BY InitAlertsIInv
<1>2. AlertsIInv /\ [AlertsNext]_alertsVars => AlertsIInv'
  BY AlertsTypeStep, RequestsStep, LogGrows, JobsStep, StampsStep DEF AlertsIInv
<1>3. QED BY <1>1, <1>2, PTL DEF AlertsSpec

(* The tables, the requests and the jobs keep their types.                  *)
THEOREM AlertsTypeCorrect == AlertsSpec => []AlertsTypeOK
<1>1. AlertsIInv => AlertsTypeOK
  BY DEF AlertsIInv
<1>2. QED BY <1>1, AlertsIInvHolds, PTL

(* OpenAI makes, and charges for, at most one response to a chat turn.      *)
THEOREM ProcessedAtMostOnce == AlertsSpec => []ProcessedOnce
<1>1. AlertsIInv => ProcessedOnce
  BY DEF AlertsIInv, RequestsSound, ProcessedOnce
<1>2. QED BY <1>1, AlertsIInvHolds, PTL

(* No administrator is handed the same notice twice.                        *)
THEOREM AlertNeverRepeated == AlertsSpec => []AlertSentOnce
<1>1. AlertsIInv => AlertSentOnce
  BY DEF AlertsIInv, OneHanded, AlertSentOnce
<1>2. QED BY <1>1, AlertsIInvHolds, PTL

(* The notices of an error keep the cooldown, whatever their reporters'     *)
(* order is at the row.                                                     *)
THEOREM CooldownHolds == AlertsSpec => []CooldownKept
<1>1. ASSUME AlertsIInv PROVE CooldownKept
  <2>1. SUFFICES ASSUME NEW k \in DOMAIN logs, NEW m \in DOMAIN logs,
                        k.base.source = m.base.source, k.base.notice < m.base.notice
                 PROVE  logs[k].stamp + Cooldown <= logs[m].stamp
    BY DEF CooldownKept
  <2>2. ASSUME NEW i \in DOMAIN logs
        PROVE  i.base \in Bases /\ logs[i].stamp \in 0..MaxTime /\ Stamped(i.base, logs[i].stamp)
    BY <1>1 DEF AlertsIInv, AlertsTypeOK, Keys, LogRow, Stamped
  <2>3. QED BY <1>1, <2>1, <2>2 DEF AlertsIInv, StampsApart
<1>2. QED BY <1>1, AlertsIInvHolds, PTL

(* Whoever wanted a notice when its notifier began has it in the log when   *)
(* the notifier has come to its end.                                        *)
THEOREM NobodyForgotten == AlertsSpec => []EveryRecipientTold
<1>1. AlertsIInv => EveryRecipientTold
  BY DEF AlertsIInv, JobsSound, JobIsSound, InLog, EveryRecipientTold
<1>2. QED BY <1>1, AlertsIInvHolds, PTL
=============================================================================
