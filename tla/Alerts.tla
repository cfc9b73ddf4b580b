------------------------------- MODULE Alerts -------------------------------
(***************************************************************************)
(* What the administrators are told.  A chat turn whose call to OpenAI has *)
(* failed is reported (notifications/errors.py): the failure is counted    *)
(* under its fingerprint, and at most once per cooldown the administrators *)
(* are alerted.  A payment provider that reports a failed payment, as many *)
(* times as it likes, has them told as well.  AdminNotifier reserves a row *)
(* of notification_logs for every recipient before it calls Telegram.      *)
(* Meanwhile the recipients' settings are edited, processes die, and the   *)
(* worker gives up on what stays pending.                                  *)
(***************************************************************************)
EXTENDS OpenAIRequest, FiniteSets, TLC

CONSTANTS EnvAdmins,   \* ADMIN_TELEGRAM_IDS, a set of numbers
          Former,      \* administrators who were taken out of it
          Cooldown,    \* notifications.errors.cooldown_minutes
          Forms,       \* what the settings form may be sent with
          MaxTime, MaxEdits, MaxDeaths,  \* bounds
          Never, NoRow

Kinds == {"openai_error", "critical_error", "payment_failed"}

ASSUME AlertsAssumption ==
  /\ EnvAdmins \subseteq Nat /\ Former \subseteq Nat /\ EnvAdmins \cap Former = {}
  /\ IsFiniteSet(EnvAdmins) /\ Forms \subseteq [enabled: BOOLEAN, wants: SUBSET Kinds]
  /\ Cooldown \in Nat \ {0} /\ MaxTime \in Nat /\ MaxEdits \in Nat /\ MaxDeaths \in Nat
  /\ Never \notin Nat

VARIABLES now,
          events,      \* error_events by fingerprint
          rows,        \* admin_notification_settings by Telegram id
          logs,        \* notification_logs by dedupe_key
          job,         \* what each turn or callback of the provider has come to
          edits,       \* changes of the settings so far; gives the rows ids
          deaths

alertsVars == <<call, processed, now, events, rows, logs, job, edits, deaths>>

Admins == EnvAdmins \cup Former

\* A fingerprint stands for service, category, type and text of an exception.
Event == [notified: {Never} \cup 0..MaxTime, notices: Nat]

Row == [id: 0..MaxEdits, enabled: BOOLEAN, wants: SUBSET Kinds]

\* The base of a dedupe_key: which notice of which error, or the payment.
Bases == [source: Failures \cup {"payment"}, notice: Nat]
Keys == [base: Bases, admin: EnvAdmins]

\* Administrators, each with the settings row that names him or without one.
Todos == Seq(EnvAdmins \X ({NoRow} \cup 0..MaxEdits))

Job == [pc: {"idle", "recording", "alerting", "reserving", "sending", "ended", "aborted", "crashed"},
        stamp: 0..MaxTime,                  \* current_time, read before the upsert
        base: Bases,
        wanted: SUBSET EnvAdmins,           \* whom recipients_for has found
        todo: Todos]                        \* those still to be told

Idle == [pc |-> "idle", stamp |-> 0, base |-> [source |-> "payment", notice |-> 0],
         wanted |-> {}, todo |-> <<>>]

\* The table of recipients is empty, or holds a row with the defaults for all.
AlertsInit ==
  /\ RequestInit
  /\ now = 0 /\ edits = 0 /\ deaths = 0
  /\ events = [f \in Failures |-> [notified |-> Never, notices |-> 0]]
  /\ \E row \in {NoRow, [id |-> 0, enabled |-> TRUE, wants |-> Kinds]} : rows = [a \in Admins |-> row]
  /\ logs = <<>>
  /\ job = [j \in Calls |-> Idle]

Tick ==
  /\ now < MaxTime
  /\ now' = now + 1
  /\ UNCHANGED <<call, processed, events, rows, logs, job, edits, deaths>>

Requests ==
  /\ \E c \in Calls : job[c].pc = "idle" /\ RequestStep(c)
  /\ UNCHANGED <<now, events, rows, logs, job, edits, deaths>>

-----------------------------------------------------------------------------
(* report_exception.                                                        *)

Category(f) == IF f = "unexpected" THEN "critical_error" ELSE "openai_error"
Kind(base) == IF base.source = "payment" THEN "payment_failed" ELSE Category(base.source)

\* The handler of the chat message catches the failure; an answer, and what is
\* told to the user only (incomplete, blocked), is not reported.
Report(c) ==
  /\ job[c].pc = "idle" /\ call[c].outcome \in Failures
  /\ job' = [job EXCEPT ![c].pc = "recording", ![c].stamp = now]
  /\ UNCHANGED <<call, processed, now, events, rows, logs, edits, deaths>>

\* Mutant of Due: the comparison is the wrong way round.
DueTooEarly(f, stamp) == events[f].notified = Never \/ stamp <= events[f].notified + Cooldown

Due(f, stamp) == events[f].notified = Never \/ events[f].notified + Cooldown <= stamp

\* record and its commit: the upsert holds the row to the end.
RecordError(c) ==
  LET f == call[c].outcome
      due == Due(f, job[c].stamp) IN
  /\ job[c].pc = "recording"
  /\ events' = [events EXCEPT ![f] =
       [notified |-> IF due THEN job[c].stamp ELSE @.notified,
        notices |-> IF due THEN @.notices + 1 ELSE @.notices]]
  /\ job' = [job EXCEPT ![c].pc = IF due THEN "alerting" ELSE "ended",
                        ![c].base = [source |-> f, notice |-> events'[f].notices]]
  /\ UNCHANGED <<call, processed, now, rows, logs, edits, deaths>>

\* Not a chat turn but a callback of the provider: the first fails the payment,
\* the later ones find it failed.
PaymentFailed(d) ==
  /\ job[d].pc = "idle" /\ call[d].pc = "new"
  /\ job' = [job EXCEPT ![d].pc = "alerting", ![d].stamp = now]
  /\ UNCHANGED <<call, processed, now, events, rows, logs, edits, deaths>>

-----------------------------------------------------------------------------
(* AdminNotifier._send_impl.                                                *)

\* recipients_for: the rows only narrow what the environment's ids get.
Wants(a, kind) == rows[a] = NoRow \/ (rows[a].enabled /\ kind \in rows[a].wants)

\* ORDER BY, or sorted: each is named once, in the order of the ids.
InOrder(S) ==
  {q \in [1..Cardinality(S) -> S] : Range(q) = S /\ \A i, k \in DOMAIN q : i < k => q[i] < q[k]}

Recipient(a) == <<a, IF rows[a] = NoRow THEN NoRow ELSE rows[a].id>>

Recipients(j) ==
  LET wanted == {a \in EnvAdmins : Wants(a, Kind(job[j].base))} IN
  /\ job[j].pc = "alerting"
  /\ \E q \in InOrder(wanted) :
       job' = [job EXCEPT ![j].pc = "reserving", ![j].wanted = wanted,
                          ![j].todo = [i \in DOMAIN q |-> Recipient(q[i])]]
  /\ UNCHANGED <<call, processed, now, events, rows, logs, edits, deaths>>

Key(j) == [base |-> job[j].base, admin |-> Head(job[j].todo)[1]]

Reserving(j) == job[j].pc = "reserving" /\ job[j].todo # <<>>

\* Mutant of PassOver: a notice somebody else has reserved ends the loop.
PassAll(j) ==
  /\ Reserving(j) /\ Key(j) \in DOMAIN logs
  /\ job' = [job EXCEPT ![j].todo = <<>>]
  /\ UNCHANGED <<call, processed, now, events, rows, logs, edits, deaths>>

\* ON CONFLICT (dedupe_key) DO NOTHING
PassOver(j) ==
  /\ Reserving(j) /\ Key(j) \in DOMAIN logs
  /\ job' = [job EXCEPT ![j].todo = Tail(@)]
  /\ UNCHANGED <<call, processed, now, events, rows, logs, edits, deaths>>

\* The settings row that named the recipient still exists.
StillThere(recipient) ==
  recipient[2] = NoRow \/ (rows[recipient[1]] # NoRow /\ rows[recipient[1]].id = recipient[2])

\* reserve and its commit; from here on Telegram is called.
Reserve(j) ==
  /\ Reserving(j) /\ Key(j) \notin DOMAIN logs
  /\ StillThere(Head(job[j].todo))
  /\ logs' = [k \in DOMAIN logs \cup {Key(j)} |->
       IF k = Key(j) THEN [status |-> "pending", handed |-> 1, stamp |-> job[j].stamp] ELSE logs[k]]
  /\ job' = [job EXCEPT ![j].pc = "sending"]
  /\ UNCHANGED <<call, processed, now, events, rows, edits, deaths>>

\* The row is gone: the foreign key is refused, _send rolls back and gives up.
Abort(j) ==
  /\ Reserving(j) /\ Key(j) \notin DOMAIN logs
  /\ ~StillThere(Head(job[j].todo))
  /\ job' = [job EXCEPT ![j].pc = "aborted"]
  /\ UNCHANGED <<call, processed, now, events, rows, logs, edits, deaths>>

\* Mutant of Answer: an uncertain delivery is tried once more.
AnswerOrRepeat(j) ==
  /\ job[j].pc = "sending"
  /\ \/ /\ \E status \in {"sent", "failed"} : logs' = [logs EXCEPT ![Key(j)].status = status]
        /\ job' = [job EXCEPT ![j].pc = "reserving", ![j].todo = Tail(@)]
     \/ /\ logs[Key(j)].handed = 1
        /\ logs' = [logs EXCEPT ![Key(j)].handed = @ + 1]
        /\ UNCHANGED job
  /\ UNCHANGED <<call, processed, now, events, rows, edits, deaths>>

\* Sent, or refused by Telegram, or uncertain (one status here with blocked):
\* written and committed, never repeated.
Answer(j) ==
  /\ job[j].pc = "sending"
  /\ \E status \in {"sent", "failed"} : logs' = [logs EXCEPT ![Key(j)].status = status]
  /\ job' = [job EXCEPT ![j].pc = "reserving", ![j].todo = Tail(@)]
  /\ UNCHANGED <<call, processed, now, events, rows, edits, deaths>>

Finish(j) ==
  /\ job[j].pc = "reserving" /\ job[j].todo = <<>>
  /\ job' = [job EXCEPT ![j].pc = "ended"]
  /\ UNCHANGED <<call, processed, now, events, rows, logs, edits, deaths>>

\* The process of the bot or of the API dies.
Die(j) ==
  /\ job[j].pc \in {"recording", "alerting", "reserving", "sending"} /\ deaths < MaxDeaths
  /\ deaths' = deaths + 1
  /\ job' = [job EXCEPT ![j].pc = "crashed"]
  /\ UNCHANGED <<call, processed, now, events, rows, logs, edits>>

\* fail_stale_pending, after 20 minutes.
RecoverStale ==
  /\ \E k \in DOMAIN logs :
       logs[k].status = "pending" /\ logs' = [logs EXCEPT ![k].status = "failed"]
  /\ UNCHANGED <<call, processed, now, events, rows, job, edits, deaths>>

-----------------------------------------------------------------------------
(* The administrators' hands.                                               *)

Edits == edits < MaxEdits /\ edits' = edits + 1
EditKeeps == UNCHANGED <<call, processed, now, events, logs, job, deaths>>

NewRow == [id |-> edits + 1, enabled |-> TRUE, wants |-> Kinds]

CreateRecipient(a) ==
  /\ Edits /\ rows[a] = NoRow
  /\ rows' = [rows EXCEPT ![a] = NewRow]
  /\ EditKeeps

UpdateRecipient(a) ==
  /\ Edits /\ rows[a] # NoRow
  /\ \E form \in Forms :
       rows' = [rows EXCEPT ![a].enabled = form.enabled, ![a].wants = form.wants]
  /\ EditKeeps

DeleteRecipient(a) ==
  /\ Edits /\ rows[a] # NoRow
  /\ rows' = [rows EXCEPT ![a] = NoRow]
  /\ EditKeeps

\* notification_toggle of the Telegram panel.
NotificationToggle(a) ==
  /\ Edits /\ rows[a] # NoRow
  /\ \/ rows' = [rows EXCEPT ![a].enabled = ~@]
     \/ \E kind \in Kinds : rows' = [rows EXCEPT ![a].wants = SymDiff(@, {kind})]
  /\ EditKeeps

\* sync_notification_admins: rows of former administrators are switched off.
SyncNotificationAdmins ==
  /\ Edits
  /\ rows' = [a \in Admins |->
       IF a \in Former /\ rows[a] # NoRow THEN [rows[a] EXCEPT !.enabled = FALSE]
       ELSE IF a \in EnvAdmins /\ rows[a] = NoRow THEN NewRow ELSE rows[a]]
  /\ EditKeeps

Notify(j) == Recipients(j) \/ PassOver(j) \/ Reserve(j) \/ Abort(j) \/ Answer(j) \/ Finish(j)

AlertsNext ==
  \/ Tick \/ Requests \/ RecoverStale \/ SyncNotificationAdmins
  \/ \E c \in Calls : Report(c) \/ RecordError(c) \/ PaymentFailed(c) \/ Notify(c) \/ Die(c)
  \/ \E a \in Admins :
       CreateRecipient(a) \/ UpdateRecipient(a) \/ DeleteRecipient(a) \/ NotificationToggle(a)

AlertsSpec == AlertsInit /\ [][AlertsNext]_alertsVars

-----------------------------------------------------------------------------
\* The types of the variables.
LogRow == [status: {"pending", "sent", "failed"}, handed: Nat, stamp: 0..MaxTime]

AlertsTypeOK ==
  /\ call \in [Calls -> CallState] /\ processed \in [Calls -> Nat]
  /\ now \in 0..MaxTime /\ edits \in 0..MaxEdits /\ deaths \in 0..MaxDeaths
  /\ events \in [Failures -> Event]
  /\ rows \in [Admins -> Row \cup {NoRow}]
  /\ DOMAIN logs \subseteq Keys /\ logs \in [DOMAIN logs -> LogRow]
  /\ job \in [Calls -> Job]

(***************************************************************************)
(* README.md:1047: a repeated callback, and an error many turns meet at    *)
(* once, never hands the same notice to the same administrator twice, with *)
(* crashes and the recovery of pending rows.                               *)
(***************************************************************************)
AlertSentOnce == \A k \in DOMAIN logs : logs[k].handed <= 1

(***************************************************************************)
(* README.md:1053: the cooldown.  Notices of the same error that reached   *)
(* the table come from reports at least a cooldown apart, in whatever      *)
(* order the reporters, stamped before they wait for the row, get it.      *)
(***************************************************************************)
CooldownKept ==
  \A k, m \in DOMAIN logs :
    k.base.source = m.base.source /\ k.base.notice < m.base.notice =>
      logs[k].stamp + Cooldown <= logs[m].stamp

(***************************************************************************)
(* Nobody is forgotten: when a notifier has come to its end, a row stands  *)
(* for every administrator who wanted the notice when it began, his own or *)
(* one that another notifier of the same event has reserved.               *)
(***************************************************************************)
EveryRecipientTold ==
  \A j \in Calls : job[j].pc = "ended" =>
    \A a \in job[j].wanted : [base |-> job[j].base, admin |-> a] \in DOMAIN logs
=============================================================================
