------------------------------ MODULE ChatTurn ------------------------------
(***************************************************************************)
(* The chat turns of one user: app/ai/service.py, the summarizer, the      *)
(* limits and the dialog repository, called by bot/handlers/chat.py and    *)
(* new_dialog.py.                                                          *)
(*                                                                         *)
(* A Telegram update is a message to the model or a "new dialog" command.  *)
(* Its handler first updates the user's row, so it holds that row's lock   *)
(* until its transaction ends; then it takes the Redis conversation lease  *)
(* and, for a message, calls OpenAI once or twice before it commits.  What *)
(* it has written is in its draft and nobody else sees it.  A dialog bears *)
(* the name of the update that created it, a message the number the id     *)
(* sequence gave it.  Users share nothing here, so one of them is enough.  *)
(* Character budgets, token counts and the choice of the AI mode are left  *)
(* out; the limits that read them are a refusal that may always happen.    *)
(***************************************************************************)
EXTENDS Integers, FiniteSets, Sequences, Functions

CONSTANTS Chats, NewDialogs, \* the updates of the user, by kind
          Earlier,  \* the messages that were answered before we look, in order
          History,  \* ai.history_messages
          Trigger,  \* ai.summary_trigger_messages
          DayLimit, \* ai.requests_per_day, within one day
          Price,    \* credits_per_request of the mode
          MaxBalance,        \* bound on what top-ups bring the balance to
          TurnsOutlastLease, \* whether a turn may take longer than its lease
          NoUpdate

Updates == Chats \cup NewDialogs

ASSUME UpdateAssumption ==
  /\ IsFiniteSet(Updates) /\ NoUpdate \notin Updates /\ Chats \cap NewDialogs = {}
  /\ Earlier \in Seq(Chats) /\ IsInjective(Earlier)
ASSUME LimitAssumption ==
  /\ History \in Nat /\ Trigger \in Nat /\ History >= 2 /\ Trigger > History
  /\ 2 * Len(Earlier) < Trigger + 2 \* so that none of these turns made a summary
  /\ DayLimit \in Nat /\ Cardinality(Range(Earlier)) <= DayLimit
  /\ Price \in Nat \ {0} /\ MaxBalance \in Nat
  /\ TurnsOutlastLease \in BOOLEAN

VARIABLES pc,        \* how far the handler of each update is
          draft,     \* what each handler read and has not committed
          user_lock, \* the handler holding the users row, or NoUpdate
          lease,     \* the token under ai:conversation-lock, or NoUpdate
          dialogs, messages, \* committed rows
          next_id,   \* the id sequence of messages
          answered,  \* turns with a completed AIUsage row
          charged,   \* turns with an "ai-usage:" transaction
          balance,   \* credit_wallets.balance
          reply,     \* what each handler is about to say to the user
          told       \* what it has said

rows == <<dialogs, messages, answered, charged>>
replies == <<reply, told>>
vars == <<pc, draft, user_lock, lease, rows, balance, next_id, replies>>

Message == [id: Nat, dialog: Updates, turn: Updates, role: {"user", "assistant"},
            status: {"completed", "failed"}, is_summarized: BOOLEAN]
Dialog == [state: {"none", "active", "closed"}, summary: SUBSET Nat]

Phases == {"sent", "touched", "leased", "admitted", "summarizing", "summarized",
           "asking", "releasing", "replying", "returning", "breaking", "done", "dead"}

\* The model's answer; "credits were not taken"; anything that says neither.
Texts == {"none", "answer", "failure", "notice"}

Draft == [dialog: Updates \cup {NoUpdate}, opened: BOOLEAN, \* the dialog, if created here
          folding: SUBSET Nat, folded: SUBSET Nat, \* messages being summarized, and done
          summary: SUBSET Nat,                     \* what the new summary covers
          context: [summary: SUBSET Nat, recent: SUBSET Message], \* sent to the model
          question: Nat,                           \* id of the pending user message
          wrote: SUBSET Message, answer: BOOLEAN]  \* messages and usage not committed

Blank == [dialog |-> NoUpdate, opened |-> FALSE,
          folding |-> {}, folded |-> {}, summary |-> {},
          context |-> [summary |-> {}, recent |-> {}],
          question |-> 0, wrote |-> {}, answer |-> FALSE]

\* The user's one dialog was opened by the first of the earlier turns.
Turns == Range(Earlier)
First == {Earlier[1] : i \in DOMAIN Earlier}

Told(i, role) ==
  [id |-> IF role = "user" THEN 2 * i - 1 ELSE 2 * i, dialog |-> Earlier[1],
   turn |-> Earlier[i], role |-> role, status |-> "completed", is_summarized |-> FALSE]

Init ==
  /\ pc = [u \in Updates |-> IF u \in Turns THEN "done" ELSE "sent"]
  /\ draft = [u \in Updates |-> Blank]
  /\ user_lock = NoUpdate /\ lease = NoUpdate
  /\ dialogs = [d \in Updates |->
       [state |-> IF d \in First THEN "active" ELSE "none", summary |-> {}]]
  /\ messages = {Told(i, role) : i \in DOMAIN Earlier, role \in {"user", "assistant"}}
  /\ next_id = 2 * Len(Earlier) + 1
  /\ answered = Turns /\ charged = Turns
  /\ balance \in 0..MaxBalance
  /\ reply = [u \in Updates |-> "none"]
  /\ told = [u \in Updates |-> IF u \in Turns THEN "answer" ELSE "none"]

-----------------------------------------------------------------------------
(* What a handler reads.                                                    *)

Active == {d \in Updates : dialogs[d].state = "active"}

\* The messages as this handler's own UPDATE ... is_summarized left them.
Seen(u) ==
  {IF m.id \in draft[u].folded THEN [m EXCEPT !.is_summarized = TRUE] ELSE m : m \in messages}

\* The completed messages of a dialog that no summary covers.
Unsummarized(d, msgs) ==
  {m \in msgs : m.dialog = d /\ m.status = "completed" /\ ~m.is_summarized}

Oldest(k, msgs) == {m \in msgs : Cardinality({n \in msgs : n.id < m.id}) < k}
Newest(k, msgs) == {m \in msgs : Cardinality({n \in msgs : n.id > m.id}) < k}

Ids(msgs) == {m.id : m \in msgs}

\* unsummarized[:-history_messages] of the first summary_trigger_messages.
Candidates(u) ==
  LET uns == Oldest(Trigger, Unsummarized(draft[u].dialog, messages)) IN
  IF Cardinality(uns) < Trigger THEN {} ELSE uns \ Newest(History, uns)

\* A summary the handler rewrote itself, or the committed one.
SummarySeen(u) ==
  IF draft[u].folded # {} THEN draft[u].summary ELSE dialogs[draft[u].dialog].summary

\* ContextBuilder.build: the summary and the newest messages after it.
Context(u) ==
  [summary |-> SummarySeen(u),
   recent  |-> Newest(History, Unsummarized(draft[u].dialog, Seen(u)))]

-----------------------------------------------------------------------------
(* Entering: the users row, then the lease.                                 *)

\* Mutant of Touch: the profile update commits by itself and keeps no lock.
TouchUnlocked(u) ==
  /\ pc[u] = "sent"
  /\ pc' = [pc EXCEPT ![u] = "touched"]
  /\ UNCHANGED <<draft, user_lock, lease, rows, balance, next_id, replies>>

\* touch_and_get: UPDATE users waits for the row and keeps it.
Touch(u) ==
  /\ pc[u] = "sent"
  /\ user_lock = NoUpdate
  /\ user_lock' = u
  /\ pc' = [pc EXCEPT ![u] = "touched"]
  /\ UNCHANGED <<draft, lease, rows, balance, next_id, replies>>

\* Blocked by an administrator, empty or too long: refused before the lease.
RefuseAtOnce(u) ==
  /\ pc[u] = "touched"
  /\ pc' = [pc EXCEPT ![u] = "replying"]
  /\ reply' = [reply EXCEPT ![u] = "notice"]
  /\ UNCHANGED <<draft, user_lock, lease, rows, balance, next_id, told>>

\* SET NX: the lease is taken, or ConversationBusyError ends the handler.
Acquire(u) ==
  /\ pc[u] = "touched"
  /\ IF lease = NoUpdate
     THEN lease' = u /\ pc' = [pc EXCEPT ![u] = "leased"] /\ UNCHANGED reply
     ELSE /\ pc' = [pc EXCEPT ![u] = "replying"]
          /\ reply' = [reply EXCEPT ![u] = "notice"]
          /\ UNCHANGED lease
  /\ UNCHANGED <<draft, user_lock, rows, balance, next_id, told>>

Unlocked(u) == IF user_lock = u THEN NoUpdate ELSE user_lock

\* start_new_dialog: create_active and its commit, under the lease.
Rotate(u) ==
  /\ pc[u] = "leased" /\ u \in NewDialogs
  /\ dialogs' = [d \in Updates |->
       IF d = u THEN [state |-> "active", summary |-> {}]
       ELSE IF d \in Active THEN [dialogs[d] EXCEPT !.state = "closed"] ELSE dialogs[d]]
  /\ user_lock' = Unlocked(u)
  /\ reply' = [reply EXCEPT ![u] = "notice"]
  /\ pc' = [pc EXCEPT ![u] = "releasing"]
  /\ UNCHANGED <<draft, lease, messages, answered, charged, balance, next_id, told>>

-----------------------------------------------------------------------------
(* A message: admission, optional summary, question, answer.                *)

\* Mutant of Admit: the day's limit is compared with <=.
AdmitOneMore(u) ==
  /\ pc[u] = "leased" /\ u \in Chats
  /\ balance >= Price
  /\ Cardinality(answered) <= DayLimit
  /\ \E d \in IF Active = {} THEN {u} ELSE Active :
       draft' = [draft EXCEPT ![u] = [@ EXCEPT !.dialog = d, !.opened = (Active = {})]]
  /\ pc' = [pc EXCEPT ![u] = "admitted"]
  /\ UNCHANGED <<user_lock, lease, rows, balance, next_id, replies>>

\* ensure_can_spend and limits.check pass; get_or_create_active.
Admit(u) ==
  /\ pc[u] = "leased" /\ u \in Chats
  /\ balance >= Price
  /\ Cardinality(answered) < DayLimit
  /\ \E d \in IF Active = {} THEN {u} ELSE Active :
       draft' = [draft EXCEPT ![u] = [@ EXCEPT !.dialog = d, !.opened = (Active = {})]]
  /\ pc' = [pc EXCEPT ![u] = "admitted"]
  /\ UNCHANGED <<user_lock, lease, rows, balance, next_id, replies>>

\* Credits, a limit, a missing price: the error leaves the lease's block.
RefuseInLease(u) ==
  /\ pc[u] = "leased" /\ u \in Chats
  /\ reply' = [reply EXCEPT ![u] = "notice"]
  /\ pc' = [pc EXCEPT ![u] = "releasing"]
  /\ UNCHANGED <<draft, user_lock, lease, rows, balance, next_id, told>>

\* maybe_summarize finds enough messages: a prefix of the candidates that
\* fits the character budget goes to the summary model.
StartSummary(u) ==
  /\ pc[u] = "admitted"
  /\ \E k \in 1..Trigger :
       /\ Cardinality(Candidates(u)) >= k
       /\ draft' = [draft EXCEPT ![u] =
            [@ EXCEPT !.folding = Ids(Oldest(k, Candidates(u))),
                      !.summary = dialogs[draft[u].dialog].summary]]
  /\ pc' = [pc EXCEPT ![u] = "summarizing"]
  /\ UNCHANGED <<user_lock, lease, rows, balance, next_id, replies>>

\* Too few messages, or nothing fits, or the summary model has no price.
SkipSummary(u) ==
  /\ pc[u] = "admitted"
  /\ pc' = [pc EXCEPT ![u] = "summarized"]
  /\ UNCHANGED <<draft, user_lock, lease, rows, balance, next_id, replies>>

\* Mutant of EndSummary: the new segment's summary replaces the old one.
EndSummaryForgetful(u) ==
  /\ pc[u] = "summarizing"
  /\ draft' = [draft EXCEPT ![u] =
       [@ EXCEPT !.folded = draft[u].folding, !.summary = draft[u].folding]]
  /\ pc' = [pc EXCEPT ![u] = "summarized"]
  /\ UNCHANGED <<user_lock, lease, rows, balance, next_id, replies>>

\* The summary of what was read before the call: update_summary and
\* mark_summarized, or, when the call failed, neither.
EndSummary(u) ==
  /\ pc[u] = "summarizing"
  /\ \/ draft' = [draft EXCEPT ![u] =
          [@ EXCEPT !.folded = draft[u].folding,
                    !.summary = draft[u].summary \cup draft[u].folding]]
     \/ UNCHANGED draft
  /\ pc' = [pc EXCEPT ![u] = "summarized"]
  /\ UNCHANGED <<user_lock, lease, rows, balance, next_id, replies>>

\* build the context and create_user_pending; then the model is asked.
Ask(u) ==
  /\ pc[u] = "summarized"
  /\ draft' = [draft EXCEPT ![u] = [@ EXCEPT !.context = Context(u), !.question = next_id]]
  /\ next_id' = next_id + 1
  /\ pc' = [pc EXCEPT ![u] = "asking"]
  /\ UNCHANGED <<user_lock, lease, rows, balance, replies>>

Says(u, id, role, status) ==
  [id |-> id, dialog |-> draft[u].dialog, turn |-> u, role |-> role,
   status |-> status, is_summarized |-> FALSE]

Question(u, status) == Says(u, draft[u].question, "user", status)

Exchange(u) == {Question(u, "completed"), Says(u, next_id, "assistant", "completed")}

\* A commit: everything the transaction wrote to the dialog appears at once.
CommitDialog(u, wrote) ==
  /\ messages' = Seen(u) \cup wrote
  /\ dialogs' = [d \in Updates |->
       IF d # draft[u].dialog THEN dialogs[d]
       ELSE [state   |-> IF draft[u].opened THEN "active" ELSE dialogs[d].state,
             summary |-> SummarySeen(u)]]
  /\ user_lock' = Unlocked(u)

\* The reply arrives and is paid for; the turn commits inside the lease.
Answer(u) ==
  /\ pc[u] = "asking"
  /\ balance >= Price
  /\ CommitDialog(u, Exchange(u))
  /\ answered' = answered \cup {u}
  /\ charged' = charged \cup {u}
  /\ balance' = balance - Price
  /\ next_id' = next_id + 1
  /\ draft' = [draft EXCEPT ![u] = Blank]
  /\ reply' = [reply EXCEPT ![u] = "answer"]
  /\ pc' = [pc EXCEPT ![u] = "releasing"]
  /\ UNCHANGED <<lease, told>>

\* The reply arrives but the credits are gone: InsufficientCreditsError, with
\* the completed messages and the usage row left in the transaction.
AnswerUnpaid(u) ==
  /\ pc[u] = "asking"
  /\ balance < Price
  /\ draft' = [draft EXCEPT ![u] = [@ EXCEPT !.wrote = Exchange(u), !.answer = TRUE]]
  /\ next_id' = next_id + 1
  /\ reply' = [reply EXCEPT ![u] = "notice"]
  /\ pc' = [pc EXCEPT ![u] = "releasing"]
  /\ UNCHANGED <<user_lock, lease, rows, balance, told>>

\* Mutant of Fail: the failed turn is charged as well.
FailCharged(u) ==
  /\ pc[u] = "asking"
  /\ CommitDialog(u, {Question(u, "failed")})
  /\ charged' = charged \cup {u}
  /\ draft' = [draft EXCEPT ![u] = Blank]
  /\ reply' = [reply EXCEPT ![u] = "failure"]
  /\ pc' = [pc EXCEPT ![u] = "releasing"]
  /\ UNCHANGED <<lease, answered, balance, next_id, told>>

\* OpenAIClientError: the failed attempt commits inside the lease.
Fail(u) ==
  /\ pc[u] = "asking"
  /\ CommitDialog(u, {Question(u, "failed")})
  /\ draft' = [draft EXCEPT ![u] = Blank]
  /\ reply' = [reply EXCEPT ![u] = "failure"]
  /\ pc' = [pc EXCEPT ![u] = "releasing"]
  /\ UNCHANGED <<lease, answered, charged, balance, next_id, told>>

\* Any other exception - the database, Redis, Telegram, a bug - at any point:
\* what is not committed will be rolled back.  Inside the lease's block the
\* lease is given back first, unless giving it back is what failed.
Break(u) ==
  /\ pc[u] \notin {"sent", "breaking", "done", "dead"}
  /\ draft' = [draft EXCEPT ![u] = Blank]
  /\ reply' = [reply EXCEPT ![u] = "none"]
  /\ pc' = [pc EXCEPT ![u] =
       IF @ \in {"touched", "releasing", "replying", "returning"} THEN "breaking" ELSE "releasing"]
  /\ UNCHANGED <<user_lock, lease, rows, balance, next_id, told>>

-----------------------------------------------------------------------------
(* Leaving: the lease, the reply, then the handler returns and the          *)
(* middleware commits.                                                      *)

\* ConversationLease.__aexit__: delete the key if it still holds the token.
Release(u) ==
  /\ pc[u] = "releasing"
  /\ lease' = IF lease = u THEN NoUpdate ELSE lease
  /\ pc' = [pc EXCEPT ![u] = IF reply[u] = "none" THEN "breaking" ELSE "replying"]
  /\ UNCHANGED <<draft, user_lock, rows, balance, next_id, replies>>

\* message.answer: only now, after the commit, does the user hear anything.
Reply(u) ==
  /\ pc[u] = "replying"
  /\ told' = [told EXCEPT ![u] = reply[u]]
  /\ reply' = [reply EXCEPT ![u] = "none"]
  /\ pc' = [pc EXCEPT ![u] = "returning"]
  /\ UNCHANGED <<draft, user_lock, lease, rows, balance, next_id>>

\* except Exception: the rollback expires the user's object, and reading its id
\* for the log raises again, so that the reply which follows is never sent; nor
\* is there one for an exception outside the try.  DbSessionMiddleware closes.
GiveUp(u) ==
  /\ pc[u] = "breaking"
  /\ user_lock' = Unlocked(u)
  /\ draft' = [draft EXCEPT ![u] = Blank]
  /\ pc' = [pc EXCEPT ![u] = "done"]
  /\ UNCHANGED <<lease, rows, balance, next_id, replies>>

\* Mutant of Return: a transaction that wrote nothing is left open.
ReturnOpen(u) ==
  /\ pc[u] = "returning"
  /\ IF draft[u].answer
     THEN CommitDialog(u, draft[u].wrote) /\ answered' = answered \cup {u}
     ELSE UNCHANGED <<user_lock, dialogs, messages, answered>>
  /\ draft' = [draft EXCEPT ![u] = Blank]
  /\ pc' = [pc EXCEPT ![u] = "done"]
  /\ UNCHANGED <<lease, charged, balance, next_id, replies>>

\* The handler returns: DbSessionMiddleware commits what is left and closes.
Return(u) ==
  /\ pc[u] = "returning"
  /\ IF draft[u].answer
     THEN CommitDialog(u, draft[u].wrote) /\ answered' = answered \cup {u}
     ELSE user_lock' = Unlocked(u) /\ UNCHANGED <<dialogs, messages, answered>>
  /\ draft' = [draft EXCEPT ![u] = Blank]
  /\ pc' = [pc EXCEPT ![u] = "done"]
  /\ UNCHANGED <<lease, charged, balance, next_id, replies>>

-----------------------------------------------------------------------------
(* Everything else that happens.                                            *)

InHandler == {u \in Updates : pc[u] \notin {"sent", "done", "dead"}}

\* The bot process is killed: its transactions are rolled back, its lease
\* stays in Redis until it expires, updates not yet read are delivered later.
Crash ==
  /\ InHandler # {}
  /\ pc' = [u \in Updates |-> IF u \in InHandler THEN "dead" ELSE pc[u]]
  /\ draft' = [u \in Updates |-> Blank]
  /\ reply' = [u \in Updates |-> "none"]
  /\ user_lock' = NoUpdate
  /\ UNCHANGED <<lease, rows, balance, next_id, told>>

\* EX request_timeout + 45: over before a slow turn is, or long after a crash or
\* a lease that could not be given back.
Expire ==
  /\ lease # NoUpdate
  /\ TurnsOutlastLease \/ lease \notin InHandler
  /\ lease' = NoUpdate
  /\ UNCHANGED <<pc, draft, user_lock, rows, balance, next_id, replies>>

\* An administrator removes credits, or a payment brings some.
MoveBalance ==
  /\ \E b \in 0..MaxBalance : b # balance /\ balance' = b
  /\ UNCHANGED <<pc, draft, user_lock, lease, rows, next_id, replies>>

Step(u) ==
  \/ Touch(u) \/ Acquire(u) \/ Rotate(u) \/ Admit(u) \/ RefuseInLease(u)
  \/ StartSummary(u) \/ SkipSummary(u) \/ EndSummary(u) \/ Ask(u)
  \/ Answer(u) \/ AnswerUnpaid(u) \/ Fail(u)
  \/ Release(u) \/ Reply(u) \/ Return(u) \/ GiveUp(u)

Next ==
  \/ \E u \in Updates : Step(u) \/ RefuseAtOnce(u) \/ Break(u)
  \/ Crash \/ Expire \/ MoveBalance

Spec == Init /\ [][Next]_vars

\* A handler that can take a step takes one: every OpenAI call ends within its
\* timeouts, PostgreSQL grants a free lock, and Redis expires keys.
FairSpec == Spec /\ \A u \in Updates \ Turns : WF_vars(Step(u))

-----------------------------------------------------------------------------
(* The types of the variables.                                              *)
TypeOK ==
  /\ pc \in [Updates -> Phases]
  /\ draft \in [Updates -> Draft]
  /\ user_lock \in Updates \cup {NoUpdate} /\ lease \in Updates \cup {NoUpdate}
  /\ dialogs \in [Updates -> Dialog]
  /\ messages \subseteq Message
  /\ answered \subseteq Updates /\ charged \subseteq Updates
  /\ balance \in 0..MaxBalance /\ next_id \in Nat
  /\ reply \in [Updates -> Texts] /\ told \in [Updates -> Texts]

(***************************************************************************)
(* No stale history: while the model is being asked, what the handler read *)
(* before the call is still what a reader would find, in a dialog that is  *)
(* still the user's one active dialog.  This is what the comment at        *)
(* app/ai/service.py:229 wants of the lease; it holds even when a turn     *)
(* outlasts its lease, because the users row is held as well.              *)
(***************************************************************************)
ContextIsCurrent ==
  \A u \in Updates : pc[u] = "asking" =>
    /\ draft[u].context = Context(u)
    /\ Active = IF draft[u].opened THEN {} ELSE {draft[u].dialog}

(***************************************************************************)
(* A turn is stored whole: in the order of their ids, each completed       *)
(* question of a dialog is followed by its own answer, with nothing of     *)
(* another turn in between.                                                *)
(***************************************************************************)
TurnsStayWhole ==
  \A q \in messages : q.role = "user" /\ q.status = "completed" =>
    LET later == {m \in messages :
                    m.dialog = q.dialog /\ m.status = "completed" /\ m.id > q.id}
    IN \E a \in later : /\ a.turn = q.turn /\ a.role = "assistant"
                        /\ \A m \in later : m.id >= a.id

(***************************************************************************)
(* The summary of a dialog covers exactly the messages marked summarized:  *)
(* none of them is forgotten, and none is both summarized and repeated.    *)
(***************************************************************************)
SummaryCoversMarked ==
  \A d \in Updates :
    dialogs[d].summary = Ids({m \in messages : m.dialog = d /\ m.is_summarized})

(***************************************************************************)
(* The day's limit holds for completed turns, however they overlap, and a  *)
(* user has at most one active dialog without the help of the unique index *)
(* uq_dialogs_one_active_per_user.                                         *)
(***************************************************************************)
LimitsKept == Cardinality(answered) <= DayLimit /\ Cardinality(Active) <= 1

(***************************************************************************)
(* Charges and replies agree.  Credits are taken only for an answer that   *)
(* is stored; a user who was sent the answer has paid for it, and one who  *)
(* was told that credits were not taken, by app/bot/handlers/chat.py, has  *)
(* not paid, then or later.  The converse is not promised: a turn may be   *)
(* committed and charged and its handler die before it replies.            *)
(***************************************************************************)
ChargedIsAnswered ==
  /\ charged \subseteq answered
  /\ \A u \in answered : \E m \in messages : m.turn = u /\ m.role = "assistant"
  /\ \A u \in Updates : /\ told[u] = "answer" => u \in charged
                        /\ told[u] = "failure" => u \notin charged

(***************************************************************************)
(* The handler of every update ends and gives the users row back, whatever *)
(* goes wrong, unless the process dies.  It does not follow that the user  *)
(* hears anything: after an unexpected exception she does not.             *)
(***************************************************************************)
EveryUpdateEnds ==
  \A u \in Updates \ Turns : pc[u] = "sent" ~> pc[u] \in {"done", "dead"} /\ user_lock # u
=============================================================================
