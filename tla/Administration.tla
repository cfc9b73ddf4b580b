--------------------------- MODULE Administration ---------------------------
(***************************************************************************)
(* The administrators at work: one in Telegram (bot/admin_panel/router.py),*)
(* whose updates the bot handles concurrently and whose wizard it keeps in *)
(* its memory (MemoryStorage), and some in the web panel (admin/router.py).*)
(* A button of the bot shows something, changes something, or asks for a   *)
(* text; the next message is taken as the answer.  Every change is one     *)
(* transaction.  The bot's tasks give way to each other at a query, a      *)
(* commit or a call to Telegram, never between two accesses to its memory; *)
(* its memory is lost when it dies.  Buttons that only show are left out.  *)
(***************************************************************************)
EXTENDS AdminPanel, WebAdmin

CONSTANTS Tasks,         \* updates and requests handled at the same time
          Given,         \* the rows at first
          GivenSettings, \* and the settings
          Subscribed,    \* the plan the user has subscribed to
          Typed,         \* what is typed for a setting
          Forms,         \* the forms of settings that are saved in the web panel
          WizardFields,  \* what the wizard of a promo asks for, in this order
          Openings,      \* sets of buttons and forms that are in use at the same time
          MaxUpdates, MaxCrashes  \* bounds

ASSUME AdministrationAssumption ==
  /\ Given \in [Rows -> Row \cup {NoRow}] /\ Subscribed \in Of("plan")
  /\ \A x, y \in Rows :
       x # y /\ x[1] = y[1] /\ Given[x] # NoRow /\ Given[y] # NoRow /\ Given[x].code # None
         => Given[x].code # Given[y].code
  /\ WizardFields \in Seq(STRING) \ {<<>>} /\ \E i \in DOMAIN WizardFields : WizardFields[i] = "code"
  /\ MaxUpdates \in Nat /\ MaxCrashes \in Nat

VARIABLES db, book,     \* the tables, and what the audit log tells of them
          fsm,          \* the state and the data the bot keeps for the administrator
          task,
          mail,         \* admin_direct_messages: number of the update -> status
          delivered,    \* messages Telegram has accepted
          begun, crashes,
          open

vars == <<db, book, fsm, task, mail, delivered, begun, crashes, open>>

NoWizard == [state |-> "none", data |-> <<>>]

Idle == [pc |-> "idle", by |-> "bot", call |-> None, id |-> 0, snap |-> None, clears |-> FALSE,
         answer |-> None]

-----------------------------------------------------------------------------
(* The buttons of the bot by section: calls of the service, and questions.  *)
(* A call is a method, a row and the rest of its arguments.                 *)

Calls(methods, rows, more) == methods \X rows \X more
Plain == {None}

UserButtons ==
  [acts |-> Calls({"set_user_blocked", "reset_user_trial"}, Of("user"), Plain)
            \cup Calls({"grant_plan"}, Of("user"), Of("plan")),
   asks |-> {"user_addcredits", "user_removecredits", "user_message"} \X Of("user")
            \cup {<<"user_search", None>>}]

CreditButtons ==
  [acts |-> Calls({"credit_package_toggle"}, Of("package"), {"on", "mark"}),
   asks |-> {"credit_package_edit"} \X Of("package") \cup {<<"credit_package_add", None>>}]

PlanButtons ==
  [acts |-> Calls({"toggle_plan", "toggle_plan_recommended", "plan_delete"}, Of("plan"), Plain),
   asks |-> {"plan_edit"} \X Of("plan") \cup {<<"plan_add", None>>}]

AIButtons ==
  [acts |-> Calls({"ai_mode_toggle"}, Of("mode"), Plain),
   asks |-> {"mode_edit"} \X Of("mode") \cup {"pricing_edit"} \X Of("price")
            \cup {<<"pricing_add", None>>}]

ProviderButtons ==
  [acts |-> Calls({"provider_toggle"}, Of("provider"), {"on", "mark"}),
   asks |-> {"provider_edit"} \X Of("provider")]

PromoButtons ==
  [acts |-> Calls({"promo_toggle"}, Of("promo"), Plain)
            \cup Calls({"promo_set_scope"}, Of("promo"), {"all", Bad})
            \cup Calls({"promo_set_plan"}, Of("promo"), Of("plan")),
   asks |-> {"promo_validity", "promo_edit"} \X Of("promo")
            \cup {<<"promo_create", None>>, <<"promo_add", None>>}]

ReferralButtons ==
  [acts |-> {<<"toggle_setting", <<"setting", "referral.enabled">>, TRUE>>}, asks |-> {}]

BroadcastButtons ==
  [acts |-> Calls({"broadcast_start", "broadcast_stop"}, Of("broadcast"), Plain),
   asks |-> {"broadcast_schedule", "broadcast_buttons"} \X Of("broadcast")
            \cup {<<"broadcast_content", None>>}]

SettingButtons ==
  [acts |-> {<<"toggle_setting", <<"setting", "service.maintenance_mode">>, FALSE>>}, asks |-> {}]

LegalButtons ==
  [acts |-> {<<"legal_toggle", <<"setting", "legal.enabled">>, None>>},
   asks |-> {<<"setting_edit", <<"setting", "legal.url">> >>}]

\* Every key that is asked for by name; the buttons of the AI section are some.
EditButtons ==
  [acts |-> {}, asks |-> {"setting_edit"} \X ({"setting"} \X (DOMAIN Typed \ {"legal.url"}))]

ErrorButtons ==
  [acts |-> Calls({"resolve_error"}, Of("error"), Plain), asks |-> {}]

Sections ==
  {UserButtons, CreditButtons, PlanButtons, AIButtons, ProviderButtons, PromoButtons, ReferralButtons,
   BroadcastButtons, SettingButtons, LegalButtons, EditButtons, ErrorButtons}

Acts == UNION {section.acts : section \in Sections}
Asks == UNION {section.asks : section \in Sections}

-----------------------------------------------------------------------------
(* The forms of the web panel.                                              *)

Inputs == Texts \cup {Bad}
Plans == Of("plan") \cup {None}

\* Forms that are taken, with their switches, and one that is not.
Filled == Texts \X BOOLEAN \cup {<<Bad, TRUE>>}
Changed == {CHOOSE text \in Texts : TRUE} \X BOOLEAN \X BOOLEAN \cup {<<Bad, TRUE, TRUE>>}

\* user_action
UserForms ==
  Calls({"reset_trial", "cancel_subscription"}, Of("user"), Plain)
  \cup Calls({"set_blocked", "allow_new_trial"}, Of("user"), BOOLEAN)
  \cup Calls({"grant_subscription", "change_plan"}, Of("user"), Of("plan"))
  \cup Calls({"send_message", "extend_days", "add_requests"}, Of("user"), Inputs)

PlanForms ==
  Calls({"create_plan"}, {None}, Filled)
  \cup Calls({"update_plan"}, Of("plan"), Changed)
  \cup Calls({"delete_plan"}, Of("plan"), Plain)

PricingForms ==
  Calls({"create_ai_pricing"}, {None}, Filled)
  \cup Calls({"update_ai_pricing"}, Of("price"), Filled)

ProviderForms ==
  Calls({"update_provider"}, Of("provider"), Changed)

PromoForms ==
  Calls({"create_promo"}, {None}, Texts \X BOOLEAN \X Plans \cup {<<Bad, TRUE, None>>})
  \cup Calls({"update_promo"}, Of("promo"), Texts \X BOOLEAN \X Plans \cup {<<Bad, TRUE, None>>})

\* _settings_save
SettingForms == Calls({"update_settings_group"}, {None}, Forms)

WebForms ==
  UserForms \cup PlanForms \cup PricingForms \cup ProviderForms \cup PromoForms \cup SettingForms
  \cup Calls({"resolve_error_event"}, Of("error"), Plain)
  \cup Calls({"create_admin"}, {None}, Inputs)

-----------------------------------------------------------------------------
(* What a call comes to.                                                    *)

Creating == [credit_package_create |-> "package", pricing_add |-> "price", plan_create |-> "plan",
             promo_create_credits |-> "promo", promo_create |-> "promo", broadcast_create |-> "broadcast",
             create_plan |-> "plan", create_ai_pricing |-> "price", create_promo |-> "promo",
             create_admin |-> "admin"]

\* A direct message is not over with its first commit.
Attempt(t, x, text) == IF text = Bad \/ ~Exists(t, x) THEN Refused ELSE [end |-> "pending"]

PanelOutcome(c, s, t) ==
  LET x == c[2]
      v == c[3] IN
  CASE c[1] = "add_user_credits" -> add_user_credits(t, x, v)
    [] c[1] = "remove_user_credits" -> remove_user_credits(t, x, v)
    [] c[1] = "set_user_blocked" -> set_user_blocked(t, x)
    [] c[1] = "reset_user_trial" -> reset_user_trial(t, x)
    [] c[1] = "grant_plan" -> grant_plan(t, x, v)
    [] c[1] = "send_direct_message" -> Attempt(s, x, v)
    [] c[1] = "credit_package_create" -> credit_package_create(s, t, x, v)
    [] c[1] = "credit_package_toggle" -> credit_package_toggle(s, t, x, v)
    [] c[1] = "credit_package_edit" -> credit_package_edit(t, x, v)
    [] c[1] = "ai_mode_toggle" -> ai_mode_toggle(t, x)
    [] c[1] = "ai_mode_edit" -> ai_mode_edit(s, t, x, v)
    [] c[1] = "pricing_add" -> pricing_add(s, t, x, v)
    [] c[1] = "pricing_update" -> pricing_update(t, x, v)
    [] c[1] = "plan_create" -> plan_create(s, t, x, v)
    [] c[1] = "plan_delete" -> plan_delete(s, t, x)
    [] c[1] = "toggle_plan" -> toggle_plan(t, x)
    [] c[1] = "toggle_plan_recommended" -> toggle_plan_recommended(t, x)
    [] c[1] = "edit_plan_field" -> edit_plan_field(s, t, x, v)
    [] c[1] = "provider_toggle" -> provider_toggle(t, x, v)
    [] c[1] = "provider_edit" -> provider_edit(t, x, v)
    [] c[1] = "promo_create_credits" -> promo_create_credits(s, t, x, v)
    [] c[1] = "promo_create" -> promo_create(s, t, x, v[1], v[2])
    [] c[1] = "promo_edit_field" -> promo_edit_field(s, t, x, v)
    [] c[1] = "promo_set_validity_days" -> promo_set_validity_days(t, x, v)
    [] c[1] = "promo_set_scope" -> promo_set_scope(t, x, v)
    [] c[1] = "promo_set_plan" -> promo_set_plan(s, t, x, v)
    [] c[1] = "promo_toggle" -> promo_toggle(t, x)
    [] c[1] = "broadcast_create" -> broadcast_create(t, x, v)
    [] c[1] = "broadcast_set_buttons" -> broadcast_set_buttons(t, x, v)
    [] c[1] = "broadcast_schedule" -> broadcast_schedule(t, x, v)
    [] c[1] = "broadcast_start" -> broadcast_start(t, x)
    [] c[1] = "broadcast_stop" -> broadcast_stop(t, x)
    [] c[1] = "resolve_error" -> resolve_error(t, x)
    [] c[1] = "set_setting" -> set_setting(s, t, x[2], v)
    [] c[1] = "toggle_setting" -> toggle_setting(s, t, x[2], v)
    [] c[1] = "legal_toggle" -> legal_toggle(s, t)

WebOutcome(c, s, t) ==
  LET x == c[2]
      v == c[3] IN
  CASE c[1] = "update_settings_group" -> update_settings_group(s, t, v)
    [] c[1] = "create_plan" -> create_plan(s, t, x, v[1], v[2])
    [] c[1] = "update_plan" -> update_plan(t, x, v[1], v[2], v[3])
    [] c[1] = "delete_plan" -> delete_plan(t, x)
    [] c[1] = "create_ai_pricing" -> create_ai_pricing(s, t, x, v[1], v[2])
    [] c[1] = "update_ai_pricing" -> update_ai_pricing(t, x, v[1], v[2])
    [] c[1] = "update_provider" -> update_provider(t, x, v[1], v[2], v[3])
    [] c[1] = "create_promo" -> create_promo(s, t, x, v[1], v[2], v[3])
    [] c[1] = "update_promo" -> update_promo(s, t, x, v[1], v[2], v[3])
    [] c[1] = "resolve_error_event" -> resolve_error_event(t, x)
    [] c[1] = "create_admin" -> create_admin(s, t, x, v)
    [] c[1] = "grant_subscription" -> grant_subscription(s, t, x, v)
    [] c[1] = "change_plan" -> change_plan(s, t, x, v)
    [] c[1] = "extend_days" -> extend_days(t, x, v)
    [] c[1] = "add_requests" -> add_requests(t, x, v)
    [] c[1] = "cancel_subscription" -> cancel_subscription(t, x)
    [] c[1] = "set_blocked" -> set_blocked(t, x, v)
    [] c[1] = "reset_trial" -> reset_trial(t, x)
    [] c[1] = "allow_new_trial" -> allow_new_trial(t, x, v)
    [] c[1] = "send_message" -> Attempt(s, x, v)

Outcome(k) ==
  IF task[k].by = "web" THEN WebOutcome(task[k].call, task[k].snap, db)
  ELSE PanelOutcome(task[k].call, task[k].snap, db)

-----------------------------------------------------------------------------
(* Updates of the bot.                                                      *)

Offered(calls) == {c \in calls : c[1] \in open}

Start(k, how) ==
  /\ task[k].pc = "idle" /\ begun < MaxUpdates
  /\ begun' = begun + 1
  /\ task' = [task EXCEPT ![k] = how @@ [Idle EXCEPT !.id = begun]]

Waiting(data) == [state |-> "waiting", data |-> data]

\* What a button that asks leaves for the message to come.
Question(ask) ==
  CASE ask[1] = "broadcast_content" -> [NoWizard EXCEPT !.state = "content"]
    [] ask[1] = "promo_create" -> Waiting([action |-> WizardFields[1]])
    [] OTHER -> Waiting([action |-> ask[1], row |-> ask[2]])

Ask(k) ==
  /\ Start(k, Idle)
  /\ \E ask \in Offered(Asks) : fsm' = Question(ask)
  /\ UNCHANGED <<db, book, mail, delivered, crashes, open>>

Act(k) ==
  /\ \E c \in Offered(Acts) : Start(k, [pc |-> "begun", call |-> c, snap |-> db])
  /\ UNCHANGED <<db, book, fsm, mail, delivered, crashes, open>>

\* adm:main, and adm:promos.
Home(k) ==
  /\ Start(k, Idle)
  /\ fsm' = NoWizard
  /\ UNCHANGED <<db, book, mail, delivered, crashes, open>>

\* The row a creation gets: no sequence gives a number twice.
NextRow(table) ==
  {x \in Of(table) : /\ db.rows[x] = NoRow
                     /\ \A j \in Tasks : task[j].call # None => task[j].call[2] # x
                     /\ \A y \in Of(table) : y[2] < x[2] => db.rows[y] # NoRow
                                                \/ \E j \in Tasks : task[j].call # None /\ task[j].call[2] = y}

\* Every answer of the wizard is there.
Complete(data) == {WizardFields[i] : i \in DOMAIN WizardFields} \subseteq DOMAIN data

\* adm:promo:create:confirm, a button that stays in the chat.
Confirm(k) ==
  /\ "promo_create" \in open
  /\ IF Complete(fsm.data)
     THEN \E x \in NextRow("promo") :
            Start(k, [pc |-> "begun", snap |-> db, clears |-> TRUE,
                      call |-> <<"promo_create_credits", x, fsm.data["code"]>>])
     ELSE Start(k, Idle)
  /\ UNCHANGED <<db, book, fsm, mail, delivered, crashes, open>>

\* adm:broadcast:aud
Audience(k) ==
  /\ "broadcast_content" \in open
  /\ IF "broadcast_text" \in DOMAIN fsm.data
     THEN \E x \in NextRow("broadcast") :
            Start(k, [pc |-> "begun", snap |-> db, clears |-> TRUE,
                      call |-> <<"broadcast_create", x, fsm.data["broadcast_text"]>>])
     ELSE Start(k, Idle)
  /\ UNCHANGED <<db, book, fsm, mail, delivered, crashes, open>>

\* A message goes to the handler the state selects.
Receive(k) ==
  /\ fsm.state \in {"waiting", "content"}
  /\ Start(k, [pc |-> "reading", answer |-> fsm.state])
  /\ UNCHANGED <<db, book, fsm, mail, delivered, crashes, open>>

\* The handlers of the answers, by the action in the data.
AnsweredBy ==
  [user_addcredits |-> "add_user_credits", user_removecredits |-> "remove_user_credits",
   user_message |-> "send_direct_message", credit_package_add |-> "credit_package_create",
   credit_package_edit |-> "credit_package_edit", mode_edit |-> "ai_mode_edit",
   plan_add |-> "plan_create", plan_edit |-> "edit_plan_field", setting_edit |-> "set_setting",
   pricing_add |-> "pricing_add", pricing_edit |-> "pricing_update", provider_edit |-> "provider_edit",
   promo_validity |-> "promo_set_validity_days", promo_edit |-> "promo_edit_field",
   promo_add |-> "promo_create", broadcast_schedule |-> "broadcast_schedule",
   broadcast_buttons |-> "broadcast_set_buttons"]

ASSUME FieldsAssumption ==
  {WizardFields[i] : i \in DOMAIN WizardFields}
    \cap (DOMAIN AnsweredBy \cup {"none", "confirm", "user_search", "action", "row", "broadcast_text"}) = {}

\* What may be typed.
Answers(data) ==
  CASE data.action = "setting_edit" -> Typed[data.row[2]] \cup {Bad}
    [] data.action = "promo_add" -> Inputs \X Plans
    [] OTHER -> Inputs

Reading(k, state) == task[k].pc = "reading" /\ task[k].answer = state

Action(k) == IF "action" \in DOMAIN fsm.data THEN fsm.data.action ELSE "none"

\* admin_input_message, when the data name an action of the service.
ReadAnswer(k) ==
  /\ Reading(k, "waiting") /\ Action(k) \in DOMAIN AnsweredBy
  /\ LET method == AnsweredBy[Action(k)] IN
     \E v \in Answers(fsm.data) :
     \E x \in IF method \in DOMAIN Creating THEN NextRow(Creating[method]) ELSE {fsm.data.row} :
       task' = [task EXCEPT ![k].pc = "begun", ![k].snap = db, ![k].clears = TRUE,
                            ![k].call = <<method, x, v>>]
  /\ UNCHANGED <<db, book, fsm, mail, delivered, begun, crashes, open>>

Last(i) == i = Len(WizardFields)

\* What is wrong with an answer of the wizard: a code that is there already, and
\* whatever a validation refuses.
Welcome(field, v) ==
  v # Bad /\ (field = "code" => ~\E p \in Of("promo") : Exists(db, p) /\ db.rows[p].code = v)

\* Only the code is told apart.
FieldInputs(field) == IF field = "code" THEN Inputs ELSE {None, Bad}

\* A step of the wizard is over: the answer is put with the data there are by
\* then, and after the last one a field that is not there is a KeyError, which
\* ends the wizard once the transaction is rolled back.
Advance(k, i, v) ==
  LET next == IF Last(i) THEN "confirm" ELSE WizardFields[i + 1]
      data == (WizardFields[i] :> v) @@ ("action" :> next) @@ fsm.data IN
  /\ fsm' = [fsm EXCEPT !.data = data]
  /\ task' = [task EXCEPT ![k] = IF Last(i) /\ ~Complete(data)
                                 THEN [Idle EXCEPT !.pc = "clearing"] ELSE Idle]

\* admin_input_message, a step of the wizard: only the code is looked up first.
ReadWizard(k) ==
  /\ Reading(k, "waiting")
  /\ \E i \in DOMAIN WizardFields : \E v \in FieldInputs(WizardFields[i]) :
       /\ Action(k) = WizardFields[i]
       /\ IF ~Welcome(WizardFields[i], v)
          THEN task' = [task EXCEPT ![k] = Idle] /\ fsm' = fsm
          ELSE IF WizardFields[i] = "code"
          THEN task' = [task EXCEPT ![k].pc = "updating", ![k].answer = <<i, v>>] /\ fsm' = fsm
          ELSE Advance(k, i, v)
  /\ UNCHANGED <<db, book, mail, delivered, begun, crashes, open>>

\* The code was not found, and is put with whatever the data have become.
Update(k) ==
  /\ task[k].pc = "updating"
  /\ Advance(k, task[k].answer[1], task[k].answer[2])
  /\ UNCHANGED <<db, book, mail, delivered, begun, crashes, open>>

\* The rest of admin_input_message: an action there is no handler for, the
\* search, which ends the wizard, and the wizard waiting for its button.
ReadOther(k) ==
  /\ Reading(k, "waiting") /\ Action(k) \in {"none", "confirm", "user_search"}
  /\ task' = [task EXCEPT ![k] = IF Action(k) = "user_search"
                                 THEN [Idle EXCEPT !.pc = "clearing"] ELSE Idle]
  /\ UNCHANGED <<db, book, fsm, mail, delivered, begun, crashes, open>>

\* broadcast_content_message; a text that is empty or too long changes nothing.
ReadContent(k) ==
  /\ Reading(k, "content")
  /\ task' = [task EXCEPT ![k] = Idle]
  /\ fsm' \in {fsm, [state |-> "audience", data |-> ("broadcast_text" :> None) @@ fsm.data]}
  /\ UNCHANGED <<db, book, mail, delivered, begun, crashes, open>>

\* state.clear(), after a commit, a rollback or a query, in which the
\* administrator may have begun something else.
Clear(k) ==
  /\ task[k].pc = "clearing"
  /\ fsm' = NoWizard
  /\ task' = [task EXCEPT ![k] = Idle]
  /\ UNCHANGED <<db, book, mail, delivered, begun, crashes, open>>

-----------------------------------------------------------------------------
(* Requests of the web panel.                                               *)

Submit(k) ==
  /\ \E c \in Offered(WebForms) :
     \E x \in IF c[1] \in DOMAIN Creating THEN NextRow(Creating[c[1]]) ELSE {c[2]} :
       Start(k, [pc |-> "begun", by |-> "web", snap |-> db, call |-> <<c[1], x, c[3]>>])
  /\ UNCHANGED <<db, book, fsm, mail, delivered, crashes, open>>

-----------------------------------------------------------------------------
(* Transactions and their ends.                                             *)

\* What is left to do after the transaction.
After(k, clear) ==
  task' = [task EXCEPT ![k] = IF clear THEN [Idle EXCEPT !.pc = "clearing"] ELSE Idle]

\* Mutant of Commit: the entry of the audit log is lost with the connection.
CommitUnaudited(k) ==
  LET o == Outcome(k) IN
  /\ task[k].pc = "begun" /\ o.end = "done"
  /\ db' = o.tables
  /\ After(k, task[k].clears)
  /\ UNCHANGED <<book, fsm, mail, delivered, begun, crashes, open>>

\* The change and its entry, then the wizard is cleared.
Commit(k) ==
  LET o == Outcome(k) IN
  /\ task[k].pc = "begun" /\ o.end = "done"
  /\ db' = o.tables /\ book' = Replay(book, o.entry)
  /\ After(k, task[k].clears)
  /\ UNCHANGED <<fsm, mail, delivered, begun, crashes, open>>

\* Rolled back; the wizard stays, and the administrator may answer again.
Refuse(k) ==
  /\ task[k].pc = "begun" /\ Outcome(k).end = "refused"
  /\ After(k, FALSE)
  /\ UNCHANGED <<db, book, fsm, mail, delivered, begun, crashes, open>>

\* Rolled back; the bot gives the wizard up.
Break(k) ==
  /\ task[k].pc = "begun" /\ Outcome(k).end = "broken"
  /\ After(k, task[k].by = "bot")
  /\ UNCHANGED <<db, book, fsm, mail, delivered, begun, crashes, open>>

\* Mutant of Reserve: the row of the message is not committed before the call.
ReserveLater(k) ==
  /\ task[k].pc = "begun" /\ Outcome(k).end = "pending"
  /\ task' = [task EXCEPT ![k].pc = "calling", ![k].snap = None]
  /\ UNCHANGED <<db, book, fsm, mail, delivered, begun, crashes, open>>

\* send_direct_message and send_message: the attempt is made durable first.
Reserve(k) ==
  /\ task[k].pc = "begun" /\ Outcome(k).end = "pending"
  /\ mail' = (task[k].id :> "pending") @@ mail
  /\ task' = [task EXCEPT ![k].pc = "calling", ![k].snap = None]
  /\ UNCHANGED <<db, book, fsm, delivered, begun, crashes, open>>

\* Telegram takes the message or not, and what it says may be lost.
CallTelegram(k) ==
  /\ task[k].pc = "calling"
  /\ \E taken \in BOOLEAN : \E said \in {"sent", "blocked", "raised"} :
       /\ said = "sent" => taken
       /\ said = "blocked" => ~taken
       /\ delivered' = IF taken THEN delivered \cup {task[k].id} ELSE delivered
       /\ task' = [task EXCEPT ![k].pc = "answered", ![k].answer = said]
  /\ UNCHANGED <<db, book, fsm, mail, begun, crashes, open>>

\* Only the web panel takes note of a user who has blocked the bot.
Record(k) ==
  LET x == task[k].call[2]
      said == task[k].answer
      user == CASE said = "sent" -> "reachable"
                [] said = "blocked" /\ task[k].by = "web" -> "unreachable"
                [] OTHER -> db.rows[x].value IN
  /\ task[k].pc = "answered"
  /\ mail' = (task[k].id :> IF said = "sent" THEN "sent" ELSE "failed") @@ mail
  /\ db' = Put(db, x, "value" :> user)
  /\ book' = Replay(book, Says(x, "value" :> Unknown))
  /\ After(k, task[k].clears)
  /\ UNCHANGED <<fsm, delivered, begun, crashes, open>>

-----------------------------------------------------------------------------
(* The rest of the world.                                                   *)

\* The bot dies, and its memory with it, or the process of the web panel.
Crash(by) ==
  /\ crashes < MaxCrashes
  /\ crashes' = crashes + 1
  /\ \/ by = "bot" /\ fsm # NoWizard
     \/ \E k \in Tasks : task[k].by = by /\ task[k].pc # "idle"
  /\ task' = [k \in Tasks |-> IF task[k].by = by THEN Idle ELSE task[k]]
  /\ fsm' = IF by = "bot" THEN NoWizard ELSE fsm
  /\ UNCHANGED <<db, book, mail, delivered, begun, open>>

\* A customer orders a plan that is on sale.
Purchase(x) ==
  /\ "purchase" \in open
  /\ Exists(db, x) /\ db.rows[x].on /\ x \notin db.paid
  /\ db' = [db EXCEPT !.paid = @ \cup {x}]
  /\ UNCHANGED <<book, fsm, task, mail, delivered, begun, crashes, open>>

\* The worker takes a broadcast that is due.
Launch(x) ==
  /\ "launch" \in open
  /\ Exists(db, x) /\ db.rows[x].value = "scheduled"
  /\ db' = Put(db, x, "value" :> "running")
  /\ UNCHANGED <<book, fsm, task, mail, delivered, begun, crashes, open>>

-----------------------------------------------------------------------------

\* What the administrator may have been asked before: nothing, a question of
\* those in use, or a wizard with some answers.
Asked == {Question(ask) : ask \in Offered(Asks)}

Unfinished ==
  {Waiting(("action" :> IF n = Len(WizardFields) THEN "confirm" ELSE WizardFields[n + 1])
           @@ [f \in {WizardFields[i] : i \in 1..n} |-> IF f = "code" THEN code ELSE None]) :
   code \in Texts, n \in 1..Len(WizardFields)}

Kept == {NoWizard} \cup Asked \cup IF "promo_create" \in open THEN Unfinished ELSE {}

\* What is known of a row at first.
Told(row) ==
  IF row # NoRow /\ row.value \in Progress THEN [row EXCEPT !.value = Unknown] ELSE row

Init ==
  /\ db = [rows |-> Given, settings |-> GivenSettings, credits |-> 1,
           sub |-> Subscribed, active |-> TRUE, paid |-> {}]
  /\ book = [db EXCEPT !.rows = [x \in Rows |-> Told(Given[x])]]
  /\ open \in Openings
  /\ fsm \in Kept
  /\ task = [k \in Tasks |-> Idle]
  /\ mail = <<>> /\ delivered = {} /\ begun = 0 /\ crashes = 0

Bot(k) ==
  \/ Ask(k) \/ Act(k) \/ Home(k) \/ Confirm(k) \/ Audience(k) \/ Receive(k)
  \/ ReadAnswer(k) \/ ReadWizard(k) \/ Update(k) \/ ReadOther(k) \/ ReadContent(k) \/ Clear(k)

Transaction(k) ==
  Commit(k) \/ Refuse(k) \/ Break(k) \/ Reserve(k) \/ CallTelegram(k) \/ Record(k)

Next ==
  \/ \E k \in Tasks : Bot(k) \/ Submit(k) \/ Transaction(k)
  \/ \E by \in {"bot", "web"} : Crash(by)
  \/ \E x \in Of("plan") : Purchase(x)
  \/ \E x \in Of("broadcast") : Launch(x)

Spec == Init /\ [][Next]_vars

-----------------------------------------------------------------------------

Statuses == {"idle", "reading", "updating", "begun", "calling", "answered", "clearing"}

\* Rows, settings and the wizard have the shapes their columns allow; credits
\* never fall below zero, whoever takes some at the same time.
TypeOK ==
  /\ db.rows \in [Rows -> Row \cup {NoRow, Gone}]
  /\ db.credits \in Nat /\ db.sub \in Of("plan") /\ db.paid \subseteq Of("plan")
  /\ fsm.state \in {"none", "waiting", "content", "audience"}
  /\ \A k \in Tasks : task[k].pc \in Statuses
  /\ \A m \in DOMAIN mail : mail[m] \in {"pending", "sent", "failed"}
  /\ begun \in 0..MaxUpdates /\ crashes \in 0..MaxCrashes

\* What the audit log tells of the catalog, the settings and the credits given
\* by hand is what the tables hold: no change goes without its entry and no
\* entry without its change, whoever works on the row at the same time and
\* whatever is rolled back.
AuditAgrees ==
  /\ \A x \in Rows : Agrees(book.rows[x], db.rows[x])
  /\ book.settings = db.settings
  /\ book.credits = db.credits

\* No plan is deleted while a subscription, a payment or a promo is for it: a
\* promo that loses its plan would be a promo for every plan.
PlansInUseStay ==
  [][\A x \in Of("plan") : Exists(db, x) /\ ~Exists(db', x) => ~InUse(db, x)]_vars

\* Within each table no two rows have the same code, however many create or
\* rename at the same time.
CodesDiffer ==
  \A x, y \in Rows :
    x # y /\ x[1] = y[1] /\ Exists(db, x) /\ Exists(db, y) /\ db.rows[x].code # None
      => db.rows[x].code # db.rows[y].code

\* A direct message Telegram has accepted has its row in admin_direct_messages,
\* also when the process dies during the call, and a row that says sent is of a
\* message that was accepted.
MessagesAreRecorded ==
  /\ delivered \subseteq DOMAIN mail
  /\ \A m \in DOMAIN mail : mail[m] = "sent" => m \in delivered
=============================================================================
