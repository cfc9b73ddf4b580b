----------------------------- MODULE AdminPanel -----------------------------
(***************************************************************************)
(* What the Telegram panel does to the tables: the methods of              *)
(* TelegramAdminService (bot/admin_panel/service.py), one operator each.   *)
(* Most take the row under a lock, change it and write the audit entry in  *)
(* the same transaction.                                                   *)
(***************************************************************************)
EXTENDS AdminTables

CONSTANT FallbackUrl   \* settings.terms_url, "" when there is none

\* One credit stands for any amount; Bad is none, or more than ten million.
add_user_credits(t, x, text) ==
  IF text = Bad \/ ~Exists(t, x) THEN Refused
  ELSE Done([t EXCEPT !.credits = @ + 1], Grants(1))

\* Mutant of remove_user_credits: the balance is not looked at.
remove_unchecked(t, x, text) ==
  IF text = Bad \/ ~Exists(t, x) THEN Refused
  ELSE Done([t EXCEPT !.credits = @ - 1], Takes(1))

remove_user_credits(t, x, text) ==
  IF text = Bad \/ ~Exists(t, x) \/ t.credits < 1 THEN Refused
  ELSE Done([t EXCEPT !.credits = @ - 1], Takes(1))

set_user_blocked(t, x) ==
  Locked(t, x, Done(Flip(t, x, "on"), Says(x, "on" :> ~t.rows[x].on)))

reset_user_trial(t, x) ==
  Locked(t, x, Done(Put(t, x, "mark" :> FALSE), Says(x, "mark" :> FALSE)))

\* The subscription is activated, and then the result is asked for .extended,
\* an attribute it does not have.
grant_plan(t, x, plan) == IF Exists(t, x) /\ Exists(t, plan) THEN Broken ELSE Refused

-----------------------------------------------------------------------------

credit_package_create(s, t, x, text) ==
  Insert(s, t, x, New(text, None, None), [on |-> TRUE, mark |-> FALSE], Broken)

\* Mutant of credit_package_toggle: the row is read without a lock, so that a
\* flip made meanwhile is lost.
toggle_unlocked(s, t, x, field) ==
  Locked(t, x, Done(Put(t, x, field :> ~s.rows[x][field]), Flips(x, field)))

\* The entry does not say which way.
credit_package_toggle(s, t, x, field) == Locked(t, x, Done(Flip(t, x, field), Flips(x, field)))

credit_package_edit(t, x, text) ==
  Locked(t, x, IF text = Bad THEN Refused
               ELSE Done(Put(t, x, "value" :> text), Says(x, "value" :> text)))

\* The first mode is the fast one, on which the others fall back.
ai_mode_toggle(t, x) ==
  Locked(t, x, IF x[2] = 1 /\ t.rows[x].on THEN Refused
               ELSE Done(Flip(t, x, "on"), Flips(x, "on")))

ai_mode_edit(s, t, x, text) ==
  Locked(t, x, IF ~Priced(s, text) THEN Refused
               ELSE Done(Put(t, x, "value" :> text), Says(x, "value" :> text)))

\* The entry names the model only in its id.
pricing_add(s, t, x, text) ==
  Insert(s, t, x, New(text, None, None), [on |-> TRUE, code |-> text], Broken)

\* The prices themselves are not told apart.
pricing_update(t, x, text) ==
  Locked(t, x, IF text = Bad THEN Refused ELSE Done(t, Notes))

-----------------------------------------------------------------------------

plan_create(s, t, x, text) ==
  Insert(s, t, x, New(text, None, None), [on |-> TRUE, mark |-> FALSE, code |-> text], Broken)

\* Mutant of plan_delete: the plan is not locked while its uses are counted.
delete_unlocked(s, t, x) ==
  IF ~Exists(s, x) \/ InUse(s, x) \/ ~Exists(t, x) THEN Refused ELSE Delete(t, x)

\* Whoever would refer to the plan has to wait for its lock.
plan_delete(s, t, x) == Locked(t, x, IF InUse(t, x) THEN Refused ELSE Delete(t, x))

toggle_plan(t, x) == Locked(t, x, Done(Flip(t, x, "on"), Says(x, "on" :> ~t.rows[x].on)))

toggle_plan_recommended(t, x) ==
  Locked(t, x, Done(Flip(t, x, "mark"), Says(x, "mark" :> ~t.rows[x].mark)))

\* Of the fields the model is kept: it needs an active price.
edit_plan_field(s, t, x, text) ==
  Locked(t, x, IF ~Priced(s, text) THEN Refused
               ELSE Done(Put(t, x, "value" :> text), Says(x, "value" :> text)))

provider_toggle(t, x, field) ==
  Locked(t, x, Done(Flip(t, x, field), Says(x, field :> ~t.rows[x][field])))

provider_edit(t, x, text) ==
  Locked(t, x, IF text = Bad THEN Refused
               ELSE Done(Put(t, x, "value" :> text), Says(x, "value" :> text)))

-----------------------------------------------------------------------------
(* Promos.  Only promo_create_credits catches what the index refuses.       *)

promo_create_credits(s, t, x, text) ==
  Insert(s, t, x, New(text, None, None), [on |-> TRUE], Refused)

promo_create(s, t, x, text, plan) ==
  IF plan # None /\ ~Exists(s, plan) THEN Refused
  ELSE Insert(s, t, x, New(text, None, plan), [on |-> TRUE, code |-> text], Broken)

promo_edit_field(s, t, x, text) ==
  Locked(t, x, IF text = Bad \/ Taken(s, x, text) THEN Refused
               ELSE IF Conflict(t, x, text) THEN Broken
               ELSE Done(Put(t, x, "code" :> text), Says(x, "code" :> text)))

promo_set_validity_days(t, x, text) ==
  Locked(t, x, IF text = Bad THEN Refused ELSE Done(t, Notes))

promo_set_scope(t, x, text) ==
  IF text = Bad THEN Refused ELSE Locked(t, x, Done(t, Notes))

promo_set_plan(s, t, x, plan) ==
  IF ~Exists(s, plan) \/ ~Exists(t, x) THEN Refused
  ELSE IF Orphan(t, plan) THEN Broken
  ELSE Done(Put(t, x, "plan" :> plan), Says(x, "plan" :> plan))

promo_toggle(t, x) == Locked(t, x, Done(Flip(t, x, "on"), Says(x, "on" :> ~t.rows[x].on)))

-----------------------------------------------------------------------------
(* Broadcasts until a worker takes them.  The log does not follow a status. *)

Editable(t, x) == t.rows[x].value \in {"draft", "scheduled"}
Queued(t, x) == Put(t, x, [value |-> "scheduled", on |-> FALSE])
Somehow(x) == Says(x, [value |-> Unknown, on |-> Unknown])

broadcast_create(t, x, text) ==
  IF text = Bad THEN Refused
  ELSE Done([t EXCEPT !.rows[x] = [New(None, "draft", None) EXCEPT !.on = FALSE]], Creates(x, <<>>))

broadcast_set_buttons(t, x, text) ==
  Locked(t, x, IF ~Editable(t, x) \/ text = Bad THEN Refused ELSE Done(t, Notes))

broadcast_schedule(t, x, text) ==
  Locked(t, x, IF ~Editable(t, x) \/ text = Bad THEN Refused ELSE Done(Queued(t, x), Somehow(x)))

broadcast_start(t, x) ==
  Locked(t, x, IF ~Editable(t, x) THEN Refused ELSE Done(Queued(t, x), Somehow(x)))

broadcast_stop(t, x) ==
  Locked(t, x, Done(CASE t.rows[x].value = "running" -> Put(t, x, "on" :> TRUE)
                      [] t.rows[x].value = "scheduled" -> Put(t, x, "value" :> "cancelled")
                      [] OTHER -> t,
                    Somehow(x)))

resolve_error(t, x) == Locked(t, x, Done(Put(t, x, "on" :> TRUE), Says(x, "on" :> TRUE)))

-----------------------------------------------------------------------------
(* Settings.                                                                *)

Or(value, default) == IF value = Unset THEN default ELSE value

set_setting(s, t, key, value) ==
  IF \/ value = Bad
     \/ key = "ai.summary_model" /\ ~Priced(s, value)
     \/ key = "ai.history_messages" /\ value < 2
     \/ key = "ai.summary_trigger_messages" /\ value <= Or(s.settings["ai.history_messages"], 12)
  THEN Refused ELSE SetKeys(s, t, key :> value)

\* The present value is read without a lock.
toggle_setting(s, t, key, default) == set_setting(s, t, key, ~Or(s.settings[key], default))

LegalEnabled(t) == Or(t.settings["legal.enabled"], FallbackUrl # "")
LegalUrl(t) == Or(t.settings["legal.url"], FallbackUrl)

\* The button of the agreement is switched on only when it has somewhere to go.
legal_toggle(s, t) ==
  IF ~LegalEnabled(s) /\ LegalUrl(s) = "" THEN Refused
  ELSE toggle_setting(s, t, "legal.enabled", FallbackUrl # "")
=============================================================================
