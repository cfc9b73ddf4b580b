------------------------------ MODULE WebAdmin ------------------------------
(***************************************************************************)
(* What the web panel does to the same tables: the methods of              *)
(* AdminMutationService, AdminAuthService (admin/service.py) and           *)
(* AdminUserActionService (admin/stage8_service.py).  A form carries every *)
(* field of its row, so a save overwrites what it does not mean to change. *)
(***************************************************************************)
EXTENDS AdminTables

\* The settings each page of the web panel saves together.
Groups == [ai |-> {"ai.summary_model", "ai.history_messages", "ai.summary_trigger_messages"},
           referral |-> {"referral.enabled"},
           service |-> {"service.maintenance_mode"}]

Valid(form) ==
  /\ \A key \in DOMAIN form : form[key] # Bad
  /\ "ai.history_messages" \in DOMAIN form =>
       /\ form["ai.history_messages"] >= 2
       /\ form["ai.summary_trigger_messages"] > form["ai.history_messages"]

\* The models need a price, which may be switched off.
update_settings_group(s, t, form) ==
  IF ~Valid(form) \/ ("ai.summary_model" \in DOMAIN form /\ ~Known(s, form["ai.summary_model"]))
  THEN Refused ELSE SetKeys(s, t, form)

\* A form of a plan: name and prices, or one that is refused; and two switches.
create_plan(s, t, x, text, on) ==
  Insert(s, t, x, [New(text, None, None) EXCEPT !.on = on], [code |-> text], Broken)

update_plan(t, x, text, on, mark) ==
  Locked(t, x, IF text = Bad THEN Refused
               ELSE Done(Put(t, x, [on |-> on, mark |-> mark]), Says(x, [on |-> on, mark |-> Unknown])))

delete_plan(t, x) == Locked(t, x, IF InUse(t, x) THEN Refused ELSE Delete(t, x))

create_ai_pricing(s, t, x, text, on) ==
  Insert(s, t, x, [New(text, None, None) EXCEPT !.on = on], [code |-> text], Broken)

update_ai_pricing(t, x, text, on) ==
  Locked(t, x, IF text = Bad THEN Refused ELSE Done(Put(t, x, "on" :> on), Says(x, "on" :> on)))

update_provider(t, x, text, on, mark) ==
  Locked(t, x, IF text = Bad THEN Refused
               ELSE Done(Put(t, x, [on |-> on, mark |-> mark]), Says(x, [on |-> on, mark |-> mark])))

\* The entry leaves the plan out.
Promo(text, on, plan) == [code |-> text, on |-> on, plan |-> plan]

create_promo(s, t, x, text, on, plan) ==
  IF plan # None /\ ~Exists(s, plan) THEN Refused
  ELSE Insert(s, t, x, Promo(text, on, plan) @@ New(text, None, None), [code |-> text, on |-> on], Broken)

update_promo(s, t, x, text, on, plan) ==
  Locked(t, x, IF text = Bad \/ Taken(s, x, text) \/ (plan # None /\ ~Exists(s, plan)) THEN Refused
               ELSE IF Conflict(t, x, text) \/ Orphan(t, plan) THEN Broken
               ELSE Done(Put(t, x, Promo(text, on, plan)),
                         Says(x, [code |-> text, on |-> on, plan |-> Unknown])))

resolve_error_event(t, x) == Locked(t, x, Done(Put(t, x, "on" :> TRUE), Says(x, "on" :> TRUE)))

create_admin(s, t, x, text) == Insert(s, t, x, New(text, None, None), [code |-> text], Broken)

-----------------------------------------------------------------------------
(* The card of a user.  A method that needs the active subscription finds   *)
(* one or refuses.                                                          *)

\* As grant_plan in the bot: the result has no .extended.
grant_subscription(s, t, x, plan) ==
  Locked(t, x, IF Exists(s, plan) THEN Broken ELSE Refused)

\* A subscription whose end has passed is marked expired before the refusal, and
\* the mark is rolled back with it.
WithSubscription(t, x, outcome) == Locked(t, x, IF t.active THEN outcome ELSE Refused)

\* Days and requests, or a number that is refused, are not told apart.
extend_days(t, x, text) == IF text = Bad THEN Refused ELSE WithSubscription(t, x, Done(t, Notes))
add_requests(t, x, text) == IF text = Bad THEN Refused ELSE WithSubscription(t, x, Done(t, Notes))

change_plan(s, t, x, plan) ==
  IF ~Exists(s, plan) THEN Refused
  ELSE WithSubscription(t, x, IF Orphan(t, plan) THEN Broken
                              ELSE Done([t EXCEPT !.sub = plan], Notes))

\* The row stays, and with it the use of the plan.
cancel_subscription(t, x) == WithSubscription(t, x, Done([t EXCEPT !.active = FALSE], Notes))

set_blocked(t, x, blocked) == Locked(t, x, Done(Put(t, x, "on" :> blocked), Says(x, "on" :> blocked)))

reset_trial(t, x) == Locked(t, x, Done(Put(t, x, "mark" :> FALSE), Says(x, "mark" :> FALSE)))

\* Refused while a trial runs; trials are no part of this model.
allow_new_trial(t, x, running) ==
  IF running THEN Refused ELSE reset_trial(t, x)
=============================================================================
