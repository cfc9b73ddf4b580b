-------------------------- MODULE MCAdministration --------------------------
(* Two tasks; one or two rows of every table.                               *)
EXTENDS Administration

CONSTANTS a, b

MCRows == {"package", "plan", "price", "broadcast", "admin", "mode"} \X {1, 2}
          \cup {"promo"} \X {1, 2, 3} \cup {"user", "provider", "error"} \X {1} \cup {<<"plan", 3>>}

\* The text a is taken as a code everywhere and has an active price; b is free.
MCGiven ==
  [x \in MCRows |->
     CASE x = <<"plan", 2>> -> New(None, a, None)
       [] x[1] \in {"package", "plan", "price", "promo"} /\ x[2] = 1 -> New(a, a, None)
       [] x[1] = "mode" -> New(None, a, None)
       [] x = <<"provider", 1>> -> New(None, a, None)
       [] x = <<"user", 1>> -> [New(None, "reachable", None) EXCEPT !.on = FALSE, !.mark = TRUE]
       [] x = <<"broadcast", 1>> -> [New(None, "draft", None) EXCEPT !.on = FALSE]
       [] x = <<"error", 1>> -> [New(None, None, None) EXCEPT !.on = FALSE]
       [] OTHER -> NoRow]

MCTyped == [k \in {"ai.summary_model"} |-> {a, b}]
           @@ [k \in {"ai.history_messages", "ai.summary_trigger_messages"} |-> {1, 2, 3}]
           @@ [k \in {"legal.url"} |-> {"", "https://example.org"}]

\* The agreement has a url and its button is off; the service mode was never set.
MCSettings ==
  [k \in {"ai.summary_model"} |-> a]
  @@ [k \in {"ai.history_messages"} |-> 2] @@ [k \in {"ai.summary_trigger_messages"} |-> 3]
  @@ [k \in {"referral.enabled", "legal.enabled"} |-> FALSE]
  @@ [k \in {"legal.url"} |-> "https://example.org"] @@ [k \in {"service.maintenance_mode"} |-> Unset]

MCForms ==
  {[k \in {"referral.enabled"} |-> v] : v \in BOOLEAN \cup {Bad}}
  \cup {[k \in {"service.maintenance_mode"} |-> v] : v \in BOOLEAN \cup {Bad}}
  \cup {[k \in {"ai.summary_model"} |-> m] @@ [k \in {"ai.history_messages"} |-> h]
        @@ [k \in {"ai.summary_trigger_messages"} |-> 3] : m \in {a, b}, h \in {2, 3}}

\* What touches the same rows is in use together.
Catalogue ==
  {{"credit_package_toggle", "credit_package_edit", "credit_package_add"},
   {"toggle_plan", "toggle_plan_recommended", "plan_edit", "plan_add", "create_plan", "update_plan"},
   {"plan_delete", "delete_plan", "toggle_plan", "update_plan", "change_plan", "cancel_subscription", "grant_subscription",
    "purchase"},
   {"plan_delete", "delete_plan", "promo_set_plan", "promo_add", "create_promo", "update_promo"},
   {"promo_toggle", "promo_set_scope", "promo_validity", "promo_edit", "promo_add", "update_promo"},
   {"promo_create", "promo_edit", "create_promo"},
   {"provider_toggle", "provider_edit", "update_provider"}}

People ==
  {{"set_user_blocked", "reset_user_trial", "user_addcredits", "user_removecredits", "user_search",
    "set_blocked", "reset_trial", "allow_new_trial"},
   {"user_message", "send_message", "grant_plan", "set_user_blocked"},
   {"change_plan", "cancel_subscription", "extend_days", "add_requests"},
   {"create_admin"}}

System ==
  {{"ai_mode_toggle", "mode_edit", "pricing_edit", "pricing_add", "create_ai_pricing", "update_ai_pricing",
    "setting_edit"},
   {"setting_edit", "update_settings_group", "toggle_setting", "legal_toggle"},
   {"broadcast_start", "broadcast_stop", "broadcast_schedule", "broadcast_buttons", "broadcast_content", "launch"},
   {"resolve_error", "resolve_error_event"}}

MCOpenings == Catalogue \cup People \cup System

MCWizardFields == <<"name", "code", "uses">>

MCSubscribed == <<"plan", 2>>

Tool == INSTANCE TLC

Interchangeable == Tool!Permutations(Tasks)
=============================================================================
