--------------------------- MODULE MCCreditLedger ---------------------------
(* CreditLedger with two users, two sessions and one call of each kind.     *)
EXTENDS CreditLedger

CONSTANTS u1, u2, s1, s2

MCTrialBonus ==
  { [user |-> u1, key |-> "trial-credit:1", kind |-> "grant", amount |-> 2] }

MCRequests ==
  { [user |-> u1, key |-> "payment-credit:1", kind |-> "grant", amount |-> 3],
    [user |-> u1, key |-> "ai-usage:1", kind |-> "spend", amount |-> 2],
    [user |-> u1, key |-> "admin-credit-remove:1", kind |-> "deduct", amount |-> 4],
    [user |-> u2, key |-> "referral-credit:1", kind |-> "grant", amount |-> 1] }
  \cup MCTrialBonus
=============================================================================
