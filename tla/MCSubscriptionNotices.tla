------------------------ MODULE MCSubscriptionNotices -----------------------
(* SubscriptionNotices for a few users, rows and days.                      *)
EXTENDS SubscriptionNotices, TLC

CONSTANTS ann, bob, w1, w2

Interchangeable == Permutations(Users) \cup Permutations(Workers)
=============================================================================
