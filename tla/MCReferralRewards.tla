-------------------------- MODULE MCReferralRewards -------------------------
(* ReferralRewards with an inviter below another and friends below her, one  *)
(* of whom invites in turn.                                                  *)
EXTENDS ReferralRewards, TLC

CONSTANTS root, host, ann, bob, cid, s1, s2

Family == root :> NoUser @@ host :> root @@ ann :> host @@ bob :> host @@ cid :> ann
=============================================================================
