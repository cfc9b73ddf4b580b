--------------------------- MODULE ReferralRewards --------------------------
(***************************************************************************)
(* Referral rewards in credits, on two levels and by milestone:            *)
(* app/referrals/service.py and repository.py, run by /start when a user   *)
(* registers by a link and by the settlement of every credit payment.      *)
(*                                                                         *)
(* Both are transactions that insert reward rows and then pay all that is  *)
(* pending to each recipient, one wallet at a time, keeping the wallets    *)
(* locked until they commit.  The transactions of different users overlap, *)
(* and may wait for each other in a cycle, which PostgreSQL ends by failing*)
(* one of them: a transaction may be aborted at any point.                 *)
(***************************************************************************)
EXTENDS Naturals, FiniteSets, Sequences

CONSTANTS Users, Transactions,
          Inviter, \* whose link each user has followed, or NoUser
          Target,  \* referral.paying_friends_target
          NoUser, NoTransaction

ASSUME ReferralAssumption ==
  /\ IsFiniteSet(Users)
  /\ Inviter \in [Users -> Users \cup {NoUser}]
  /\ \A u \in Users : Inviter[u] # u
  /\ Target \in Nat \ {0}
  /\ NoUser \notin Users /\ NoTransaction \notin Transactions

VARIABLES users,    \* committed users; one with an inviter has a referral row
          paid,     \* those whose referral row has first_paid_at
          rewards,  \* status of the referral_rewards row of each key
          granted,  \* credit grants made for each row
          wallet_lock, referral_lock, \* holder of each row lock
          work      \* the open transactions

rewardsVars == <<users, paid, rewards, granted, wallet_lock, referral_lock, work>>

\* A reward row is named by its idempotency key: why, for whose registration or
\* payment (for a milestone: for how many friends of whom), and to whom.
Reasons == {"registration", "registration:l2", "first_payment", "first_payment:l2"}
Reward(reason, u, to) == [reason |-> reason, of |-> u, count |-> 0, to |-> to]
Milestone(to, n) == [reason |-> "milestone", of |-> to, count |-> n, to |-> to]

RewardKeys ==
  {Reward(r, u, to) : r \in Reasons, u \in Users, to \in Users}
  \cup {Milestone(to, n) : to \in Users, n \in 1..Cardinality(Users)}

Work == [phase: {"idle", "settling", "inserting", "paying", "done"},
         user: Users \cup {NoUser},  \* who registers or pays
         wanted: SUBSET RewardKeys,  \* rows to insert
         inserted: SUBSET RewardKeys, \* uncommitted rows
         applied: SUBSET RewardKeys, \* uncommitted grants
         owed: Seq(Users),           \* recipients still to be served
         first: BOOLEAN]             \* the referral is being marked paid

Idle == [phase |-> "idle", user |-> NoUser, wanted |-> {}, inserted |-> {},
         applied |-> {}, owed |-> <<>>, first |-> FALSE]

RewardsTypeOK ==
  /\ users \in SUBSET Users /\ paid \in SUBSET users
  /\ rewards \in [RewardKeys -> {"none", "pending", "applied"}]
  /\ granted \in [RewardKeys -> Nat]
  /\ wallet_lock \in [Users -> Transactions \cup {NoTransaction}]
  /\ referral_lock \in [Users -> Transactions \cup {NoTransaction}]
  /\ work \in [Transactions -> Work]

RewardsInit ==
  /\ users = {} /\ paid = {}
  /\ rewards = [k \in RewardKeys |-> "none"]
  /\ granted = [k \in RewardKeys |-> 0]
  /\ wallet_lock = [u \in Users |-> NoTransaction]
  /\ referral_lock = [u \in Users |-> NoTransaction]
  /\ work = [s \in Transactions |-> Idle]

-----------------------------------------------------------------------------
\* The inviter and, on the second level, the inviter's inviter.
Uplines(u) ==
  ({Inviter[u]} \cup {Inviter[v] : v \in {Inviter[u]} \ {NoUser}}) \ {NoUser}

\* The rewards of both levels for what u did, one for each upline.
Level1(reason, u) == {Reward(reason, u, Inviter[u])}
Level2(reason, u) == {Reward(reason, u, to) : to \in Uplines(u) \ {Inviter[u]}}

\* A Python set is iterated in an order of its own.
Orders(S) ==
  {q \in [1..Cardinality(S) -> S] : \A x \in S : \E i \in DOMAIN q : q[i] = x}

\* register_or_update creates the user, register_from_start her referral.
BeginRegistration(s, u) ==
  /\ work[s] = Idle
  /\ u \notin users /\ \A t \in Transactions : work[t].user # u
  /\ Inviter[u] \in users \cup {NoUser}
  /\ IF Inviter[u] = NoUser
     THEN work' = [work EXCEPT ![s] = [Idle EXCEPT !.phase = "done", !.user = u]]
     ELSE \E q \in Orders(Uplines(u)) :
            work' = [work EXCEPT ![s] =
              [Idle EXCEPT !.phase = "inserting", !.user = u, !.owed = q,
                !.wanted = Level1("registration", u) \cup Level2("registration:l2", u)]]
  /\ UNCHANGED <<users, paid, rewards, granted, wallet_lock, referral_lock>>

\* _settle_locked grants the buyer's credits: her wallet stays locked.
BeginPayment(s, u) ==
  /\ work[s] = Idle
  /\ u \in users
  /\ wallet_lock[u] = NoTransaction
  /\ wallet_lock' = [wallet_lock EXCEPT ![u] = s]
  /\ work' = [work EXCEPT ![s] = [Idle EXCEPT !.phase = "settling", !.user = u]]
  /\ UNCHANGED <<users, paid, rewards, granted, referral_lock>>

\* count_paid_for_referrer, after u was marked: committed rows and one's own.
PayingFriends(by, u) == {v \in paid : Inviter[v] = by} \cup {u}

MilestoneFor(by, u) ==
  {Milestone(by, n) : n \in {m \in {Cardinality(PayingFriends(by, u))} : m % Target = 0}}

(* on_first_successful_payment: nothing to do without a referral, or when   *)
(* it was paid before; otherwise lock it, mark it and work out the rewards. *)
NoFirstPayment(s) ==
  LET u == work[s].user IN
  /\ work[s].phase = "settling"
  /\ Inviter[u] # NoUser => u \in paid /\ referral_lock[u] = NoTransaction
  /\ work' = [work EXCEPT ![s].phase = "done"]
  /\ UNCHANGED <<users, paid, rewards, granted, wallet_lock, referral_lock>>

FirstPayment(s) ==
  LET u == work[s].user
      by == Inviter[u]
  IN
  /\ work[s].phase = "settling"
  /\ by # NoUser /\ u \notin paid /\ referral_lock[u] = NoTransaction
  /\ referral_lock' = [referral_lock EXCEPT ![u] = s]
  /\ \E q \in Orders(Uplines(u)) :
       work' = [work EXCEPT ![s] =
         [@ EXCEPT !.phase = "inserting", !.owed = q, !.first = TRUE,
                   !.wanted = Level1("first_payment", u) \cup Level2("first_payment:l2", u)
                              \cup MilestoneFor(by, u)]]
  /\ UNCHANGED <<users, paid, rewards, granted, wallet_lock>>

\* Mutant of InsertRewards: no idempotency key.
InsertAlways(s) ==
  /\ work[s].phase = "inserting"
  /\ work' = [work EXCEPT ![s] =
       [@ EXCEPT !.phase = "paying", !.wanted = {}, !.inserted = work[s].wanted]]
  /\ UNCHANGED <<users, paid, rewards, granted, wallet_lock, referral_lock>>

\* create_idempotent: a key another transaction has inserted is waited for, one
\* that is committed is left alone.
InsertRewards(s) ==
  /\ work[s].phase = "inserting"
  /\ \A t \in Transactions \ {s} : work[t].inserted \cap work[s].wanted = {}
  /\ work' = [work EXCEPT ![s] =
       [@ EXCEPT !.phase = "paying", !.wanted = {},
                 !.inserted = {k \in work[s].wanted : rewards[k] = "none"}]]
  /\ UNCHANGED <<users, paid, rewards, granted, wallet_lock, referral_lock>>

\* list_pending_for_update: the rows this transaction sees and has not applied.
Pending(s, to) ==
  {k \in RewardKeys :
     /\ k.to = to /\ k \notin work[s].applied
     /\ rewards[k] = "pending" \/ k \in work[s].inserted}

\* Mutant of PayNext: the loop over the recipients returns after the first.
PayOnlyFirst(s) ==
  LET to == Head(work[s].owed)
      due == Pending(s, to)
  IN
  /\ work[s].phase = "paying"
  /\ work[s].owed # <<>>
  /\ due # {} => wallet_lock[to] \in {NoTransaction, s}
  /\ wallet_lock' = IF due = {} THEN wallet_lock ELSE [wallet_lock EXCEPT ![to] = s]
  /\ work' = [work EXCEPT ![s] = [@ EXCEPT !.owed = <<>>, !.applied = work[s].applied \cup due]]
  /\ UNCHANGED <<users, paid, rewards, granted, referral_lock>>

\* apply_pending_rewards for the next recipient.
PayNext(s) ==
  LET to == Head(work[s].owed)
      due == Pending(s, to)
  IN
  /\ work[s].phase = "paying"
  /\ work[s].owed # <<>>
  /\ due # {} => wallet_lock[to] \in {NoTransaction, s}
  /\ wallet_lock' = IF due = {} THEN wallet_lock ELSE [wallet_lock EXCEPT ![to] = s]
  /\ work' = [work EXCEPT ![s] =
       [@ EXCEPT !.owed = Tail(work[s].owed), !.applied = work[s].applied \cup due]]
  /\ UNCHANGED <<users, paid, rewards, granted, referral_lock>>

EndTransaction(s) ==
  /\ wallet_lock' = [u \in Users |-> IF wallet_lock[u] = s THEN NoTransaction ELSE wallet_lock[u]]
  /\ referral_lock' =
       [u \in Users |-> IF referral_lock[u] = s THEN NoTransaction ELSE referral_lock[u]]
  /\ work' = [work EXCEPT ![s] = Idle]

Commit(s) ==
  LET w == work[s] IN
  /\ w.phase = "done" \/ (w.phase = "paying" /\ w.owed = <<>>)
  /\ users' = users \cup {w.user}
  /\ paid' = IF w.first THEN paid \cup {w.user} ELSE paid
  /\ rewards' = [k \in RewardKeys |->
       CASE k \in w.applied -> "applied"
         [] k \in w.inserted \ w.applied -> "pending"
         [] OTHER -> rewards[k]]
  /\ granted' = [k \in RewardKeys |-> IF k \in w.applied THEN granted[k] + 1 ELSE granted[k]]
  /\ EndTransaction(s)

\* An error, a crash, or the choice of PostgreSQL's deadlock detector.
Abort(s) ==
  /\ work[s] # Idle
  /\ EndTransaction(s)
  /\ UNCHANGED <<users, paid, rewards, granted>>

RewardsNext ==
  \/ \E s \in Transactions, u \in Users : BeginRegistration(s, u) \/ BeginPayment(s, u)
  \/ \E s \in Transactions :
       \/ NoFirstPayment(s) \/ FirstPayment(s) \/ InsertRewards(s)
       \/ PayNext(s) \/ Commit(s) \/ Abort(s)

RewardsSpec == RewardsInit /\ [][RewardsNext]_rewardsVars

-----------------------------------------------------------------------------
(* A repeated webhook, a second payment or an overlap never pays a reward    *)
(* twice, and no reward row is left behind unpaid.  README.md:567            *)
(* "ReferralReward.idempotency_key prevents duplicate grants".               *)
RewardPaidOnce ==
  \A k \in RewardKeys :
    granted[k] = (IF rewards[k] = "applied" THEN 1 ELSE 0) /\ rewards[k] # "pending"

(* First payments and their rewards commit together: everyone who is marked  *)
(* paid has rewarded both levels above her.                                  *)
PaidRewardsUplines ==
  \A u \in paid : \A k \in Level1("first_payment", u) \cup Level2("first_payment:l2", u) :
    rewards[k] = "applied"
=============================================================================
