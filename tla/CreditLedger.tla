---------------------------- MODULE CreditLedger ----------------------------
(***************************************************************************)
(* The credit wallet and its ledger: app/credits/service.py over the      *)
(* tables credit_wallets and credit_transactions.                          *)
(*                                                                         *)
(* A session is one database transaction of a bot handler, of the webhook  *)
(* API or of a Celery task.  It may make several wallet calls before it    *)
(* commits (a settlement pays the buyer and then the referrers), it keeps  *)
(* every row lock it took until it ends, and nothing it wrote is visible   *)
(* to anyone else before its commit.  A wallet row that does not exist yet *)
(* is the wallet of zeros that INSERT ... ON CONFLICT DO NOTHING creates.  *)
(* The unique index on idempotency_key is left out: the service must not   *)
(* need it, and KeyAppliedOnce says that it does not.                      *)
(***************************************************************************)
EXTENDS Integers, Sequences

CONSTANTS Users,      \* users, one wallet each (unique user_id)
          Sessions,   \* concurrent database transactions
          Requests,   \* the calls handlers make: grant, deduct or spend
          TrialBonus, \* trial requests, one per user
          NoSession, NoRequest

Kinds == {"grant", "deduct", "spend"}

(***************************************************************************)
(* An idempotency key names its user: it embeds the id of a payment, a     *)
(* promo activation, a referral reward, an AI usage row or of the user.    *)
(***************************************************************************)
ASSUME RequestAssumption ==
  /\ \A r \in Requests :
       /\ DOMAIN r = {"user", "key", "kind", "amount"}
       /\ r.user \in Users /\ r.kind \in Kinds /\ r.amount \in Int
  /\ \A r, q \in Requests : r.key = q.key => r.user = q.user

ASSUME TrialAssumption ==
  /\ TrialBonus \subseteq Requests
  /\ \A r \in TrialBonus : r.kind = "grant" /\ r.amount > 0

ASSUME SessionAssumption == NoSession \notin Sessions /\ NoRequest \notin Requests

VARIABLES wallets,    \* committed credit_wallets rows
          ledger,     \* committed credit_transactions rows of each user, by id
          trial_used, \* committed users.trial_used
          wallet_lock, user_lock, \* holder of each row lock
          work        \* what each session holds in memory and has not committed

vars == <<wallets, ledger, trial_used, wallet_lock, user_lock, work>>

Wallet == [balance: Nat, lifetime_earned: Nat, lifetime_spent: Nat]
EmptyWallet == [balance |-> 0, lifetime_earned |-> 0, lifetime_spent |-> 0]

Keys == {r.key : r \in Requests}
Row == [key: Keys, amount: Int, balance_after: Nat]

Work == [phase: {"idle", "open", "called", "armed"},
         call: Requests \cup {NoRequest},
         wallet: [Users -> Wallet],
         rows: [Users -> Seq(Row)],
         trial: SUBSET Users]

Idle == [phase |-> "idle", call |-> NoRequest,
         wallet |-> [u \in Users |-> EmptyWallet],
         rows |-> [u \in Users |-> <<>>],
         trial |-> {}]

Init ==
  /\ wallets = [u \in Users |-> EmptyWallet]
  /\ ledger = [u \in Users |-> <<>>]
  /\ trial_used = [u \in Users |-> FALSE]
  /\ wallet_lock = [u \in Users |-> NoSession]
  /\ user_lock = [u \in Users |-> NoSession]
  /\ work = [s \in Sessions |-> Idle]

-----------------------------------------------------------------------------
(* What a session sees: committed rows and its own uncommitted ones.       *)

HasKey(rows, k) == \E i \in 1..Len(rows) : rows[i].key = k

\* Mutant of KeyVisible: only the rows of the session itself are searched.
KeyVisibleInSession(s, r) == HasKey(work[s].rows[r.user], r.key)

\* transaction_by_key
KeyVisible(s, r) ==
  \/ HasKey(ledger[r.user], r.key)
  \/ HasKey(work[s].rows[r.user], r.key)

\* The wallet after a call: balance and the lifetime counters move together.
Moved(w, r) ==
  IF r.kind = "grant"
  THEN [w EXCEPT !.balance = @ + r.amount, !.lifetime_earned = @ + r.amount]
  ELSE [w EXCEPT !.balance = @ - r.amount, !.lifetime_spent = @ + r.amount]

Signed(r) == IF r.kind = "grant" THEN r.amount ELSE -r.amount

\* activate_trial_bonus sets user.trial_used after its grant, applied or not.
Marked(r) == IF r \in TrialBonus THEN {r.user} ELSE {}

-----------------------------------------------------------------------------
(* grant, deduct and spend are entered: a non-positive amount raises before *)
(* anything is read, and the session goes on unchanged.                     *)
Call(s, r) ==
  /\ work[s].phase \in {"idle", "open"}
  /\ r.amount > 0
  /\ r \notin TrialBonus
  /\ work' = [work EXCEPT ![s] = [@ EXCEPT !.phase = "called", !.call = r]]
  /\ UNCHANGED <<wallets, ledger, trial_used, wallet_lock, user_lock>>

\* Mutant of ActivateTrial: the flag is committed before the grant is made.
ActivateTrialEarly(s, r) ==
  /\ work[s].phase \in {"idle", "open"}
  /\ r \in TrialBonus
  /\ user_lock[r.user] = NoSession /\ ~trial_used[r.user]
  /\ trial_used' = [trial_used EXCEPT ![r.user] = TRUE]
  /\ work' = [work EXCEPT ![s] = [@ EXCEPT !.phase = "called", !.call = r]]
  /\ UNCHANGED <<wallets, ledger, wallet_lock, user_lock>>

\* activate_trial_bonus: lock the user row, refuse if trial_used, then grant.
ActivateTrial(s, r) ==
  /\ work[s].phase \in {"idle", "open"}
  /\ r \in TrialBonus
  /\ user_lock[r.user] \in {NoSession, s}
  /\ ~trial_used[r.user] /\ r.user \notin work[s].trial
  /\ user_lock' = [user_lock EXCEPT ![r.user] = s]
  /\ work' = [work EXCEPT ![s] = [@ EXCEPT !.phase = "called", !.call = r]]
  /\ UNCHANGED <<wallets, ledger, trial_used, wallet_lock>>

\* Mutant of EnsureWallet: the row is read without FOR UPDATE.
EnsureWalletUnlocked(s) ==
  LET u == work[s].call.user IN
  /\ work[s].phase = "called"
  /\ wallet_lock' = [wallet_lock EXCEPT ![u] = s]
  /\ work' = [work EXCEPT ![s] = [@ EXCEPT !.phase = "armed", !.wallet[u] = wallets[u]]]
  /\ UNCHANGED <<wallets, ledger, trial_used, user_lock>>

\* wallets.ensure(for_update=True): wait for the row lock, then read the row;
\* a row this session already holds is the object of its identity map.
EnsureWallet(s) ==
  LET u == work[s].call.user IN
  /\ work[s].phase = "called"
  /\ wallet_lock[u] \in {NoSession, s}
  /\ wallet_lock' = [wallet_lock EXCEPT ![u] = s]
  /\ work' = [work EXCEPT ![s] =
       [@ EXCEPT !.phase = "armed",
                 !.wallet[u] = IF wallet_lock[u] = s THEN work[s].wallet[u] ELSE wallets[u]]]
  /\ UNCHANGED <<wallets, ledger, trial_used, user_lock>>

\* The transaction key is already in the ledger: applied=False, no row.
Repeat(s) ==
  LET r == work[s].call IN
  /\ work[s].phase = "armed"
  /\ KeyVisible(s, r)
  /\ work' = [work EXCEPT ![s] =
       [@ EXCEPT !.phase = "open", !.call = NoRequest,
                 !.trial = work[s].trial \cup Marked(r)]]
  /\ UNCHANGED <<wallets, ledger, trial_used, wallet_lock, user_lock>>

\* InsufficientCreditsError: the caller may still commit what it did before.
Refuse(s) ==
  LET r == work[s].call IN
  /\ work[s].phase = "armed"
  /\ ~KeyVisible(s, r)
  /\ r.kind # "grant" /\ work[s].wallet[r.user].balance < r.amount
  /\ work' = [work EXCEPT ![s] = [@ EXCEPT !.phase = "open", !.call = NoRequest]]
  /\ UNCHANGED <<wallets, ledger, trial_used, wallet_lock, user_lock>>

\* Mutant of Apply: the wallet moves without a transaction row.
ApplyWithoutRow(s) ==
  LET r == work[s].call IN
  /\ work[s].phase = "armed"
  /\ ~KeyVisible(s, r)
  /\ r.kind = "grant" \/ work[s].wallet[r.user].balance >= r.amount
  /\ work' = [work EXCEPT ![s] =
       [@ EXCEPT !.phase = "open", !.call = NoRequest,
                 !.wallet[r.user] = Moved(work[s].wallet[r.user], r)]]
  /\ UNCHANGED <<wallets, ledger, trial_used, wallet_lock, user_lock>>

\* The wallet moves and the transaction row is added in the same flush.
Apply(s) ==
  LET r == work[s].call
      w == Moved(work[s].wallet[r.user], r)
  IN
  /\ work[s].phase = "armed"
  /\ ~KeyVisible(s, r)
  /\ r.kind = "grant" \/ work[s].wallet[r.user].balance >= r.amount
  /\ work' = [work EXCEPT ![s] =
       [@ EXCEPT !.phase = "open", !.call = NoRequest,
                 !.trial = work[s].trial \cup Marked(r),
                 !.wallet[r.user] = w,
                 !.rows[r.user] = Append(work[s].rows[r.user],
                   [key |-> r.key, amount |-> Signed(r), balance_after |-> w.balance])]]
  /\ UNCHANGED <<wallets, ledger, trial_used, wallet_lock, user_lock>>

Released(lock, s) == [u \in Users |-> IF lock[u] = s THEN NoSession ELSE lock[u]]

\* session.commit(): everything the transaction wrote appears at once.
Commit(s) ==
  /\ work[s].phase = "open"
  /\ wallets' = [u \in Users |->
       IF wallet_lock[u] = s THEN work[s].wallet[u] ELSE wallets[u]]
  /\ ledger' = [u \in Users |-> ledger[u] \o work[s].rows[u]]
  /\ trial_used' = [u \in Users |-> trial_used[u] \/ u \in work[s].trial]
  /\ wallet_lock' = Released(wallet_lock, s)
  /\ user_lock' = Released(user_lock, s)
  /\ work' = [work EXCEPT ![s] = Idle]

\* An exception in the handler, a deadlock victim, a killed process or a lost
\* connection: PostgreSQL rolls the transaction back at any of its steps.
Rollback(s) ==
  /\ work[s].phase # "idle"
  /\ wallet_lock' = Released(wallet_lock, s)
  /\ user_lock' = Released(user_lock, s)
  /\ work' = [work EXCEPT ![s] = Idle]
  /\ UNCHANGED <<wallets, ledger, trial_used>>

\* reset_user_trial of the admin panels, committed by its own transaction.
ResetTrial(u) ==
  /\ user_lock[u] = NoSession
  /\ trial_used[u]
  /\ trial_used' = [trial_used EXCEPT ![u] = FALSE]
  /\ UNCHANGED <<wallets, ledger, wallet_lock, user_lock, work>>

Next ==
  \/ \E s \in Sessions, r \in Requests : Call(s, r) \/ ActivateTrial(s, r)
  \/ \E s \in Sessions :
       EnsureWallet(s) \/ Repeat(s) \/ Refuse(s) \/ Apply(s) \/ Commit(s) \/ Rollback(s)
  \/ \E u \in Users : ResetTrial(u)

Spec == Init /\ [][Next]_vars

-----------------------------------------------------------------------------
(* The types of the variables; no balance, committed or not, is negative.   *)
TypeOK ==
  /\ wallets \in [Users -> Wallet]
  /\ ledger \in [Users -> Seq(Row)]
  /\ trial_used \in [Users -> BOOLEAN]
  /\ wallet_lock \in [Users -> Sessions \cup {NoSession}]
  /\ user_lock \in [Users -> Sessions \cup {NoSession}]
  /\ work \in [Sessions -> Work]

\* Each balance_after continues the row before it; the first continues start.
Chained(start, rows) ==
  \A i \in 1..Len(rows) :
    rows[i].balance_after
      = (IF i = 1 THEN start ELSE rows[i - 1].balance_after) + rows[i].amount

Consistent(w) == w.balance = w.lifetime_earned - w.lifetime_spent

Closing(start, rows) == IF rows = <<>> THEN start ELSE rows[Len(rows)].balance_after

(***************************************************************************)
(* The committed wallet is what its ledger says: the rows form one unbroken *)
(* chain from zero, the balance is where the chain ends, and it is what was *)
(* earned less what was spent.  No interleaving of transactions, rollback   *)
(* or crash loses or invents a credit.                                      *)
(***************************************************************************)
LedgerBalances ==
  \A u \in Users :
    /\ Chained(0, ledger[u])
    /\ wallets[u].balance = Closing(0, ledger[u])
    /\ Consistent(wallets[u])

(***************************************************************************)
(* A retried or doubled call is applied at most once: no two committed rows *)
(* of any users carry the same idempotency key.                             *)
(***************************************************************************)
KeyAppliedOnce ==
  \A u, v \in Users : \A i \in 1..Len(ledger[u]), j \in 1..Len(ledger[v]) :
    ledger[u][i].key = ledger[v][j].key => u = v /\ i = j

(***************************************************************************)
(* The trial flag and the trial credits commit together: a user whose       *)
(* trial_used is set has the row of the bonus in the ledger.                *)
(***************************************************************************)
TrialFlagMeansCredited ==
  \A u \in Users : trial_used[u] =>
    \E r \in TrialBonus : r.user = u /\ HasKey(ledger[u], r.key)

(***************************************************************************)
(* The ledger is append-only and a balance never moves without the rows     *)
(* that explain it.                                                         *)
(***************************************************************************)
LedgerOnlyGrows ==
  [][\A u \in Users :
       /\ Len(ledger'[u]) >= Len(ledger[u])
       /\ \A i \in 1..Len(ledger[u]) : ledger'[u][i] = ledger[u][i]
       /\ ledger'[u] = ledger[u] => wallets'[u] = wallets[u]]_vars

-----------------------------------------------------------------------------
(* The inductive invariant: what an open transaction may rely on.           *)

OwnKeys(u, rows) ==
  \A i \in 1..Len(rows) : \E r \in Requests : r.user = u /\ r.key = rows[i].key

DistinctKeys(rows) ==
  \A i, j \in 1..Len(rows) : rows[i].key = rows[j].key => i = j

\* A call in progress is a real request, and once armed its wallet is held.
CallHeld ==
  \A s \in Sessions :
    /\ work[s].phase \in {"called", "armed"} =>
         work[s].call \in Requests /\ work[s].call.amount > 0
    /\ work[s].phase = "armed" => wallet_lock[work[s].call.user] = s

\* Pending rows lead from the committed wallet to the copy the session will
\* write back, and repeat no key.
Continues(committed, entries, copy, rows) ==
  /\ Chained(committed.balance, rows)
  /\ copy.balance = Closing(committed.balance, rows)
  /\ Consistent(copy)
  /\ rows = <<>> => copy = committed
  /\ DistinctKeys(rows)
  /\ \A i \in 1..Len(rows) : ~HasKey(entries, rows[i].key)

\* Only the holder of a wallet's lock has rows for it.
PendingContinues ==
  \A s \in Sessions, u \in Users :
    IF wallet_lock[u] = s
    THEN /\ work[s].phase # "idle"
         /\ Continues(wallets[u], ledger[u], work[s].wallet[u], work[s].rows[u])
    ELSE work[s].rows[u] = <<>>

KeysHaveOwners ==
  \A u \in Users :
    /\ OwnKeys(u, ledger[u]) /\ DistinctKeys(ledger[u])
    /\ \A s \in Sessions : OwnKeys(u, work[s].rows[u])

PendingTrialCredited ==
  \A s \in Sessions : \A u \in work[s].trial :
    \E r \in TrialBonus : r.user = u /\ KeyVisible(s, r)

IInv ==
  /\ TypeOK /\ CallHeld /\ PendingContinues /\ KeysHaveOwners
  /\ LedgerBalances /\ PendingTrialCredited /\ TrialFlagMeansCredited
=============================================================================
