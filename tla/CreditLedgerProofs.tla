------------------------- MODULE CreditLedgerProofs -------------------------
(* The wallet invariants of CreditLedger hold for every set of users,       *)
(* sessions and calls.                                                      *)
EXTENDS CreditLedger, TLAPS

(* A row appended after a chain, carrying the new balance, continues it.    *)
LEMMA AppendContinues ==
  ASSUME NEW start \in Nat, NEW rows \in Seq(Row), NEW x \in Row,
         Chained(start, rows), x.balance_after = Closing(start, rows) + x.amount
  PROVE  /\ Chained(start, Append(rows, x))
         /\ Closing(start, Append(rows, x)) = x.balance_after
<1> DEFINE new == Append(rows, x)
<1>1. /\ new \in Seq(Row) /\ Len(new) = Len(rows) + 1 /\ Len(rows) \in Nat
      /\ \A i \in 1..Len(rows) : new[i] = rows[i]
      /\ new[Len(rows) + 1] = x
  OBVIOUS
<1>2. Closing(start, new) = x.balance_after
  <2>1. new # <<>>
    BY <1>1
  <2>2. QED BY <1>1, <2>1 DEF Closing
<1>3. ASSUME NEW i \in 1..Len(new)
      PROVE  new[i].balance_after
               = (IF i = 1 THEN start ELSE new[i - 1].balance_after) + new[i].amount
  <2>1. CASE i \in 1..Len(rows)
    <3>1. i = 1 \/ i - 1 \in 1..Len(rows)
      BY <2>1, <1>1
    <3>2. QED BY <2>1, <3>1, <1>1 DEF Chained
  <2>2. CASE i = Len(rows) + 1
    <3>1. CASE rows = <<>>
      BY <2>2, <3>1, <1>1 DEF Closing
    <3>2. CASE rows # <<>>
      <4>1. Len(rows) \in 1..Len(rows) /\ i # 1 /\ i - 1 = Len(rows)
        BY <3>2, <2>2, <1>1
      <4>2. QED BY <4>1, <2>2, <3>2, <1>1 DEF Closing
    <3>3. QED BY <3>1, <3>2
  <2>3. QED BY <1>1, <2>1, <2>2
<1>4. QED BY <1>2, <1>3 DEF Chained

(* Concatenation keeps the prefix; only the empty sequence adds nothing.    *)
LEMMA ConcatFacts ==
  ASSUME NEW a \in Seq(Row), NEW b \in Seq(Row)
  PROVE  /\ Len(a \o b) >= Len(a)
         /\ \A i \in 1..Len(a) : (a \o b)[i] = a[i]
         /\ b = <<>> <=> a \o b = a
<1>1. /\ Len(a \o b) = Len(a) + Len(b) /\ Len(a) \in Nat /\ Len(b) \in Nat
      /\ \A i \in 1..Len(a) : (a \o b)[i] = a[i]
  OBVIOUS
<1>2. b = <<>> => a \o b = a
  OBVIOUS
<1>3. a \o b = a => Len(b) = 0
  BY <1>1
<1>4. Len(b) = 0 => b = <<>>
  OBVIOUS
<1>5. QED BY <1>1, <1>2, <1>3, <1>4

(* Two chains, the second starting where the first ends, make one chain.    *)
LEMMA ConcatContinues ==
  ASSUME NEW start \in Nat, NEW a \in Seq(Row), NEW b \in Seq(Row),
         Chained(start, a), Chained(Closing(start, a), b)
  PROVE  /\ Chained(start, a \o b)
         /\ Closing(start, a \o b) = Closing(Closing(start, a), b)
<1> DEFINE ab == a \o b
<1>1. /\ ab \in Seq(Row) /\ Len(ab) = Len(a) + Len(b) /\ Len(a) \in Nat /\ Len(b) \in Nat
      /\ \A i \in 1..Len(a) : ab[i] = a[i]
      /\ \A i \in 1..Len(b) : ab[Len(a) + i] = b[i]
  OBVIOUS
<1>2. Closing(start, ab) = Closing(Closing(start, a), b)
  <2>1. CASE b = <<>>
    <3>1. ab = a
      BY <2>1
    <3>2. QED BY <2>1, <3>1 DEF Closing
  <2>2. CASE b # <<>>
    <3>1. Len(b) \in 1..Len(b)
      BY <2>2, <1>1
    <3>2. ab # <<>> /\ ab[Len(ab)] = b[Len(b)]
      BY <3>1, <1>1
    <3>3. QED BY <2>2, <3>2 DEF Closing
  <2>3. QED BY <2>1, <2>2
<1>3. ASSUME NEW i \in 1..Len(ab)
      PROVE  ab[i].balance_after
               = (IF i = 1 THEN start ELSE ab[i - 1].balance_after) + ab[i].amount
  <2>1. CASE i \in 1..Len(a)
    <3>1. i = 1 \/ i - 1 \in 1..Len(a)
      BY <2>1, <1>1
    <3>2. QED BY <2>1, <3>1, <1>1 DEF Chained
  <2>2. CASE i = Len(a) + 1
    <3>1. 1 \in 1..Len(b) /\ ab[i] = b[1]
      BY <2>2, <1>1
    <3>2. b[1].balance_after = Closing(start, a) + b[1].amount
      BY <3>1 DEF Chained
    <3>3. Closing(start, a) = IF i = 1 THEN start ELSE ab[i - 1].balance_after
      <4>1. CASE a = <<>>
        BY <4>1, <2>2, <1>1 DEF Closing
      <4>2. CASE a # <<>>
        <5>1. Len(a) \in 1..Len(a) /\ i # 1 /\ i - 1 = Len(a)
          BY <4>2, <2>2, <1>1
        <5>2. QED BY <5>1, <4>2, <1>1 DEF Closing
      <4>3. QED BY <4>1, <4>2
    <3>4. QED BY <3>1, <3>2, <3>3
  <2>3. CASE i > Len(a) + 1
    <3> DEFINE k == i - Len(a)
    <3>1. k \in 1..Len(b) /\ k # 1 /\ k - 1 \in 1..Len(b) /\ i # 1
      BY <2>3, <1>1
    <3>2. ab[i] = b[k] /\ ab[i - 1] = b[k - 1]
      <4>1. i = Len(a) + k /\ i - 1 = Len(a) + (k - 1)
        BY <1>1
      <4>2. QED BY <4>1, <3>1, <1>1
    <3>3. b[k].balance_after = b[k - 1].balance_after + b[k].amount
      BY <3>1 DEF Chained
    <3>4. QED BY <3>1, <3>2, <3>3
  <2>4. QED BY <1>1, <2>1, <2>2, <2>3
<1>4. QED BY <1>2, <1>3 DEF Chained

(* The keys of a concatenation are those of its parts, and stay distinct    *)
(* when the parts share none.                                               *)
LEMMA ConcatKeys ==
  ASSUME NEW a \in Seq(Row), NEW b \in Seq(Row)
  PROVE  /\ \A k : HasKey(a \o b, k) <=> HasKey(a, k) \/ HasKey(b, k)
         /\ \A u : OwnKeys(u, a) /\ OwnKeys(u, b) => OwnKeys(u, a \o b)
         /\ (/\ DistinctKeys(a) /\ DistinctKeys(b)
             /\ \A i \in 1..Len(b) : ~HasKey(a, b[i].key)) => DistinctKeys(a \o b)
<1> DEFINE ab == a \o b
<1>1. /\ ab \in Seq(Row) /\ Len(ab) = Len(a) + Len(b) /\ Len(a) \in Nat /\ Len(b) \in Nat
      /\ \A i \in 1..Len(a) : ab[i] = a[i]
      /\ \A i \in 1..Len(b) : ab[Len(a) + i] = b[i]
  OBVIOUS
<1>2. \A i \in 1..Len(ab) :
        i \in 1..Len(a) \/ (i - Len(a) \in 1..Len(b) /\ ab[i] = b[i - Len(a)])
  <2> SUFFICES ASSUME NEW i \in 1..Len(ab), i \notin 1..Len(a)
               PROVE  i - Len(a) \in 1..Len(b) /\ ab[i] = b[i - Len(a)]
    OBVIOUS
  <2>1. i - Len(a) \in 1..Len(b) /\ i = Len(a) + (i - Len(a))
    BY <1>1
  <2>2. QED BY <2>1, <1>1
<1>3. \A i \in 1..Len(a) : i \in 1..Len(ab)
  BY <1>1
<1>4. \A i \in 1..Len(b) : Len(a) + i \in 1..Len(ab)
  BY <1>1
<1>5. ASSUME NEW k PROVE HasKey(ab, k) <=> HasKey(a, k) \/ HasKey(b, k)
  <2>1. HasKey(ab, k) => HasKey(a, k) \/ HasKey(b, k)
    BY <1>1, <1>2 DEF HasKey
  <2>2. HasKey(a, k) => HasKey(ab, k)
    BY <1>1, <1>3 DEF HasKey
  <2>3. HasKey(b, k) => HasKey(ab, k)
    BY <1>1, <1>4 DEF HasKey
  <2>4. QED BY <2>1, <2>2, <2>3
<1>6. ASSUME NEW u, OwnKeys(u, a), OwnKeys(u, b) PROVE OwnKeys(u, ab)
  BY <1>1, <1>2, <1>6 DEF OwnKeys
<1>7. ASSUME DistinctKeys(a), DistinctKeys(b), \A i \in 1..Len(b) : ~HasKey(a, b[i].key)
      PROVE  DistinctKeys(ab)
  <2> SUFFICES ASSUME NEW i \in 1..Len(ab), NEW j \in 1..Len(ab), ab[i].key = ab[j].key
               PROVE  i = j
    BY DEF DistinctKeys
  <2>1. CASE i \in 1..Len(a) /\ j \in 1..Len(a)
    BY <2>1, <1>1, <1>7 DEF DistinctKeys
  <2>2. CASE i \notin 1..Len(a) /\ j \notin 1..Len(a)
    <3>1. i - Len(a) = j - Len(a)
      BY <2>2, <1>2, <1>7 DEF DistinctKeys
    <3>2. QED BY <3>1, <1>1
  <2>3. CASE i \in 1..Len(a) /\ j \notin 1..Len(a)
    BY <2>3, <1>1, <1>2, <1>7 DEF HasKey
  <2>4. CASE i \notin 1..Len(a) /\ j \in 1..Len(a)
    BY <2>4, <1>1, <1>2, <1>7 DEF HasKey
  <2>5. QED BY <2>1, <2>2, <2>3, <2>4
<1>8. QED BY <1>5, <1>6, <1>7

(* Appending one row adds exactly its key.                                  *)
LEMMA AppendKeys ==
  ASSUME NEW rows \in Seq(Row), NEW x \in Row
  PROVE  /\ \A k : HasKey(Append(rows, x), k) <=> HasKey(rows, k) \/ k = x.key
         /\ \A u : OwnKeys(u, rows) /\ (\E r \in Requests : r.user = u /\ r.key = x.key)
                     => OwnKeys(u, Append(rows, x))
         /\ DistinctKeys(rows) /\ ~HasKey(rows, x.key) => DistinctKeys(Append(rows, x))
<1> DEFINE new == Append(rows, x)
<1>1. /\ Len(new) = Len(rows) + 1 /\ Len(rows) \in Nat
      /\ \A i \in 1..Len(rows) : new[i] = rows[i]
      /\ new[Len(rows) + 1] = x
  OBVIOUS
<1>2. \A i \in 1..Len(new) : i \in 1..Len(rows) \/ i = Len(rows) + 1
  BY <1>1
<1>3. Len(rows) + 1 \in 1..Len(new) /\ \A i \in 1..Len(rows) : i \in 1..Len(new)
  BY <1>1
<1>4. ASSUME NEW k PROVE HasKey(new, k) <=> HasKey(rows, k) \/ k = x.key
  BY <1>1, <1>2, <1>3 DEF HasKey
<1>5. ASSUME NEW u, OwnKeys(u, rows), \E r \in Requests : r.user = u /\ r.key = x.key
      PROVE  OwnKeys(u, new)
  BY <1>1, <1>2, <1>5 DEF OwnKeys
<1>6. ASSUME DistinctKeys(rows), ~HasKey(rows, x.key) PROVE DistinctKeys(new)
  BY <1>1, <1>2, <1>6 DEF DistinctKeys, HasKey
<1>7. QED BY <1>4, <1>5, <1>6

(* A wallet just read, a wallet just moved, and a transaction written back.  *)
LEMMA StartContinues ==
  ASSUME NEW w \in Wallet, NEW entries, Consistent(w)
  PROVE  Continues(w, entries, w, <<>>)
<1>1. Len(<<>>) = 0 /\ 1..0 = {}
  OBVIOUS
<1>2. Chained(w.balance, <<>>) /\ Closing(w.balance, <<>>) = w.balance /\ DistinctKeys(<<>>)
  BY <1>1 DEF Chained, Closing, DistinctKeys
<1>3. QED BY <1>1, <1>2 DEF Continues

(* One applied call extends the pending chain by its row and the copy by the *)
(* same amount.                                                             *)
LEMMA ApplyContinues ==
  ASSUME NEW w0 \in Wallet, NEW entries, NEW c \in Wallet, NEW w \in Wallet,
         NEW q \in Seq(Row), NEW x \in Row,
         Continues(w0, entries, c, q), Consistent(w),
         w.balance = c.balance + x.amount, x.balance_after = w.balance,
         ~HasKey(entries, x.key), ~HasKey(q, x.key)
  PROVE  Continues(w0, entries, w, Append(q, x))
<1>1. w0.balance \in Nat /\ Chained(w0.balance, q) /\ c.balance = Closing(w0.balance, q)
  BY DEF Continues, Wallet
<1>2. Chained(w0.balance, Append(q, x)) /\ Closing(w0.balance, Append(q, x)) = w.balance
  BY <1>1, AppendContinues
<1>3. DistinctKeys(Append(q, x))
  BY AppendKeys DEF Continues
<1>4. /\ Len(Append(q, x)) = Len(q) + 1 /\ Len(q) \in Nat
      /\ \A j \in 1..Len(q) : Append(q, x)[j] = q[j]
      /\ Append(q, x)[Len(q) + 1] = x
  OBVIOUS
<1>5. \A i \in 1..Len(Append(q, x)) : ~HasKey(entries, Append(q, x)[i].key)
  <2> SUFFICES ASSUME NEW i \in 1..Len(Append(q, x))
               PROVE  ~HasKey(entries, Append(q, x)[i].key)
    OBVIOUS
  <2>1. CASE i \in 1..Len(q)
    BY <1>4, <2>1 DEF Continues
  <2>2. CASE i = Len(q) + 1
    BY <1>4, <2>2
  <2>3. QED BY <1>4, <2>1, <2>2
<1>6. Append(q, x) # <<>>
  OBVIOUS
<1>7. QED BY <1>2, <1>3, <1>5, <1>6 DEF Continues

(* Writing the copy and the pending rows back keeps the committed chain.    *)
LEMMA CommitContinues ==
  ASSUME NEW w0 \in Wallet, NEW entries \in Seq(Row), NEW c \in Wallet, NEW q \in Seq(Row),
         Continues(w0, entries, c, q), DistinctKeys(entries),
         Chained(0, entries), w0.balance = Closing(0, entries)
  PROVE  /\ Chained(0, entries \o q) /\ c.balance = Closing(0, entries \o q)
         /\ DistinctKeys(entries \o q)
<1>1. Chained(Closing(0, entries), q) /\ c.balance = Closing(Closing(0, entries), q)
  BY DEF Continues
<1>2. Chained(0, entries \o q) /\ Closing(0, entries \o q) = c.balance
  BY <1>1, ConcatContinues
<1>3. DistinctKeys(entries \o q)
  BY ConcatKeys DEF Continues
<1>4. QED BY <1>2, <1>3

(* A call that passed its checks moves a wallet by its signed amount, never  *)
(* below zero.                                                              *)
LEMMA MovedFacts ==
  ASSUME NEW c \in Wallet, NEW r, r.amount \in Int, r.amount > 0,
         r.kind = "grant" \/ c.balance >= r.amount
  PROVE  /\ Moved(c, r) \in Wallet
         /\ Moved(c, r).balance = c.balance + Signed(r) /\ Signed(r) \in Int
         /\ Consistent(c) => Consistent(Moved(c, r))
<1>1. /\ c.balance \in Nat /\ c.lifetime_earned \in Nat /\ c.lifetime_spent \in Nat
  BY DEF Wallet
<1>2. CASE r.kind = "grant"
  <2> DEFINE w == [balance |-> c.balance + r.amount,
                   lifetime_earned |-> c.lifetime_earned + r.amount,
                   lifetime_spent |-> c.lifetime_spent]
  <2>1. Moved(c, r) = w /\ Signed(r) = r.amount
    BY <1>2 DEF Moved, Wallet, Signed
  <2>2. w \in Wallet
    BY <1>1 DEF Wallet
  <2>3. Consistent(c) => Consistent(w)
    BY <1>1 DEF Consistent
  <2>4. QED BY <2>1, <2>2, <2>3
<1>3. CASE r.kind # "grant"
  <2> DEFINE w == [balance |-> c.balance - r.amount,
                   lifetime_earned |-> c.lifetime_earned,
                   lifetime_spent |-> c.lifetime_spent + r.amount]
  <2>1. Moved(c, r) = w /\ Signed(r) = -r.amount
    BY <1>3 DEF Moved, Wallet, Signed
  <2>2. c.balance - r.amount \in Nat /\ c.lifetime_spent + r.amount \in Nat
    BY <1>1, <1>3
  <2>3. w \in Wallet
    BY <1>1, <2>2 DEF Wallet
  <2>4. Consistent(c) => Consistent(w)
    BY <1>1 DEF Consistent
  <2>5. c.balance + -r.amount = c.balance - r.amount
    BY <1>1
  <2>6. QED BY <2>1, <2>3, <2>4, <2>5
<1>4. QED BY <1>2, <1>3

-----------------------------------------------------------------------------
(* What the assumptions say of one request.                                 *)
LEMMA RequestFacts ==
  /\ \A r \in Requests : /\ r.user \in Users /\ r.key \in Keys
                         /\ r.kind \in Kinds /\ r.amount \in Int
  /\ \A r \in TrialBonus : r \in Requests /\ r.kind = "grant" /\ r.amount > 0
  /\ NoRequest \notin Requests /\ NoSession \notin Sessions
BY RequestAssumption, TrialAssumption, SessionAssumption DEF Keys

(* Empty wallets and empty ledgers satisfy the invariant.                   *)
LEMMA InitIInv == Init => IInv
<1> SUFFICES ASSUME Init PROVE IInv
  OBVIOUS
<1>0. /\ \A u \in Users : /\ ledger[u] = <<>> /\ wallets[u] = EmptyWallet
                          /\ wallet_lock[u] = NoSession /\ ~trial_used[u]
      /\ \A s \in Sessions : /\ work[s].phase = "idle" /\ work[s].trial = {}
                             /\ \A u \in Users : work[s].rows[u] = <<>>
  BY DEF Init, Idle
<1>1. TypeOK
  BY RequestFacts DEF TypeOK, Work, Wallet, Init, Idle, EmptyWallet
<1>2. CallHeld
  BY <1>0 DEF CallHeld
<1>3. PendingContinues
  BY <1>0, RequestFacts DEF PendingContinues
<1>4. KeysHaveOwners
  <2>1. DistinctKeys(<<>>) /\ \A u : OwnKeys(u, <<>>)
    BY DEF OwnKeys, DistinctKeys
  <2>2. QED BY <1>0, <2>1 DEF KeysHaveOwners
<1>5. LedgerBalances
  <2>1. Chained(0, <<>>) /\ Closing(0, <<>>) = 0
    BY DEF Chained, Closing
  <2>2. ASSUME NEW u \in Users
        PROVE  /\ Chained(0, ledger[u]) /\ wallets[u].balance = Closing(0, ledger[u])
               /\ Consistent(wallets[u])
    BY <1>0, <2>1 DEF EmptyWallet, Consistent
  <2>3. QED BY <2>2 DEF LedgerBalances
<1>6. PendingTrialCredited /\ TrialFlagMeansCredited
  BY <1>0 DEF PendingTrialCredited, TrialFlagMeansCredited
<1>7. QED BY <1>1, <1>2, <1>3, <1>4, <1>5, <1>6 DEF IInv

(* A step that changes only the phase, the call or the trial mark of one    *)
(* session keeps everything the invariant says of wallets, rows and keys.   *)
LEMMA Frame ==
  ASSUME IInv, NEW s \in Sessions,
         UNCHANGED <<wallets, ledger, trial_used, wallet_lock>>,
         work' \in [Sessions -> Work],
         \A t \in Sessions \ {s} : work'[t] = work[t],
         work'[s].rows = work[s].rows, work'[s].wallet = work[s].wallet,
         work'[s].phase # "idle"
  PROVE  /\ PendingContinues' /\ KeysHaveOwners' /\ LedgerBalances'
         /\ TrialFlagMeansCredited'
         /\ \A t \in Sessions, q \in TrialBonus : KeyVisible(t, q)' <=> KeyVisible(t, q)
<1>1. \A t \in Sessions : /\ work'[t].rows = work[t].rows
                          /\ work'[t].wallet = work[t].wallet
                          /\ work[t].phase # "idle" => work'[t].phase # "idle"
  OBVIOUS
<1>2. PendingContinues'
  BY <1>1 DEF IInv, PendingContinues
<1>3. KeysHaveOwners'
  BY <1>1 DEF IInv, KeysHaveOwners
<1>4. LedgerBalances' /\ TrialFlagMeansCredited'
  BY DEF IInv, LedgerBalances, TrialFlagMeansCredited
<1>5. \A t \in Sessions, q \in TrialBonus : KeyVisible(t, q)' <=> KeyVisible(t, q)
  BY <1>1 DEF KeyVisible
<1>6. QED BY <1>2, <1>3, <1>4, <1>5

(* Entering a call.                                                         *)
LEMMA EnterIInv ==
  ASSUME IInv, NEW s \in Sessions, NEW r \in Requests, Call(s, r) \/ ActivateTrial(s, r)
  PROVE  IInv'
<1> DEFINE W == [work[s] EXCEPT !.phase = "called", !.call = r]
<1>a. work' = [work EXCEPT ![s] = W]
  BY DEF Call, ActivateTrial
<1>b. r.amount > 0
  BY RequestFacts DEF Call, ActivateTrial
<1>c. UNCHANGED <<wallets, ledger, trial_used, wallet_lock>>
  BY DEF Call, ActivateTrial
<1>d. user_lock' \in [Users -> Sessions \cup {NoSession}]
  BY RequestFacts DEF Call, ActivateTrial, IInv, TypeOK
<1>2. W \in Work /\ W.phase = "called" /\ W.call = r
      /\ W.rows = work[s].rows /\ W.wallet = work[s].wallet /\ W.trial = work[s].trial
  BY DEF IInv, TypeOK, Work
<1>3. /\ work' \in [Sessions -> Work] /\ work'[s] = W
      /\ \A t \in Sessions \ {s} : work'[t] = work[t]
  BY <1>a, <1>2 DEF IInv, TypeOK
<1>4. TypeOK'
  BY <1>c, <1>d, <1>3 DEF IInv, TypeOK
<1>5. CallHeld'
  BY <1>b, <1>c, <1>2, <1>3 DEF IInv, CallHeld
<1>6. /\ PendingContinues' /\ KeysHaveOwners' /\ LedgerBalances' /\ TrialFlagMeansCredited'
      /\ \A t \in Sessions, q \in TrialBonus : KeyVisible(t, q)' <=> KeyVisible(t, q)
  BY <1>c, <1>2, <1>3, Frame
<1>7. PendingTrialCredited'
  <2>1. \A t \in Sessions : work'[t].trial = work[t].trial
    BY <1>2, <1>3
  <2>2. QED BY <2>1, <1>6 DEF IInv, PendingTrialCredited
<1>8. QED BY <1>4, <1>5, <1>6, <1>7 DEF IInv

(* Taking the lock: the copy is the committed wallet and no row is pending. *)
LEMMA EnsureWalletIInv ==
  ASSUME IInv, NEW s \in Sessions, EnsureWallet(s) PROVE IInv'
<1>0. PICK r \in Requests : r = work[s].call /\ r.user \in Users /\ r.amount > 0
  BY RequestFacts DEF IInv, EnsureWallet, CallHeld
<1> DEFINE u == r.user
           w == IF wallet_lock[u] = s THEN work[s].wallet[u] ELSE wallets[u]
           W == [work[s] EXCEPT !.phase = "armed", !.wallet[u] = w]
<1>1. /\ work' = [work EXCEPT ![s] = W]
      /\ wallet_lock[u] \in {NoSession, s}
      /\ wallet_lock' = [wallet_lock EXCEPT ![u] = s]
      /\ work[s].phase = "called"
      /\ UNCHANGED <<wallets, ledger, trial_used, user_lock>>
  BY <1>0 DEF EnsureWallet, IInv, TypeOK
<1>2. /\ W \in Work /\ W.phase = "armed" /\ W.call = r
      /\ W.rows = work[s].rows /\ W.trial = work[s].trial
      /\ W.wallet[u] = w /\ \A v \in Users \ {u} : W.wallet[v] = work[s].wallet[v]
  <2>1. w \in Wallet /\ work[s] \in Work
    BY <1>0 DEF IInv, TypeOK, Work
  <2>2. [work[s].wallet EXCEPT ![u] = w] \in [Users -> Wallet]
    BY <2>1 DEF Work
  <2>3. QED BY <2>1, <2>2, <1>0 DEF Work
<1>3. /\ work' \in [Sessions -> Work] /\ work'[s] = W
      /\ \A t \in Sessions \ {s} : work'[t] = work[t]
      /\ \A t \in Sessions : work'[t].rows = work[t].rows /\ work'[t].trial = work[t].trial
  BY <1>1, <1>2 DEF IInv, TypeOK
<1>l. /\ wallet_lock'[u] = s /\ \A v \in Users \ {u} : wallet_lock'[v] = wallet_lock[v]
      /\ \A t \in Sessions \ {s} : wallet_lock[u] # t
  BY <1>0, <1>1, RequestFacts DEF IInv, TypeOK
<1>4. TypeOK'
  BY <1>0, <1>1, <1>3 DEF IInv, TypeOK
<1>5. CallHeld'
  <2> SUFFICES ASSUME NEW t \in Sessions
               PROVE  (/\ work[t].phase \in {"called", "armed"} =>
                            work[t].call \in Requests /\ work[t].call.amount > 0
                       /\ work[t].phase = "armed" => wallet_lock[work[t].call.user] = t)'
    BY DEF CallHeld
  <2>1. CASE t = s
    BY <2>1, <1>0, <1>2, <1>3, <1>l
  <2>2. CASE t # s
    <3>1. work'[t] = work[t]
      BY <2>2, <1>3
    <3>2. /\ work[t].phase \in {"called", "armed"} =>
               work[t].call \in Requests /\ work[t].call.amount > 0
          /\ work[t].phase = "armed" => wallet_lock[work[t].call.user] = t
      BY DEF IInv, CallHeld
    <3>3. work[t].phase = "armed" => work[t].call.user \in Users \ {u}
      BY <3>2, <2>2, <1>l, RequestFacts
    <3>4. QED BY <3>1, <3>2, <3>3, <1>l
  <2>3. QED BY <2>1, <2>2
<1>6. PendingContinues'
  <2> SUFFICES ASSUME NEW t \in Sessions, NEW v \in Users
               PROVE  (IF wallet_lock[v] = t
                       THEN /\ work[t].phase # "idle"
                            /\ Continues(wallets[v], ledger[v],
                                         work[t].wallet[v], work[t].rows[v])
                       ELSE work[t].rows[v] = <<>>)'
    BY DEF PendingContinues
  <2>0. IF wallet_lock[v] = t
        THEN /\ work[t].phase # "idle"
             /\ Continues(wallets[v], ledger[v], work[t].wallet[v], work[t].rows[v])
        ELSE work[t].rows[v] = <<>>
    BY DEF IInv, PendingContinues
  <2>1. CASE v = u /\ t = s /\ wallet_lock[u] # s
    <3>1. work'[s].rows[u] = <<>> /\ work'[s].wallet[u] = wallets[u]
          /\ work'[s].phase # "idle"
      BY <2>0, <2>1, <1>2, <1>3
    <3>2. Continues(wallets[u], ledger[u], wallets[u], <<>>)
      BY <1>0, StartContinues DEF IInv, LedgerBalances, TypeOK
    <3>3. QED BY <2>1, <3>1, <3>2, <1>1, <1>l
  <2>2. CASE v = u /\ t = s /\ wallet_lock[u] = s
    <3>1. work'[s].rows[u] = work[s].rows[u] /\ work'[s].wallet[u] = work[s].wallet[u]
          /\ work'[s].phase # "idle"
      BY <2>2, <1>2, <1>3
    <3>2. QED BY <2>0, <2>2, <3>1, <1>1, <1>l
  <2>3. CASE v # u /\ t = s
    <3>1. work'[s].rows[v] = work[s].rows[v] /\ work'[s].wallet[v] = work[s].wallet[v]
          /\ work'[s].phase # "idle"
      BY <2>3, <1>2, <1>3
    <3>2. QED BY <2>0, <2>3, <3>1, <1>1, <1>l
  <2>4. CASE t # s
    <3>1. work'[t] = work[t] /\ (wallet_lock'[v] = t <=> wallet_lock[v] = t)
      BY <2>4, <1>3, <1>l
    <3>2. QED BY <2>0, <3>1, <1>1
  <2>5. QED BY <2>1, <2>2, <2>3, <2>4
<1>7. KeysHaveOwners' /\ LedgerBalances' /\ TrialFlagMeansCredited'
  BY <1>1, <1>3 DEF IInv, KeysHaveOwners, LedgerBalances, TrialFlagMeansCredited
<1>8. PendingTrialCredited'
  <2>1. \A t \in Sessions, q \in TrialBonus : KeyVisible(t, q)' <=> KeyVisible(t, q)
    BY <1>1, <1>3 DEF KeyVisible
  <2>2. QED BY <2>1, <1>3 DEF IInv, PendingTrialCredited
<1>9. QED BY <1>4, <1>5, <1>6, <1>7, <1>8 DEF IInv

(* The two ways a call ends without touching the wallet.                    *)
LEMMA LeaveIInv ==
  ASSUME IInv, NEW s \in Sessions, Repeat(s) \/ Refuse(s) PROVE IInv'
<1>0. PICK r \in Requests : r = work[s].call /\ r.user \in Users
  BY RequestFacts DEF IInv, Repeat, Refuse, CallHeld
<1>w. work[s] \in Work /\ work[s].trial \in SUBSET Users
  BY DEF IInv, TypeOK, Work
<1>1. PICK marks \in SUBSET Users :
        /\ work' = [work EXCEPT ![s] = [work[s] EXCEPT !.phase = "open",
                                          !.call = NoRequest, !.trial = marks]]
        /\ \A v \in marks : v \in work[s].trial
             \/ (r \in TrialBonus /\ v = r.user /\ KeyVisible(s, r))
        /\ UNCHANGED <<wallets, ledger, trial_used, wallet_lock, user_lock>>
  <2>1. CASE Repeat(s)
    <3> DEFINE m == work[s].trial \cup Marked(r)
    <3>1. /\ work' = [work EXCEPT ![s] = [work[s] EXCEPT !.phase = "open",
                                            !.call = NoRequest, !.trial = m]]
          /\ KeyVisible(s, r)
          /\ UNCHANGED <<wallets, ledger, trial_used, wallet_lock, user_lock>>
      BY <2>1, <1>0 DEF Repeat
    <3>2. /\ m \in SUBSET Users
          /\ \A v \in m : v \in work[s].trial \/ (r \in TrialBonus /\ v = r.user)
      BY <1>0, <1>w DEF Marked
    <3>3. QED BY <3>1, <3>2
  <2>2. CASE Refuse(s)
    <3> DEFINE m == work[s].trial
    <3>1. [work[s] EXCEPT !.phase = "open", !.call = NoRequest, !.trial = m]
            = [work[s] EXCEPT !.phase = "open", !.call = NoRequest]
      BY <1>w DEF Work
    <3>2. /\ work' = [work EXCEPT ![s] = [work[s] EXCEPT !.phase = "open",
                                            !.call = NoRequest, !.trial = m]]
          /\ UNCHANGED <<wallets, ledger, trial_used, wallet_lock, user_lock>>
      BY <3>1, <2>2 DEF Refuse
    <3>3. QED BY <3>2, <1>w
  <2>3. QED BY <2>1, <2>2
<1> DEFINE W == [work[s] EXCEPT !.phase = "open", !.call = NoRequest, !.trial = marks]
<1>2. W \in Work /\ W.phase = "open" /\ W.trial = marks
      /\ W.rows = work[s].rows /\ W.wallet = work[s].wallet
  BY <1>w DEF Work
<1>3. /\ work' \in [Sessions -> Work] /\ work'[s] = W
      /\ \A t \in Sessions \ {s} : work'[t] = work[t]
  BY <1>1, <1>2 DEF IInv, TypeOK
<1>4. TypeOK'
  BY <1>1, <1>3 DEF IInv, TypeOK
<1>5. CallHeld'
  BY <1>1, <1>2, <1>3 DEF IInv, CallHeld
<1>6. /\ PendingContinues' /\ KeysHaveOwners' /\ LedgerBalances' /\ TrialFlagMeansCredited'
      /\ \A t \in Sessions, q \in TrialBonus : KeyVisible(t, q)' <=> KeyVisible(t, q)
  BY <1>1, <1>2, <1>3, Frame
<1>7. PendingTrialCredited'
  <2> SUFFICES ASSUME NEW t \in Sessions, NEW v \in work'[t].trial
               PROVE  \E q \in TrialBonus : q.user = v /\ KeyVisible(t, q)
    BY <1>6 DEF PendingTrialCredited
  <2>1. CASE v \in work[t].trial
    BY <2>1 DEF IInv, PendingTrialCredited
  <2>2. CASE v \notin work[t].trial
    BY <2>2, <1>1, <1>2, <1>3
  <2>3. QED BY <2>1, <2>2
<1>8. QED BY <1>4, <1>5, <1>6, <1>7 DEF IInv

(* The one step that moves a wallet copy: its new row continues the chain.  *)
LEMMA ApplyIInv ==
  ASSUME IInv, NEW s \in Sessions, Apply(s) PROVE IInv'
<1>r. PICK r \in Requests : r = work[s].call
  BY DEF IInv, Apply, CallHeld
<1> DEFINE u == r.user
           c == work[s].wallet[u]
           w == Moved(c, r)
           x == [key |-> r.key, amount |-> Signed(r), balance_after |-> w.balance]
           q == work[s].rows[u]
           m == work[s].trial \cup Marked(r)
           W == [work[s] EXCEPT !.phase = "open", !.call = NoRequest, !.trial = m,
                                !.wallet[u] = w, !.rows[u] = Append(q, x)]
<1>0. /\ r \in Requests /\ u \in Users /\ r.amount > 0 /\ wallet_lock[u] = s
      /\ r.key \in Keys /\ r.kind \in Kinds /\ r.amount \in Int
      /\ work[s] \in Work /\ c \in Wallet /\ q \in Seq(Row)
  BY <1>r, RequestFacts DEF IInv, Apply, CallHeld, TypeOK, Work
<1>00. /\ work[s].phase = "armed" /\ ~KeyVisible(s, r)
       /\ r.kind = "grant" \/ c.balance >= r.amount
       /\ UNCHANGED <<wallets, ledger, trial_used, wallet_lock, user_lock>>
  BY <1>r DEF Apply
<1>01. work' = [work EXCEPT ![s] = W]
  BY <1>r DEF Apply
<1>a. /\ w \in Wallet /\ w.balance = c.balance + Signed(r) /\ Signed(r) \in Int
      /\ Consistent(c) => Consistent(w)
  BY <1>0, <1>00, MovedFacts
<1>b. x \in Row /\ x.amount = Signed(r) /\ x.balance_after = w.balance /\ x.key = r.key
  BY <1>0, <1>a DEF Row, Wallet
<1>d. Append(q, x) \in Seq(Row)
  BY <1>0, <1>b
<1>e. /\ W \in Work /\ W.phase = "open" /\ W.trial = m
      /\ W.wallet[u] = w /\ W.rows[u] = Append(q, x)
      /\ \A v \in Users \ {u} : /\ W.wallet[v] = work[s].wallet[v]
                                /\ W.rows[v] = work[s].rows[v]
  <2>1. [work[s].wallet EXCEPT ![u] = w] \in [Users -> Wallet]
    BY <1>0, <1>a DEF Work
  <2>2. [work[s].rows EXCEPT ![u] = Append(q, x)] \in [Users -> Seq(Row)]
    BY <1>0, <1>d DEF Work
  <2>3. m \in SUBSET Users
    BY <1>0 DEF Work, Marked
  <2>4. QED BY <1>0, <2>1, <2>2, <2>3 DEF Work
<1>c. /\ work'[s].wallet[u] = w /\ work'[s].rows[u] = Append(q, x)
      /\ work'[s].phase = "open" /\ work'[s].trial = m
      /\ \A v \in Users \ {u} : /\ work'[s].wallet[v] = work[s].wallet[v]
                                /\ work'[s].rows[v] = work[s].rows[v]
      /\ \A t \in Sessions \ {s} : work'[t] = work[t]
      /\ work' \in [Sessions -> Work]
  BY <1>e, <1>01 DEF IInv, TypeOK
<1>1. TypeOK'
  BY <1>00, <1>c DEF IInv, TypeOK
<1>2. CallHeld'
  BY <1>00, <1>c DEF IInv, CallHeld
<1>k. ~HasKey(ledger[u], r.key) /\ ~HasKey(q, r.key)
  BY <1>00 DEF KeyVisible
<1>3. PendingContinues'
  <2> SUFFICES ASSUME NEW t \in Sessions, NEW v \in Users
               PROVE  (IF wallet_lock[v] = t
                       THEN /\ work[t].phase # "idle"
                            /\ Continues(wallets[v], ledger[v],
                                         work[t].wallet[v], work[t].rows[v])
                       ELSE work[t].rows[v] = <<>>)'
    BY DEF PendingContinues
  <2>0. IF wallet_lock[v] = t
        THEN /\ work[t].phase # "idle"
             /\ Continues(wallets[v], ledger[v], work[t].wallet[v], work[t].rows[v])
        ELSE work[t].rows[v] = <<>>
    BY DEF IInv, PendingContinues
  <2>1. CASE t = s /\ v = u
    <3>1. wallets[u] \in Wallet /\ Continues(wallets[u], ledger[u], c, q) /\ Consistent(c)
      BY <2>0, <2>1, <1>0 DEF IInv, TypeOK, Continues
    <3>2. Continues(wallets[u], ledger[u], w, Append(q, x))
      BY <3>1, <1>0, <1>a, <1>b, <1>k, ApplyContinues
    <3>3. QED BY <2>1, <3>2, <1>c, <1>00, <1>0
  <2>2. CASE t = s /\ v # u
    <3>1. work'[t].rows[v] = work[t].rows[v] /\ work'[t].wallet[v] = work[t].wallet[v]
          /\ work'[t].phase # "idle"
      BY <2>2, <1>c
    <3>2. QED BY <2>0, <3>1, <1>00
  <2>3. CASE t # s
    BY <2>0, <2>3, <1>c, <1>00
  <2>4. QED BY <2>1, <2>2, <2>3
<1>4. KeysHaveOwners'
  <2>1. OwnKeys(u, Append(q, x))
    <3>1. OwnKeys(u, q)
      BY <1>0 DEF IInv, KeysHaveOwners
    <3>2. QED BY <3>1, <1>0, <1>b, AppendKeys
  <2>2. \A t \in Sessions, v \in Users : OwnKeys(v, work'[t].rows[v])
    BY <2>1, <1>c DEF IInv, KeysHaveOwners
  <2>3. \A v \in Users : OwnKeys(v, ledger'[v]) /\ DistinctKeys(ledger'[v])
    BY <1>00 DEF IInv, KeysHaveOwners
  <2>4. QED BY <2>2, <2>3 DEF KeysHaveOwners, OwnKeys, DistinctKeys
<1>5. LedgerBalances' /\ TrialFlagMeansCredited'
  BY <1>00 DEF IInv, LedgerBalances, TrialFlagMeansCredited
<1>6. PendingTrialCredited'
  <2> SUFFICES ASSUME NEW t \in Sessions, NEW v \in work'[t].trial
               PROVE  \E p \in TrialBonus : p.user = v /\ KeyVisible(t, p)'
    BY DEF PendingTrialCredited
  <2>1. \A p \in TrialBonus : KeyVisible(t, p) => KeyVisible(t, p)'
    <3> SUFFICES ASSUME NEW p \in TrialBonus, KeyVisible(t, p) PROVE KeyVisible(t, p)'
      OBVIOUS
    <3>1. CASE t = s /\ p.user = u
      <4>1. HasKey(ledger[u], p.key) \/ HasKey(q, p.key)
        BY <3>1 DEF KeyVisible
      <4>2. HasKey(q, p.key) => HasKey(Append(q, x), p.key)
        BY <1>0, <1>b, AppendKeys
      <4>3. HasKey(ledger'[u], p.key) \/ HasKey(work'[s].rows[u], p.key)
        BY <4>1, <4>2, <1>c, <1>00
      <4>4. QED BY <3>1, <4>3 DEF KeyVisible
    <3>2. CASE ~(t = s /\ p.user = u)
      <4>1. p.user \in Users
        BY RequestFacts
      <4>2. work'[t].rows[p.user] = work[t].rows[p.user]
        BY <3>2, <4>1, <1>c
      <4>3. QED BY <4>2, <1>00 DEF KeyVisible
    <3>3. QED BY <3>1, <3>2
  <2>2. CASE v \in work[t].trial
    BY <2>1, <2>2 DEF IInv, PendingTrialCredited
  <2>3. CASE v \notin work[t].trial
    <3>1. t = s /\ r \in TrialBonus /\ v = u
      BY <2>3, <1>c DEF Marked
    <3>2. HasKey(Append(q, x), r.key)
      BY <1>0, <1>b, AppendKeys
    <3>3. KeyVisible(s, r)'
      BY <3>2, <1>c DEF KeyVisible
    <3>4. QED BY <3>1, <3>3
  <2>4. QED BY <2>2, <2>3
<1>7. QED BY <1>1, <1>2, <1>3, <1>4, <1>5, <1>6 DEF IInv

(* The write-back: the pending rows join the ledger with the copy they led to. *)
LEMMA CommitIInv ==
  ASSUME IInv, NEW s \in Sessions, Commit(s) PROVE IInv'
<1>1. /\ work' = [work EXCEPT ![s] = Idle]
      /\ work'[s] = Idle /\ \A t \in Sessions \ {s} : work'[t] = work[t]
  BY DEF Commit, IInv, TypeOK
<1>2. \A v \in Users :
        /\ wallets'[v] = IF wallet_lock[v] = s THEN work[s].wallet[v] ELSE wallets[v]
        /\ ledger'[v] = ledger[v] \o work[s].rows[v]
        /\ trial_used'[v] = (trial_used[v] \/ v \in work[s].trial)
        /\ wallet_lock'[v] = IF wallet_lock[v] = s THEN NoSession ELSE wallet_lock[v]
  BY DEF Commit, Released
<1>3. Idle \in Work /\ Idle.phase = "idle" /\ Idle.trial = {}
      /\ \A v \in Users : Idle.rows[v] = <<>>
  BY DEF Idle, Work, Wallet, EmptyWallet
<1>4. \A v \in Users : /\ wallets[v] \in Wallet /\ ledger[v] \in Seq(Row)
                       /\ work[s].wallet[v] \in Wallet /\ work[s].rows[v] \in Seq(Row)
  BY DEF IInv, TypeOK, Work
<1>5. \A v \in Users : wallet_lock[v] # s =>
        work[s].rows[v] = <<>> /\ ledger'[v] = ledger[v] /\ wallets'[v] = wallets[v]
  <2>1. \A v \in Users : wallet_lock[v] # s => work[s].rows[v] = <<>>
    BY DEF IInv, PendingContinues
  <2>2. \A v \in Users : work[s].rows[v] = <<>> => ledger[v] \o work[s].rows[v] = ledger[v]
    BY <1>4, ConcatFacts
  <2>3. QED BY <2>1, <2>2, <1>2
<1>6. TypeOK'
  <2>1. wallets' \in [Users -> Wallet]
    BY <1>4 DEF Commit
  <2>2. ledger' \in [Users -> Seq(Row)]
    BY <1>4 DEF Commit
  <2>3. trial_used' \in [Users -> BOOLEAN]
    BY DEF Commit
  <2>4. /\ wallet_lock' \in [Users -> Sessions \cup {NoSession}]
        /\ user_lock' \in [Users -> Sessions \cup {NoSession}]
    BY DEF Commit, Released, IInv, TypeOK
  <2>5. work' \in [Sessions -> Work]
    BY <1>1, <1>3 DEF IInv, TypeOK
  <2>6. QED BY <2>1, <2>2, <2>3, <2>4, <2>5 DEF TypeOK
<1>7. CallHeld'
  <2> SUFFICES ASSUME NEW t \in Sessions
               PROVE  (/\ work[t].phase \in {"called", "armed"} =>
                            work[t].call \in Requests /\ work[t].call.amount > 0
                       /\ work[t].phase = "armed" => wallet_lock[work[t].call.user] = t)'
    BY DEF CallHeld
  <2>1. CASE t = s
    BY <2>1, <1>1, <1>3
  <2>2. CASE t # s
    <3>1. work'[t] = work[t]
      BY <2>2, <1>1
    <3>2. /\ work[t].phase \in {"called", "armed"} =>
               work[t].call \in Requests /\ work[t].call.amount > 0
          /\ work[t].phase = "armed" => wallet_lock[work[t].call.user] = t
      BY DEF IInv, CallHeld
    <3>3. QED BY <3>1, <3>2, <2>2, <1>2, RequestFacts
  <2>3. QED BY <2>1, <2>2
<1>8. PendingContinues'
  <2> SUFFICES ASSUME NEW t \in Sessions, NEW v \in Users
               PROVE  (IF wallet_lock[v] = t
                       THEN /\ work[t].phase # "idle"
                            /\ Continues(wallets[v], ledger[v],
                                         work[t].wallet[v], work[t].rows[v])
                       ELSE work[t].rows[v] = <<>>)'
    BY DEF PendingContinues
  <2>0. IF wallet_lock[v] = t
        THEN /\ work[t].phase # "idle"
             /\ Continues(wallets[v], ledger[v], work[t].wallet[v], work[t].rows[v])
        ELSE work[t].rows[v] = <<>>
    BY DEF IInv, PendingContinues
  <2>1. CASE t = s
    <3>1. work'[s].rows[v] = <<>> /\ wallet_lock'[v] # s
      BY <1>1, <1>2, <1>3, RequestFacts
    <3>2. QED BY <2>1, <3>1
  <2>2. CASE t # s /\ wallet_lock[v] = t
    <3>1. /\ work'[t] = work[t] /\ wallets'[v] = wallets[v] /\ ledger'[v] = ledger[v]
          /\ wallet_lock'[v] = t
      BY <2>2, <1>1, <1>2, <1>5
    <3>2. QED BY <2>0, <2>2, <3>1
  <2>3. CASE t # s /\ wallet_lock[v] # t
    <3>1. wallet_lock'[v] # t
      BY <2>3, <1>2, RequestFacts
    <3>2. QED BY <2>0, <2>3, <3>1, <1>1
  <2>4. QED BY <2>1, <2>2, <2>3
<1>9. \A v \in Users : wallet_lock[v] = s =>
        /\ Chained(0, ledger'[v]) /\ wallets'[v].balance = Closing(0, ledger'[v])
        /\ Consistent(wallets'[v]) /\ DistinctKeys(ledger'[v])
  <2> SUFFICES ASSUME NEW v \in Users, wallet_lock[v] = s
               PROVE  /\ Chained(0, ledger'[v])
                      /\ wallets'[v].balance = Closing(0, ledger'[v])
                      /\ Consistent(wallets'[v]) /\ DistinctKeys(ledger'[v])
    OBVIOUS
  <2>1. Continues(wallets[v], ledger[v], work[s].wallet[v], work[s].rows[v])
    BY DEF IInv, PendingContinues
  <2>2. Chained(0, ledger[v]) /\ wallets[v].balance = Closing(0, ledger[v])
        /\ DistinctKeys(ledger[v])
    BY DEF IInv, LedgerBalances, KeysHaveOwners
  <2>3. /\ Chained(0, ledger[v] \o work[s].rows[v])
        /\ work[s].wallet[v].balance = Closing(0, ledger[v] \o work[s].rows[v])
        /\ DistinctKeys(ledger[v] \o work[s].rows[v])
    BY <2>1, <2>2, <1>4, CommitContinues
  <2>4. Consistent(work[s].wallet[v])
    BY <2>1 DEF Continues
  <2>5. QED BY <2>3, <2>4, <1>2
<1>10. LedgerBalances'
  <2>1. \A v \in Users : wallet_lock[v] # s =>
          /\ Chained(0, ledger'[v]) /\ wallets'[v].balance = Closing(0, ledger'[v])
          /\ Consistent(wallets'[v])
    BY <1>5 DEF IInv, LedgerBalances
  <2>2. QED BY <2>1, <1>9 DEF LedgerBalances
<1>11. KeysHaveOwners'
  <2>1. ASSUME NEW v \in Users PROVE OwnKeys(v, ledger'[v])
    <3>1. OwnKeys(v, ledger[v]) /\ OwnKeys(v, work[s].rows[v])
      BY DEF IInv, KeysHaveOwners
    <3>2. QED BY <3>1, <1>2, <1>4, ConcatKeys
  <2>2. \A v \in Users : DistinctKeys(ledger'[v])
    BY <1>5, <1>9 DEF IInv, KeysHaveOwners
  <2>3. ASSUME NEW v \in Users, NEW t \in Sessions PROVE OwnKeys(v, work'[t].rows[v])
    <3>1. OwnKeys(v, <<>>) /\ OwnKeys(v, work[t].rows[v])
      BY DEF OwnKeys, IInv, KeysHaveOwners
    <3>2. QED BY <3>1, <1>1, <1>3
  <2>4. QED BY <2>1, <2>2, <2>3 DEF KeysHaveOwners, OwnKeys, DistinctKeys
<1>12. \A v \in Users : \A k :
         HasKey(ledger'[v], k) <=> HasKey(ledger[v], k) \/ HasKey(work[s].rows[v], k)
  <2> SUFFICES ASSUME NEW v \in Users
               PROVE  \A k : HasKey(ledger'[v], k)
                               <=> HasKey(ledger[v], k) \/ HasKey(work[s].rows[v], k)
    OBVIOUS
  <2>1. \A k : HasKey(ledger[v] \o work[s].rows[v], k)
                 <=> HasKey(ledger[v], k) \/ HasKey(work[s].rows[v], k)
    BY <1>4, ConcatKeys
  <2>2. QED BY <2>1, <1>2
<1>13. TrialFlagMeansCredited'
  <2> SUFFICES ASSUME NEW v \in Users, trial_used'[v]
               PROVE  \E p \in TrialBonus : p.user = v /\ HasKey(ledger'[v], p.key)
    BY DEF TrialFlagMeansCredited
  <2>1. CASE trial_used[v]
    BY <2>1, <1>12 DEF IInv, TrialFlagMeansCredited
  <2>2. CASE v \in work[s].trial
    BY <2>2, <1>12 DEF IInv, PendingTrialCredited, KeyVisible
  <2>3. QED BY <2>1, <2>2, <1>2
<1>14. PendingTrialCredited'
  <2> SUFFICES ASSUME NEW t \in Sessions, NEW v \in work'[t].trial
               PROVE  \E p \in TrialBonus : p.user = v /\ KeyVisible(t, p)'
    BY DEF PendingTrialCredited
  <2>1. t # s /\ work'[t] = work[t]
    BY <1>1, <1>3
  <2>2. PICK p \in TrialBonus : p.user = v /\ KeyVisible(t, p)
    BY <2>1 DEF IInv, PendingTrialCredited
  <2>3. p.user \in Users
    BY RequestFacts
  <2>4. HasKey(ledger'[p.user], p.key) \/ HasKey(work'[t].rows[p.user], p.key)
    BY <2>1, <2>2, <2>3, <1>12 DEF KeyVisible
  <2>5. QED BY <2>2, <2>4 DEF KeyVisible
<1>15. QED BY <1>6, <1>7, <1>8, <1>10, <1>11, <1>13, <1>14 DEF IInv

(* A rollback forgets the copy and the rows and releases the locks.         *)
LEMMA RollbackIInv ==
  ASSUME IInv, NEW s \in Sessions, Rollback(s) PROVE IInv'
<1>1. /\ work'[s] = Idle /\ \A t \in Sessions \ {s} : work'[t] = work[t]
      /\ UNCHANGED <<wallets, ledger, trial_used>>
  BY DEF Rollback, IInv, TypeOK
<1>2. \A v \in Users :
        wallet_lock'[v] = IF wallet_lock[v] = s THEN NoSession ELSE wallet_lock[v]
  BY DEF Rollback, Released
<1>3. Idle \in Work /\ Idle.phase = "idle" /\ Idle.trial = {}
      /\ \A v \in Users : Idle.rows[v] = <<>>
  BY DEF Idle, Work, Wallet, EmptyWallet
<1>4. TypeOK'
  <2>1. /\ wallet_lock' \in [Users -> Sessions \cup {NoSession}]
        /\ user_lock' \in [Users -> Sessions \cup {NoSession}]
    BY DEF Rollback, Released, IInv, TypeOK
  <2>2. work' \in [Sessions -> Work]
    BY <1>3 DEF Rollback, IInv, TypeOK
  <2>3. QED BY <2>1, <2>2, <1>1 DEF IInv, TypeOK
<1>5. CallHeld'
  <2> SUFFICES ASSUME NEW t \in Sessions
               PROVE  (/\ work[t].phase \in {"called", "armed"} =>
                            work[t].call \in Requests /\ work[t].call.amount > 0
                       /\ work[t].phase = "armed" => wallet_lock[work[t].call.user] = t)'
    BY DEF CallHeld
  <2>1. CASE t = s
    BY <2>1, <1>1, <1>3
  <2>2. CASE t # s
    <3>1. work'[t] = work[t]
      BY <2>2, <1>1
    <3>2. /\ work[t].phase \in {"called", "armed"} =>
               work[t].call \in Requests /\ work[t].call.amount > 0
          /\ work[t].phase = "armed" => wallet_lock[work[t].call.user] = t
      BY DEF IInv, CallHeld
    <3>3. QED BY <3>1, <3>2, <2>2, <1>2, RequestFacts
  <2>3. QED BY <2>1, <2>2
<1>6. PendingContinues'
  <2> SUFFICES ASSUME NEW t \in Sessions, NEW v \in Users
               PROVE  (IF wallet_lock[v] = t
                       THEN /\ work[t].phase # "idle"
                            /\ Continues(wallets[v], ledger[v],
                                         work[t].wallet[v], work[t].rows[v])
                       ELSE work[t].rows[v] = <<>>)'
    BY DEF PendingContinues
  <2>0. IF wallet_lock[v] = t
        THEN /\ work[t].phase # "idle"
             /\ Continues(wallets[v], ledger[v], work[t].wallet[v], work[t].rows[v])
        ELSE work[t].rows[v] = <<>>
    BY DEF IInv, PendingContinues
  <2>1. CASE t = s
    <3>1. work'[s].rows[v] = <<>> /\ wallet_lock'[v] # s
      BY <1>1, <1>2, <1>3, RequestFacts
    <3>2. QED BY <2>1, <3>1
  <2>2. CASE t # s
    <3>1. work'[t] = work[t] /\ (wallet_lock'[v] = t <=> wallet_lock[v] = t)
      BY <2>2, <1>1, <1>2, RequestFacts
    <3>2. QED BY <2>0, <3>1, <1>1
  <2>3. QED BY <2>1, <2>2
<1>7. LedgerBalances' /\ TrialFlagMeansCredited'
  BY <1>1 DEF IInv, LedgerBalances, TrialFlagMeansCredited
<1>8. KeysHaveOwners'
  <2>1. ASSUME NEW v \in Users, NEW t \in Sessions PROVE OwnKeys(v, work'[t].rows[v])
    <3>1. OwnKeys(v, <<>>) /\ OwnKeys(v, work[t].rows[v])
      BY DEF OwnKeys, IInv, KeysHaveOwners
    <3>2. QED BY <3>1, <1>1, <1>3
  <2>2. QED BY <2>1, <1>1 DEF IInv, KeysHaveOwners, OwnKeys, DistinctKeys
<1>9. PendingTrialCredited'
  <2> SUFFICES ASSUME NEW t \in Sessions, NEW v \in work'[t].trial
               PROVE  \E p \in TrialBonus : p.user = v /\ KeyVisible(t, p)'
    BY DEF PendingTrialCredited
  <2>1. t # s /\ work'[t] = work[t]
    BY <1>1, <1>3
  <2>2. QED BY <2>1, <1>1 DEF IInv, PendingTrialCredited, KeyVisible
<1>10. QED BY <1>4, <1>5, <1>6, <1>7, <1>8, <1>9 DEF IInv

(* Clearing a trial flag only weakens what the flag promises.               *)
LEMMA ResetTrialIInv ==
  ASSUME IInv, NEW u \in Users, ResetTrial(u) PROVE IInv'
<1>1. UNCHANGED <<wallets, ledger, wallet_lock, user_lock, work>>
  BY DEF ResetTrial
<1>2. trial_used' \in [Users -> BOOLEAN] /\ \A v \in Users : trial_used'[v] => trial_used[v]
  BY DEF ResetTrial, IInv, TypeOK
<1>3. TypeOK' /\ CallHeld' /\ PendingContinues'
  BY <1>1, <1>2 DEF IInv, TypeOK, CallHeld, PendingContinues
<1>4. KeysHaveOwners' /\ LedgerBalances'
  BY <1>1 DEF IInv, KeysHaveOwners, LedgerBalances
<1>5. PendingTrialCredited' /\ TrialFlagMeansCredited'
  BY <1>1, <1>2 DEF IInv, PendingTrialCredited, TrialFlagMeansCredited, KeyVisible
<1>6. QED BY <1>3, <1>4, <1>5 DEF IInv

(* Every step preserves the inductive invariant.                            *)
LEMMA NextIInv == IInv /\ [Next]_vars => IInv'
<1> SUFFICES ASSUME IInv, [Next]_vars PROVE IInv'
  OBVIOUS
<1>1. CASE UNCHANGED vars
  <2>1. UNCHANGED <<wallets, ledger, trial_used, wallet_lock, user_lock, work>>
    BY <1>1 DEF vars
  <2>2. TypeOK' /\ CallHeld' /\ PendingContinues'
    BY <2>1 DEF IInv, TypeOK, CallHeld, PendingContinues
  <2>3. KeysHaveOwners' /\ LedgerBalances'
    BY <2>1 DEF IInv, KeysHaveOwners, LedgerBalances
  <2>4. PendingTrialCredited' /\ TrialFlagMeansCredited'
    BY <2>1 DEF IInv, PendingTrialCredited, TrialFlagMeansCredited, KeyVisible
  <2>5. QED BY <2>2, <2>3, <2>4 DEF IInv
<1>2. CASE Next
  <2>1. CASE \E s \in Sessions, r \in Requests : Call(s, r) \/ ActivateTrial(s, r)
    BY <2>1, EnterIInv
  <2>2. CASE \E s \in Sessions : EnsureWallet(s)
    BY <2>2, EnsureWalletIInv
  <2>3. CASE \E s \in Sessions : Repeat(s) \/ Refuse(s)
    BY <2>3, LeaveIInv
  <2>4. CASE \E s \in Sessions : Apply(s)
    BY <2>4, ApplyIInv
  <2>5. CASE \E s \in Sessions : Commit(s)
    BY <2>5, CommitIInv
  <2>6. CASE \E s \in Sessions : Rollback(s)
    BY <2>6, RollbackIInv
  <2>7. CASE \E u \in Users : ResetTrial(u)
    BY <2>7, ResetTrialIInv
  <2>8. QED BY <1>2, <2>1, <2>2, <2>3, <2>4, <2>5, <2>6, <2>7 DEF Next
<1>3. QED BY <1>1, <1>2

(* Whatever the sessions do, IInv holds: an open transaction's rows lead    *)
(* from the committed balance to its copy, and only the lock holder has any. *)
THEOREM SpecIInv == Spec => []IInv
<1>1. Init => IInv
  BY InitIInv
<1>2. IInv /\ [Next]_vars => IInv'
  BY NextIInv
<1>3. QED BY <1>1, <1>2, PTL DEF Spec

-----------------------------------------------------------------------------
(* The rows of different users have different keys because a key names its  *)
(* user, and those of one user because transaction_by_key is read under the *)
(* wallet lock.                                                             *)
LEMMA IInvKeys == IInv => KeyAppliedOnce
<1> SUFFICES ASSUME IInv, NEW u \in Users, NEW v \in Users,
                    NEW i \in 1..Len(ledger[u]), NEW j \in 1..Len(ledger[v]),
                    ledger[u][i].key = ledger[v][j].key
             PROVE  u = v /\ i = j
  BY DEF KeyAppliedOnce
<1>1. PICK r \in Requests : r.user = u /\ r.key = ledger[u][i].key
  BY DEF IInv, KeysHaveOwners, OwnKeys
<1>2. PICK q \in Requests : q.user = v /\ q.key = ledger[v][j].key
  BY DEF IInv, KeysHaveOwners, OwnKeys
<1>3. u = v
  BY <1>1, <1>2, RequestAssumption
<1>4. QED BY <1>3 DEF IInv, KeysHaveOwners, DistinctKeys

(* The tables keep their types: no wallet, committed or pending, is ever    *)
(* overdrawn by deduct or spend.                                            *)
THEOREM TypeCorrect == Spec => []TypeOK
<1>1. IInv => TypeOK
  BY DEF IInv
<1>2. QED BY <1>1, SpecIInv, PTL

(* The committed balance of every wallet is the end of its ledger's chain   *)
(* and what it earned less what it spent.                                   *)
THEOREM BalancesCorrect == Spec => []LedgerBalances
<1>1. IInv => LedgerBalances
  BY DEF IInv
<1>2. QED BY <1>1, SpecIInv, PTL

(* An idempotency key is applied at most once, without the unique index.    *)
THEOREM KeysCorrect == Spec => []KeyAppliedOnce
<1>1. IInv => KeyAppliedOnce
  BY IInvKeys
<1>2. QED BY <1>1, SpecIInv, PTL

(* A set trial flag always has the bonus row beside it.                     *)
THEOREM TrialCorrect == Spec => []TrialFlagMeansCredited
<1>1. IInv => TrialFlagMeansCredited
  BY DEF IInv
<1>2. QED BY <1>1, SpecIInv, PTL

(* No step removes or rewrites a ledger row, and none moves a balance       *)
(* without a row: the action property follows from the invariant.           *)
THEOREM LedgerAppendOnly == Spec => LedgerOnlyGrows
<1> DEFINE Grows == \A u \in Users :
       /\ Len(ledger'[u]) >= Len(ledger[u])
       /\ \A i \in 1..Len(ledger[u]) : ledger'[u][i] = ledger[u][i]
       /\ ledger'[u] = ledger[u] => wallets'[u] = wallets[u]
<1>1. ASSUME IInv, [Next]_vars PROVE [Grows]_vars
  <2>0. \A u \in Users : Len(ledger[u]) \in Nat
    BY <1>1 DEF IInv, TypeOK
  <2>1. CASE UNCHANGED <<wallets, ledger>>
    BY <2>0, <2>1
  <2>2. CASE \E s \in Sessions : Commit(s)
    <3>1. PICK s \in Sessions : Commit(s)
      BY <2>2
    <3> SUFFICES ASSUME NEW u \in Users
                 PROVE  /\ Len(ledger'[u]) >= Len(ledger[u])
                        /\ \A i \in 1..Len(ledger[u]) : ledger'[u][i] = ledger[u][i]
                        /\ ledger'[u] = ledger[u] => wallets'[u] = wallets[u]
      OBVIOUS
    <3> DEFINE a == ledger[u]
               b == work[s].rows[u]
    <3>2. ledger'[u] = a \o b
      BY <3>1 DEF Commit
    <3>3. a \in Seq(Row) /\ b \in Seq(Row)
      BY <1>1 DEF IInv, TypeOK, Work
    <3>4. /\ Len(a \o b) >= Len(a)
          /\ b = <<>> <=> a \o b = a
          /\ \A i \in 1..Len(a) : (a \o b)[i] = a[i]
      BY <3>3, ConcatFacts
    <3>6. b = <<>> /\ wallet_lock[u] = s => work[s].wallet[u] = wallets[u]
      BY <1>1 DEF IInv, PendingContinues, Continues
    <3>7. b = <<>> => wallets'[u] = wallets[u]
      BY <3>1, <3>6 DEF Commit
    <3>8. QED BY <3>2, <3>4, <3>7
  <2>3. QED BY <1>1, <2>1, <2>2
        DEF Next, vars, Call, ActivateTrial, EnsureWallet, Repeat, Refuse, Apply,
            Rollback, ResetTrial
<1>2. QED BY <1>1, SpecIInv, PTL DEF Spec, LedgerOnlyGrows
=============================================================================
