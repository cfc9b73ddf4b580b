SPECIFICATION RewardsSpec
CONSTANTS
  root = root
  host = host
  ann = ann
  bob = bob
  cid = cid
  s1 = s1
  s2 = s2
  Users = {root, host, ann, bob, cid}
  Transactions = {s1, s2}
  Inviter <- Family
  Target = 1
  NoUser = NoUser
  NoTransaction = NoTransaction
INVARIANTS
  RewardPaidOnce
  PaidRewardsUplines
