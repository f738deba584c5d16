CONSTANTS
  Parts = {"sharding"}
  base = base
  left = left
  right = right
  both = both
  rival = rival
  Hashes <- MCHashes
  ShardOf <- MCShardOf
  NeedOf <- MCNeedOf
  Deps <- MCDeps
  Shards = {s1, s2, s3}
  MaxCalls = 6
  Nobody = Nobody
  Accounts = {accused, accuser}
  Threads = {t1}
  EscrowIds = {e1}
  UnbondingIds = {u1}
  BountyIds = {b1}
  Accused = {{accused}}
  Accusers = {accuser}
  Honest = {{accuser}}
  Amounts = {2, 4}
  MAX_SUPPLY = 6
SPECIFICATION PartSpec
INVARIANT CascadeReachesWaiters
CHECK_DEADLOCK FALSE
