SPECIFICATION FairSpec
CONSTANTS
  Request = {r1, r2, r3}
  Key = {k1}
  Replies <- MCReplies
  TTL200 = 1
  TTL4xx = 1
  MaxClock = 5
  None = None
INVARIANTS TypeOK EntriesBelong NegativeCacheShields
PROPERTY EvictOnlyExpired ImplementsOrigin ExpiredReclaimed
CHECK_DEADLOCK FALSE
