CONSTANTS
  Addr <- MCAddr
  Source = {"s", "t"}
  Heard <- MCHeard
  GetTriedBucket <- MCTried
  GetNewBucket <- MCNew
  TriedBucket = {1, 2}
  NewBucket = {1, 2}
  ADDRMAN_TRIED_BUCKET_SIZE = 2
  ADDRMAN_NEW_BUCKET_SIZE = 1
  ADDRMAN_NEW_BUCKETS_PER_ADDRESS = 2
  ADDRMAN_TRIED_ENTRIES_INSPECT_ON_EVICT = 2
  ADDRMAN_GETADDR_MAX_PCT = 25
  MaxId = 4
SPECIFICATION Spec
INVARIANTS Check BucketsBounded
PROPERTIES TriedKept ReloadKeepsTables
