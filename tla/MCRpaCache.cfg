SPECIFICATION Spec
CONSTANTS
  Buckets <- MCBuckets
  Bucket <- MCBucket
  RecMax = 1
  Keys <- MCKeys
  Rets <- MCRets
  RecordLists <- MCRecordLists
  MaxExecs = 2
  MaxOpen = 2
INVARIANTS
  TableSound
PROPERTY MemoSpec
