SPECIFICATION Spec
CONSTANTS
  Zero = Zero
  Unknown = Unknown
  ChunkSize = 2
  MaxCalls = 6
  MaxLen = 5
  MaxRecords = 12
  InsSize = 4
  WordSize = 2
  MaxScopes = 2
  MaxNames = 4
  Half = 4
  MaxWords = 4
  a = a
  b = b
  c = c
  EntryNames = {a, b, c}
  Values = {1, 2}
  Buckets <- TwoBuckets
  HashOf <- HashTwo
  Elements = {a, b}
  Keys = {a, b, c}
  MapValues = {1}
  MapBuckets <- TwoBuckets
  MapHash <- HashTwo
INVARIANTS
  NamesFound
  MapHolds
  ArrayHolds
  Navigates
  NamesResolve
  ChainExact
  FlagsTell
  LoadsMeant
  JsonReads
  ComesBack
  CallsAnswered
CHECK_DEADLOCK FALSE
