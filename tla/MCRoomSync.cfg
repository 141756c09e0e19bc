SPECIFICATION SyncSpec
CONSTANTS
  b0 = b0
  b1 = b1
  bS = bS
  k1 = k1
  v1 = v1
  f1 = f1
  BucketIds <- MCBuckets
  PublicBucket = b0
  ServerOnlyBucket = bS
  Keys = {k1}
  Values = {v1}
  Null = Null
  Absent = Absent
  NoTx = NoTx
  NoView = NoView
  RawNames = {}
  LegalNames = {}
  Trim <- MCTrim
  FlagBits = {f1}
  Images <- MCImages
  MaxRoomId = 1
  MaxCounter = 3
INVARIANTS
  SyncTypeOK
  VersionsIdentifyWrites
  BucketMapsAgree
  CommitMatchesLoop
  DeltaCompletesView
  ViewStaysInGrant
PROPERTIES
  VersionsNeverReused
  TxHidesWrites
CHECK_DEADLOCK FALSE
