SPECIFICATION KernelSpec
CONSTANTS
  b0 = b0
  bS = bS
  k1 = k1
  v1 = v1
  name = name
  BucketIds <- MCBuckets
  PublicBucket = b0
  ServerOnlyBucket = bS
  Keys = {k1}
  Values = {v1}
  Null = Null
  Absent = Absent
  NoTx = NoTx
  RawNames = {name, Empty}
  LegalNames = {name}
  Trim <- MCTrim
  FlagBits = {}
  Images = {}
  MaxRoomId = 2
  MaxCounter = 4
  Tasks = {t1, t2}
  Ops = {"NewRoom", "NewBucket", "DeleteBucket", "NewMember", "DeleteMember", "WriteFragment", "LoadRoom", "UnloadRoom", "DeleteRoom"}
  Empty = Empty
  None = None
  Free = Free
  Unknown = Unknown
  MaxCommands = 4
  MaxCrashes = 1
  MaxFaults = 1
SYMMETRY Interchangeable
INVARIANTS
  KernelTypeOK
  UnloadedRoomHoldsNothing
  FreshIdsHoldNoData
  AckedWritesAreDurable
  BroadcastNotTooOld
CHECK_DEADLOCK FALSE
