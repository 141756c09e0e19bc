SPECIFICATION TokenSpec
CONSTANTS
  b0 = b0
  bS = bS
  k1 = k1
  v1 = v1
  name = name
  padded = padded
  blank = blank
  BucketIds <- MCBuckets
  PublicBucket = b0
  ServerOnlyBucket = bS
  Keys = {k1}
  Values = {v1}
  Null = Null
  Absent = Absent
  NoTx = NoTx
  RawNames = {name, padded, blank}
  LegalNames = {name}
  Trim <- MCTrim
  FlagBits = {}
  Images <- MCImages
  MaxRoomId = 2
  MaxCounter = 0
  Empty = blank
  Ttl = 1
  MaxTime = 3
  Never = Never
  MaxTokens = 2
INVARIANTS
  TypeOK
  LabelsNameLiveRooms
  TokenTypeOK
  ExpiriesIncrease
  HonouredForItsTtl
PROPERTIES
  RoomIdsNeverReused
CHECK_DEADLOCK FALSE
