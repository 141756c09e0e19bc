SPECIFICATION Spec
CONSTANTS
  c1 = c1
  c2 = c2
  r1 = r1
  r2 = r2
  b0 = b0
  bS = bS
  Conns = {c1, c2}
  Writers = {w1}
  Rooms = {r1, r2}
  BucketIds = {b0, bS}
  PublicBucket = b0
  ReservedBucket = bS
  ClaimedRoom <- TwoRooms
  ClaimedBuckets <- Grants
  NoRoom = NoRoom
  Free = Free
  None = None
  MaxClientsPerBucket = 2
  QueueCap = 1
  NotifyCap = 1
  DownCap = 1
  MaxConnId = 3
  MaxWrites = 1
  MaxChanges = 1
  MaxCommands = 0
INVARIANTS
  OnlyOwnRoom
CHECK_DEADLOCK FALSE
