SPECIFICATION FairSpec
CONSTANTS
  c1 = c1
  c2 = c2
  r1 = r1
  r2 = r2
  b0 = b0
  bS = bS
  Conns = {c1, c2}
  Writers = {w1}
  Rooms = {r1}
  BucketIds = {b0, bS}
  PublicBucket = b0
  ReservedBucket = bS
  ClaimedRoom <- OneRoom
  ClaimedBuckets <- Grants
  NoRoom = NoRoom
  Free = Free
  None = None
  MaxClientsPerBucket = 2
  QueueCap = 1
  NotifyCap = 1
  DownCap = 1
  MaxConnId = 3
  MaxWrites = 0
  MaxChanges = 0
  MaxCommands = 1
PROPERTIES
  ProcessorKeepsConsuming
CHECK_DEADLOCK FALSE
