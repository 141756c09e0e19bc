----------------------------- MODULE KernelProofs -----------------------------
(***************************************************************************)
(* The invariants of Kernel, for any number of tasks, rooms, buckets, keys *)
(* and values, and any number of commands, crashes and faults.             *)
(*                                                                         *)
(* What makes them inductive: what each task carries between its steps is  *)
(* still true of memory and disk when it comes back.  A room a task works  *)
(* on has an id that was handed out before; a write that overlaps no other *)
(* of its key is the last one on disk; and its version is one the room's   *)
(* counter has reached.                                                    *)
(***************************************************************************)
EXTENDS Kernel, RoomStoreProofs

-----------------------------------------------------------------------------
(* Memory: what RoomStoreProofs establishes of AppState, and that the       *)
(* commands of the kernel never open a transaction.                         *)
Plain(room) ==
    /\ room.tx_buffer = NoTx
    /\ ~room.loaded => /\ room.buckets = {} /\ room.members = {}
                       /\ \A s \in Slots : room.entries[s] = Absent

MemoryOK ==
    /\ IInv
    /\ \A r \in DOMAIN rooms : Plain(rooms[r])
    /\ next_room_id <= MaxRoomId + 1

-----------------------------------------------------------------------------
(* Disk.                                                                    *)
Records == UNION {[D -> BucketDef] : D \in SUBSET BucketIds}

Content == [fragments : [Slots -> Values \cup {Absent}],
            records   : Records,
            list      : (SUBSET BucketIds) \cup {Absent},
            members   : SUBSET (RawNames \ {Empty})]

DiskOK ==
    /\ DOMAIN db \subseteq Ids
    /\ db \in [DOMAIN db -> Content]
    /\ DOMAIN cache \subseteq DOMAIN db
    /\ cache \in [DOMAIN cache -> Records]

-----------------------------------------------------------------------------
(* Tasks, each by what it is doing.  `next` and `dirs` stand for            *)
(* next_room_id and the directories on disk.                                *)
Owning  == {"record", "list", "cache", "members"}
Writing == {"apply", "fragment", "counter", "broadcast"}
Loading == {"load_list", "load_records", "load_cache", "load_members",
            "load_fragments", "install"}

Progress == [version : Nat, counter : Nat, alone : BOOLEAN]
Loadable == [defs : Records, members : SUBSET RawNames,
             fragments : [Slots -> Values \cup {Null, Absent}]]

BucketCmd(cmd) ==
    /\ cmd.op \in {"NewBucket", "DeleteBucket"} /\ cmd.bucket \in BucketIds
    /\ cmd.op = "NewBucket" => cmd.record \in BucketDef
MemberCmd(cmd) == cmd.member \in RawNames
WriteCmd(cmd)  == cmd.slot \in Slots /\ cmd.value \in Values \cup {Null}

TaskOK(x, next, dirs) ==
    /\ x = [pc |-> x.pc, cmd |-> x.cmd, local |-> x.local]
    /\ x.pc \in PcLabels
    /\ x.pc # "idle" => x.cmd.room \in Ids
    /\ x.pc \in Owning \cup Writing => x.cmd.room < next
    /\ x.pc \in {"record", "list", "cache"} => BucketCmd(x.cmd)
    /\ x.pc = "members" => MemberCmd(x.cmd)
    /\ x.pc \in Writing => WriteCmd(x.cmd) /\ x.local \in Progress
    /\ x.pc = "apply" => x.local.version = 0
    /\ x.pc \in Loading => x.cmd.room \in dirs /\ x.local \in Loadable
    /\ x.pc = "load_records" => x.cmd.list \subseteq BucketIds

TasksOK ==
    /\ task = [t \in Tasks |-> task[t]]
    /\ \A t \in Tasks : TaskOK(task[t], next_room_id, DOMAIN db)

LockOK ==
    /\ state_lock \in Tasks \cup {Free}
    /\ \A t \in Tasks : state_lock = t <=> task[t].pc \in Owning

-----------------------------------------------------------------------------
(* Writes in progress.                                                      *)
SameSlot(x, y) ==
    /\ x.pc \in Writing /\ y.pc \in Writing
    /\ x.cmd.room = y.cmd.room /\ x.cmd.slot = y.cmd.slot

Fragments(r) == DbOf(r).fragments

\* Two writes that overlap know it, and what a lone one put on disk is there.
WritesOK ==
    /\ \A t, u \in Tasks : t # u /\ SameSlot(task[t], task[u]) => ~task[t].local.alone
    /\ \A t \in Tasks : task[t].pc \in Writing =>
          acked[<<task[t].cmd.room, task[t].cmd.slot>>] = Unknown
    /\ \A t \in Tasks :
          task[t].pc \in {"counter", "broadcast"} /\ task[t].local.alone =>
             Fragments(task[t].cmd.room)[task[t].cmd.slot] = Stored(task[t].cmd.value)

\* The counter of the room has reached the version of the write, or the room
\* is gone.
Reached(x) ==
    /\ x.pc \in {"fragment", "counter"} /\ x.cmd.room \in DOMAIN rooms =>
          rooms[x.cmd.room].room_counter >= x.local.version
    /\ x.pc = "broadcast" =>
          \/ x.local.counter >= x.local.version
          \/ x.local.counter = 0 /\ x.cmd.room \notin DOMAIN rooms

VersionsOK ==
    /\ \A t \in Tasks : task[t].pc \in Writing => Reached(task[t])
    /\ sent # None => sent.room \in Ids /\ sent.room < next_room_id
    /\ BroadcastNotTooOld

LedgerOK ==
    /\ acked \in [Ids \X Slots -> Values \cup {Null, Unknown}]
    /\ issued \in 0..MaxCommands /\ crashes \in 0..MaxCrashes /\ faults \in 0..MaxFaults

KInv ==
    /\ MemoryOK /\ DiskOK /\ TasksOK /\ LockOK /\ WritesOK /\ VersionsOK /\ LedgerOK
    /\ FreshIdsHoldNoData /\ AckedWritesAreDurable
-----------------------------------------------------------------------------
(* What each command does to the memory of a room.                          *)
LEMMA NewRoomsPlain ==
    /\ RoomOK(EmptyRoom) /\ Plain(EmptyRoom)
    /\ RoomOK(Stub) /\ Plain(Stub)
<1>1. RoomOK(EmptyRoom) /\ Plain(EmptyRoom) /\ EmptyRoom \in RoomState
  BY EmptyRoomOK DEF Plain, EmptyRoom, RoomOK
<1>2. /\ Stub \in RoomState
      /\ Stub.entries = EmptyRoom.entries /\ Stub.buckets = EmptyRoom.buckets
      /\ Stub.room_counter = EmptyRoom.room_counter /\ Stub.tx_buffer = EmptyRoom.tx_buffer
      /\ Stub.bucket_labels = EmptyRoom.bucket_labels
      /\ Stub.bucket_flags = EmptyRoom.bucket_flags /\ Stub.members = EmptyRoom.members
  BY <1>1 DEF Stub, RoomState
<1>3. RoomOK(Stub)
  BY <1>1, <1>2, SameDataOK
<1>4. /\ EmptyRoom.buckets = {} /\ EmptyRoom.members = {} /\ EmptyRoom.tx_buffer = NoTx
      /\ \A s \in Slots : EmptyRoom.entries[s] = Absent
  BY DEF EmptyRoom
<1>5. Plain(Stub)
  BY <1>2, <1>4 DEF Plain
<1> QED
  BY <1>1, <1>3, <1>5

LEMMA PutPlain ==
    ASSUME NEW room, RoomOK(room), Plain(room), room.loaded,
           NEW s \in Slots, NEW v \in Values \cup {Null}
    PROVE  /\ GoodStep(room, Put(room, s, v)) /\ Plain(Put(room, s, v))
           /\ Put(room, s, v).room_counter = room.room_counter + 1
<1> DEFINE E == [room.entries EXCEPT ![s] = [value |-> v, key_version |-> room.room_counter + 1]]
<1>1. room \in RoomState /\ room.tx_buffer = NoTx
  BY DEF RoomOK, Plain
<1>2. Put(room, s, v) = [room EXCEPT !.room_counter = @ + 1, !.buckets = @ \cup {s[1]},
                                     !.entries = E]
  BY Zenon DEF Put
<1> HIDE DEF E
<1>3. /\ Put(room, s, v).tx_buffer = NoTx /\ Put(room, s, v).loaded
      /\ Put(room, s, v).room_counter = room.room_counter + 1
  BY <1>1, <1>2 DEF RoomState
<1>4. GoodStep(room, Put(room, s, v))
  BY <1>1, WriteOK, InPlaceIsVersionStep DEF GoodStep, GoodEdit
<1> QED
  BY <1>3, <1>4 DEF Plain

LEMMA UnloadPlain ==
    ASSUME NEW room, RoomOK(room), Plain(room)
    PROVE  GoodStep(room, Unload(room)) /\ Plain(Unload(room))
<1>1. EmptyRoom \in RoomState /\ room.tx_buffer = NoTx
  BY EmptyRoomOK DEF RoomOK, Plain
<1>2. /\ Unload(room).buckets = EmptyRoom.buckets /\ Unload(room).members = EmptyRoom.members
      /\ Unload(room).entries = EmptyRoom.entries /\ Unload(room).tx_buffer = room.tx_buffer
  BY <1>1 DEF Unload, RoomState
<1>3. /\ EmptyRoom.buckets = {} /\ EmptyRoom.members = {}
      /\ \A s \in Slots : EmptyRoom.entries[s] = Absent
  BY DEF EmptyRoom
<1> QED
  BY <1>1, <1>2, <1>3, UnloadOK DEF GoodStep, Plain

LEMMA LoadPlain ==
    ASSUME NEW room, RoomOK(room), Plain(room), NEW img, IsImage(img)
    PROVE  GoodStep(room, Load(room, img)) /\ Plain(Load(room, img))
<1>1. /\ Load(room, img).tx_buffer = room.tx_buffer
      /\ Load(room, img).loaded
  BY DEF Load, RoomOK, RoomState
<1> QED
  BY <1>1, LoadOK DEF GoodStep, Plain

LEMMA NewBucketPlain ==
    ASSUME NEW room, RoomOK(room), Plain(room), room.loaded,
           NEW b \in BucketIds, NEW l \in RawNames \cup {Absent}, NEW new,
           new = [room EXCEPT !.buckets = @ \cup {b},
                              !.bucket_labels = IF l = Absent THEN @ ELSE [@ EXCEPT ![b] = l]]
    PROVE  GoodStep(room, new) /\ Plain(new)
<1> DEFINE L == IF l = Absent THEN room.bucket_labels ELSE [room.bucket_labels EXCEPT ![b] = l]
           B == room.buckets \cup {b}
<1>1. /\ room \in RoomState /\ RoomBucketsOK(room) /\ RoomVersionsOK(room)
      /\ room.tx_buffer = NoTx /\ room.room_counter \in Nat
  BY RoomFields DEF RoomOK, Plain
<1>2. /\ L \in [BucketIds -> RawNames \cup {Absent}] /\ B \in SUBSET BucketIds
      /\ \A d \in BucketIds \ {b} : L[d] = room.bucket_labels[d]
      /\ \A d : d \notin B => d # b /\ d \notin room.buckets
  BY <1>1, RoomFields
<1>3. new = [room EXCEPT !.buckets = B, !.bucket_labels = L]
  BY Zenon
<1> HIDE DEF L, B
<1>4. new \in RoomState
  BY <1>1, <1>2, <1>3 DEF RoomState
<1>5. /\ new.entries = room.entries /\ new.buckets = B
      /\ new.room_counter = room.room_counter /\ new.tx_buffer = NoTx /\ new.loaded
      /\ new.bucket_labels = L /\ new.bucket_flags = room.bucket_flags
  BY <1>1, <1>3 DEF RoomState
<1>6. RoomOK(new)
  BY <1>1, <1>2, <1>4, <1>5 DEF RoomOK, RoomVersionsOK, RoomBucketsOK
<1> QED
  BY <1>1, <1>5, <1>6 DEF GoodStep, VersionStep, TxStep, Plain

LEMMA DeleteBucketPlain ==
    ASSUME NEW room, RoomOK(room), Plain(room), room.loaded, NEW b \in BucketIds, NEW new,
           new = [room EXCEPT
              !.buckets = @ \ {b},
              !.entries = [s \in Slots |-> IF s[1] = b THEN Absent ELSE @[s]],
              !.bucket_labels = [@ EXCEPT ![b] = Absent],
              !.bucket_flags = [@ EXCEPT ![b] = {}]]
    PROVE  GoodStep(room, new) /\ Plain(new)
<1> DEFINE E == [s \in Slots |-> IF s[1] = b THEN Absent ELSE room.entries[s]]
           L == [room.bucket_labels EXCEPT ![b] = Absent]
           F == [room.bucket_flags EXCEPT ![b] = {}]
           B == room.buckets \ {b}
<1>1. /\ room \in RoomState /\ RoomBucketsOK(room) /\ RoomVersionsOK(room)
      /\ room.tx_buffer = NoTx /\ room.room_counter \in Nat
  BY RoomFields DEF RoomOK, Plain
<1>2. /\ L \in [BucketIds -> RawNames \cup {Absent}] /\ L[b] = Absent
      /\ F \in [BucketIds -> SUBSET FlagBits] /\ F[b] = {}
      /\ B \in SUBSET BucketIds /\ \A d : d \notin B => d = b \/ d \notin room.buckets
      /\ \A d \in BucketIds \ {b} : L[d] = room.bucket_labels[d] /\ F[d] = room.bucket_flags[d]
  BY <1>1, RoomFields
<1>3. /\ E \in [Slots -> Entry \cup {Absent}]
      /\ \A s \in Slots : E[s] = Absent \/ E[s] = room.entries[s]
      /\ \A s \in Slots : s[1] = b => E[s] = Absent
  BY <1>1, RoomFields
<1>4. new = [room EXCEPT !.buckets = B, !.entries = E, !.bucket_labels = L,
                         !.bucket_flags = F]
  BY Zenon
<1> HIDE DEF E, L, F, B
<1>5. new \in RoomState
  BY <1>1, <1>2, <1>3, <1>4, ZenonT(40) DEF RoomState
<1>6. /\ new.entries = E /\ new.buckets = B
      /\ new.room_counter = room.room_counter /\ new.tx_buffer = NoTx /\ new.loaded
      /\ new.bucket_labels = L /\ new.bucket_flags = F
  BY <1>1, <1>4 DEF RoomState
<1>7. RoomVersionsOK(new)
  BY <1>1, <1>3, <1>6 DEF RoomVersionsOK
<1>8. RoomBucketsOK(new)
  <2>1. \A d \in BucketIds, k \in Keys : <<d, k>> \in Slots /\ <<d, k>>[1] = d
    BY DEF Slots
  <2>2. ASSUME NEW d \in BucketIds \ B
        PROVE  L[d] = Absent /\ F[d] = {} /\ \A k \in Keys : E[<<d, k>>] = Absent
    <3>1. CASE d = b
      BY <1>2, <1>3, <2>1, <3>1
    <3>2. CASE d # b
      <4>1. d \in BucketIds \ room.buckets
        BY <1>2, <3>2
      <4>2. /\ room.bucket_labels[d] = Absent /\ room.bucket_flags[d] = {}
            /\ \A k \in Keys : room.entries[<<d, k>>] = Absent
        BY <1>1, <4>1 DEF RoomBucketsOK
      <4> QED
        BY <1>2, <1>3, <2>1, <3>2, <4>2
    <3> QED
      BY <3>1, <3>2
  <2> QED
    BY <1>6, <2>2, ZenonT(40) DEF RoomBucketsOK
<1>9. VersionStep(room, new) /\ TxStep(room, new)
  BY <1>1, <1>3, <1>6 DEF VersionStep, TxStep
<1> QED
  BY <1>5, <1>6, <1>7, <1>8, <1>9 DEF GoodStep, RoomOK, Plain

LEMMA MembersPlain ==
    ASSUME NEW room, RoomOK(room), Plain(room), room.loaded, NEW M \in SUBSET RawNames, NEW new,
           new = [room EXCEPT !.members = M]
    PROVE  GoodStep(room, new) /\ Plain(new)
<1>1. room \in RoomState /\ room.tx_buffer = NoTx
  BY DEF RoomOK, Plain
<1>2. new \in RoomState
  BY <1>1 DEF RoomState
<1>3. /\ new.entries = room.entries /\ new.buckets = room.buckets
      /\ new.room_counter = room.room_counter /\ new.tx_buffer = NoTx /\ new.loaded
      /\ new.bucket_labels = room.bucket_labels /\ new.bucket_flags = room.bucket_flags
  BY <1>1 DEF RoomState
<1>4. RoomOK(new) /\ InPlace(room, new) /\ TxStep(room, new)
  BY <1>2, <1>3, SameDataOK
<1> QED
  BY <1>3, <1>4, InPlaceIsVersionStep DEF GoodStep, Plain

(* The steps on memory as a whole.                                          *)
LEMMA MemorySet ==
    ASSUME MemoryOK, NEW r \in DOMAIN rooms, NEW room, GoodStep(rooms[r], room), Plain(room),
           SetRoom(r, room)
    PROVE  /\ MemoryOK' /\ StepOK /\ next_room_id' = next_room_id
           /\ DOMAIN rooms' = DOMAIN rooms /\ rooms'[r] = room
<1>1. IInv' /\ StepOK
  BY SetRoomOK DEF MemoryOK
<1>2. /\ rooms' = [rooms EXCEPT ![r] = room] /\ next_room_id' = next_room_id
      /\ DOMAIN rooms' = DOMAIN rooms /\ rooms'[r] = room
      /\ \A q \in DOMAIN rooms' : rooms'[q] = IF q = r THEN room ELSE rooms[q]
  BY DEF SetRoom
<1>3. \A q \in DOMAIN rooms' : Plain(rooms'[q])
  BY <1>2 DEF MemoryOK
<1>4. (\A q \in DOMAIN rooms : Plain(rooms[q]))'
  BY <1>3 DEF Plain
<1> QED
  BY <1>1, <1>2, <1>4 DEF MemoryOK

LEMMA MemorySame ==
    ASSUME MemoryOK, UNCHANGED vars
    PROVE  MemoryOK' /\ StepOK
<1>1. rooms' = rooms /\ labels' = labels /\ next_room_id' = next_room_id
  BY DEF vars
<1>2. IInv' /\ StepOK
  BY NextKeepsIInv DEF MemoryOK
<1> QED
  BY <1>1, <1>2 DEF MemoryOK, Plain
LEMMA NewBucketMemory ==
    ASSUME MemoryOK, NEW r \in DOMAIN rooms, rooms[r].loaded, NEW b \in BucketIds,
           NEW raw \in RawNames,
           SetRoom(r, [rooms[r] EXCEPT
              !.buckets = @ \cup {b},
              !.bucket_labels = IF LabelOption(raw) = Absent THEN @
                                ELSE [@ EXCEPT ![b] = LabelOption(raw)]])
    PROVE  MemoryOK' /\ StepOK /\ next_room_id' = next_room_id
<1>1. RoomOK(rooms[r]) /\ Plain(rooms[r])
  BY DEF MemoryOK, IInv
<1>2. LabelOption(raw) \in RawNames \cup {Absent}
  BY RoomAssumption DEF LabelOption
<1> DEFINE l == LabelOption(raw)
           new == [rooms[r] EXCEPT
              !.buckets = @ \cup {b},
              !.bucket_labels = IF l = Absent THEN @ ELSE [@ EXCEPT ![b] = l]]
<1>3. SetRoom(r, new) /\ l \in RawNames \cup {Absent}
  BY <1>2
<1>4. \A n : n = new => GoodStep(rooms[r], n) /\ Plain(n)
  <2> HIDE DEF l
  <2> QED
    BY <1>1, <1>3, NewBucketPlain
<1>5. GoodStep(rooms[r], new) /\ Plain(new)
  BY <1>4
<1> HIDE DEF new
<1> QED
  BY <1>3, <1>5, MemorySet

LEMMA DeleteBucketMemory ==
    ASSUME MemoryOK, NEW r \in DOMAIN rooms, rooms[r].loaded, NEW b \in BucketIds,
           SetRoom(r, [rooms[r] EXCEPT
              !.buckets = @ \ {b},
              !.entries = [s \in Slots |-> IF s[1] = b THEN Absent ELSE @[s]],
              !.bucket_labels = [@ EXCEPT ![b] = Absent],
              !.bucket_flags = [@ EXCEPT ![b] = {}]])
    PROVE  MemoryOK' /\ StepOK /\ next_room_id' = next_room_id
<1>1. RoomOK(rooms[r]) /\ Plain(rooms[r])
  BY DEF MemoryOK, IInv
<1> DEFINE new == [rooms[r] EXCEPT
              !.buckets = @ \ {b},
              !.entries = [s \in Slots |-> IF s[1] = b THEN Absent ELSE @[s]],
              !.bucket_labels = [@ EXCEPT ![b] = Absent],
              !.bucket_flags = [@ EXCEPT ![b] = {}]]
<1>2. SetRoom(r, new)
  OBVIOUS
<1>3. \A n : n = new => GoodStep(rooms[r], n) /\ Plain(n)
  BY <1>1, DeleteBucketPlain
<1>4. GoodStep(rooms[r], new) /\ Plain(new)
  BY <1>3
<1> HIDE DEF new
<1> QED
  BY <1>2, <1>4, MemorySet

LEMMA MembersMemory ==
    ASSUME MemoryOK, NEW r \in DOMAIN rooms, rooms[r].loaded, NEW M \in SUBSET RawNames,
           SetRoom(r, [rooms[r] EXCEPT !.members = M])
    PROVE  MemoryOK' /\ StepOK /\ next_room_id' = next_room_id
<1>1. RoomOK(rooms[r]) /\ Plain(rooms[r])
  BY DEF MemoryOK, IInv
<1> DEFINE new == [rooms[r] EXCEPT !.members = M]
<1>2. SetRoom(r, new)
  OBVIOUS
<1>3. \A n : n = new => GoodStep(rooms[r], n) /\ Plain(n)
  BY <1>1, MembersPlain
<1>4. GoodStep(rooms[r], new) /\ Plain(new)
  BY <1>3
<1> HIDE DEF new
<1> QED
  BY <1>2, <1>4, MemorySet

LEMMA WriteMemory ==
    ASSUME MemoryOK, NEW r \in DOMAIN rooms, NEW s \in Slots, NEW v \in Values \cup {Null},
           set_fragment(r, s, v)
    PROVE  /\ MemoryOK' /\ StepOK /\ next_room_id' = next_room_id
           /\ DOMAIN rooms' = DOMAIN rooms
           /\ rooms'[r].room_counter = rooms[r].room_counter + 1
<1>1. RoomOK(rooms[r]) /\ Plain(rooms[r])
  BY DEF MemoryOK, IInv
<1>2. rooms[r].loaded /\ SetRoom(r, Put(rooms[r], s, v))
  BY <1>1 DEF set_fragment, Plain
<1> QED
  BY <1>1, <1>2, PutPlain, MemorySet

LEMMA InstallMemory ==
    ASSUME MemoryOK, NEW r \in DOMAIN rooms, NEW img, IsImage(img), load_room_data(r, img)
    PROVE  MemoryOK' /\ StepOK /\ next_room_id' = next_room_id
<1>1. RoomOK(rooms[r]) /\ Plain(rooms[r])
  BY DEF MemoryOK, IInv
<1>2. SetRoom(r, Load(rooms[r], img))
  BY DEF load_room_data
<1> QED
  BY <1>1, <1>2, LoadPlain, MemorySet

LEMMA UnloadMemory ==
    ASSUME MemoryOK, NEW r \in DOMAIN rooms, unload_room(r)
    PROVE  MemoryOK' /\ StepOK /\ next_room_id' = next_room_id
<1>1. RoomOK(rooms[r]) /\ Plain(rooms[r])
  BY DEF MemoryOK, IInv
<1>2. SetRoom(r, Unload(rooms[r]))
  BY DEF unload_room
<1> QED
  BY <1>1, <1>2, UnloadPlain, MemorySet

LEMMA DeleteMemory ==
    ASSUME MemoryOK, NEW r \in DOMAIN rooms, delete_room(r)
    PROVE  MemoryOK' /\ StepOK /\ next_room_id' = next_room_id
<1>1. IInv' /\ StepOK
  BY ReplaceKeepsIInv DEF MemoryOK, Replace
<1>2. /\ next_room_id' = next_room_id /\ DOMAIN rooms' \subseteq DOMAIN rooms
      /\ \A q \in DOMAIN rooms' : rooms'[q] = rooms[q]
  BY DEF delete_room
<1>3. (\A q \in DOMAIN rooms : Plain(rooms[q]))'
  BY <1>2 DEF MemoryOK, Plain
<1> QED
  BY <1>1, <1>2, <1>3 DEF MemoryOK

LEMMA NewRoomMemory ==
    ASSUME MemoryOK, NEW raw \in RawNames, NewRoom(raw)
    PROVE  MemoryOK' /\ StepOK /\ next_room_id' = next_room_id + 1
<1>1. /\ next_room_id <= MaxRoomId /\ next_room_id' = next_room_id + 1
      /\ rooms' = With(rooms, next_room_id, EmptyRoom)
      /\ labels' = IF Trim[raw] \in LegalNames \ DOMAIN labels
                   THEN With(labels, Trim[raw], next_room_id) ELSE labels
  BY Zenon DEF NewRoom
<1>2. /\ next_room_id \in RoomIds /\ next_room_id \in Nat /\ next_room_id' \in RoomIds
      /\ DOMAIN rooms \subseteq RoomIds /\ \A r \in DOMAIN rooms : rooms[r] \in RoomState
      /\ DOMAIN labels \subseteq LegalNames /\ \A l \in DOMAIN labels : labels[l] \in RoomIds
      /\ \A r \in DOMAIN rooms : r < next_room_id /\ r \in Nat
  BY <1>1 DEF MemoryOK, IInv, TypeOK, RoomIds
<1>3. /\ DOMAIN rooms' = DOMAIN rooms \cup {next_room_id}
      /\ next_room_id \notin DOMAIN rooms
      /\ rooms'[next_room_id] = EmptyRoom
      /\ \A r \in DOMAIN rooms : rooms'[r] = rooms[r]
      /\ rooms' = [r \in DOMAIN rooms' |-> rooms'[r]]
  BY <1>1, <1>2 DEF With
<1>4. /\ DOMAIN labels' \subseteq LegalNames /\ DOMAIN labels \subseteq DOMAIN labels'
      /\ \A l \in DOMAIN labels' : \/ l \in DOMAIN labels /\ labels'[l] = labels[l]
                                   \/ labels'[l] = next_room_id
      /\ labels' = [l \in DOMAIN labels' |-> labels'[l]]
  <2>1. CASE Trim[raw] \in LegalNames \ DOMAIN labels
    BY <1>1, <1>2, <2>1 DEF With
  <2>2. CASE ~(Trim[raw] \in LegalNames \ DOMAIN labels)
    BY <1>1, <1>2, <2>2 DEF MemoryOK, IInv, TypeOK
  <2> QED
    BY <2>1, <2>2
<1>5. EmptyRoom \in RoomState /\ RoomOK(EmptyRoom) /\ Plain(EmptyRoom)
  BY NewRoomsPlain DEF RoomOK
<1>6. rooms' \in [DOMAIN rooms' -> RoomState]
  BY <1>2, <1>3, <1>5
<1>7. labels' \in [DOMAIN labels' -> RoomIds]
  BY <1>2, <1>4
<1>8. TypeOK'
  BY <1>2, <1>3, <1>4, <1>6, <1>7 DEF TypeOK
<1>9. \A r \in DOMAIN rooms' : RoomOK(rooms'[r]) /\ r < next_room_id'
  BY <1>1, <1>2, <1>3, <1>5 DEF MemoryOK, IInv
<1>10. \A l \in DOMAIN labels' : labels'[l] \in DOMAIN rooms'
  BY <1>3, <1>4 DEF MemoryOK, IInv, LabelsNameLiveRooms
<1>11. IInv'
  BY <1>8, <1>9, <1>10 DEF IInv, LabelsNameLiveRooms
<1>12. StepOK
  BY <1>1, <1>2, <1>3, SameRoomStep DEF MemoryOK, IInv, StepOK
<1>13. (\A q \in DOMAIN rooms : Plain(rooms[q]))'
  <2>1. \A q \in DOMAIN rooms' : Plain(rooms'[q])
    BY <1>3, <1>5 DEF MemoryOK
  <2> QED
    BY <2>1 DEF Plain
<1>14. next_room_id' <= MaxRoomId + 1
  BY <1>1, <1>2, StoreAssumption
<1> QED
  BY <1>1, <1>11, <1>12, <1>13, <1>14 DEF MemoryOK

(* After a restart every room is a stub, and ids go on above all of them.   *)
LEMMA CrashMemory ==
    ASSUME DiskOK, Crash
    PROVE  MemoryOK' /\ \A r \in DOMAIN db : r < next_room_id'
<1> DEFINE Good(n) == /\ \A r \in DOMAIN db : r < n
                      /\ n = 1 \/ n - 1 \in DOMAIN db
<1>1. /\ rooms' = [r \in DOMAIN db |-> Stub] /\ labels' = << >>
      /\ next_room_id' = CHOOSE n \in 1..(MaxRoomId + 1) : Good(n)
  BY Zenon DEF Crash
<1>2. DOMAIN db \in SUBSET (1..MaxRoomId) /\ MaxRoomId \in Nat
  BY StoreAssumption DEF DiskOK, Ids
<1>3. \E n \in 1..(MaxRoomId + 1) : Good(n)
  <2>1. CASE DOMAIN db = {}
    BY <1>2, <2>1
  <2>2. CASE DOMAIN db # {}
    <3>1. PICK m \in DOMAIN db : \A j \in DOMAIN db : j <= m
      BY <1>2, <2>2, BoundedHasMax
    <3>2. m + 1 \in 1..(MaxRoomId + 1) /\ Good(m + 1)
      BY <1>2, <3>1
    <3> QED
      BY <3>2
  <2> QED
    BY <2>1, <2>2
<1>4. next_room_id' \in 1..(MaxRoomId + 1) /\ Good(next_room_id')
  BY <1>1, <1>3
<1>5. Stub \in RoomState /\ RoomOK(Stub) /\ Plain(Stub)
  BY NewRoomsPlain DEF RoomOK
<1>6. DOMAIN rooms' = DOMAIN db /\ (\A r \in DOMAIN rooms' : rooms'[r] = Stub)
      /\ DOMAIN labels' = {} /\ labels' = [l \in {} |-> 0]
  BY <1>1
<1>7. rooms' \in [DOMAIN rooms' -> RoomState] /\ labels' \in [DOMAIN labels' -> RoomIds]
  BY <1>1, <1>5, <1>6
<1>8. TypeOK'
  BY <1>2, <1>4, <1>6, <1>7 DEF TypeOK, RoomIds
<1>9. IInv'
  BY <1>4, <1>5, <1>6, <1>8 DEF IInv, LabelsNameLiveRooms
<1>10. (\A q \in DOMAIN rooms : Plain(rooms[q]))'
  BY <1>5, <1>6 DEF Plain
<1> QED
  BY <1>2, <1>4, <1>9, <1>10 DEF MemoryOK
-----------------------------------------------------------------------------
(* How a task moves on.                                                     *)
Move(t, x) == /\ task'[t] = x
              /\ \A u \in Tasks \ {t} : task'[u] = task[u]
              /\ task' = [u \in Tasks |-> task'[u]]

LEMMA Moves ==
    ASSUME TasksOK, NEW t \in Tasks, NEW label, NEW cmd, NEW local
    PROVE  /\ Goto(t, label) =>
                 Move(t, [pc |-> label, cmd |-> task[t].cmd, local |-> task[t].local])
           /\ Keep(t, label, local) =>
                 Move(t, [pc |-> label, cmd |-> task[t].cmd, local |-> local])
           /\ Begin(t, label, cmd, local) =>
                 Move(t, [pc |-> label, cmd |-> cmd, local |-> local])
           /\ Done(t) => Move(t, Idle)
<1>1. /\ task = [u \in Tasks |-> task[u]]
      /\ task[t] = [pc |-> task[t].pc, cmd |-> task[t].cmd, local |-> task[t].local]
  BY DEF TasksOK, TaskOK
<1>2. \A x : task' = [task EXCEPT ![t] = x] => Move(t, x)
  BY <1>1 DEF Move
<1>3. Goto(t, label) => Move(t, [task[t] EXCEPT !.pc = label])
  BY <1>2 DEF Goto
<1>4. [task[t] EXCEPT !.pc = label]
         = [pc |-> label, cmd |-> task[t].cmd, local |-> task[t].local]
  BY <1>1
<1>5. Keep(t, label, local) => Move(t, [task[t] EXCEPT !.pc = label, !.local = local])
  BY <1>2 DEF Keep
<1>6. [task[t] EXCEPT !.pc = label, !.local = local]
         = [pc |-> label, cmd |-> task[t].cmd, local |-> local]
  <2> DEFINE x == task[t]
             y == [x EXCEPT !.pc = label, !.local = local]
  <2>1. x \in [pc : {x.pc}, cmd : {x.cmd}, local : {x.local}]
    BY <1>1
  <2> HIDE DEF x
  <2>2. /\ y.pc = label /\ y.local = local /\ y.cmd = x.cmd
        /\ y \in [pc : {label}, cmd : {x.cmd}, local : {local}]
    BY <2>1
  <2> HIDE DEF y
  <2>3. y = [pc |-> label, cmd |-> x.cmd, local |-> local]
    BY <2>2
  <2> QED
    BY <2>3 DEF x, y
<1>7. Begin(t, label, cmd, local) => Move(t, [pc |-> label, cmd |-> cmd, local |-> local])
  BY <1>2 DEF Begin
<1>8. Done(t) => Move(t, Idle)
  BY <1>2 DEF Done
<1> QED
  BY <1>3, <1>4, <1>5, <1>6, <1>7, <1>8

(* What a task carries stays true while ids and directories only get more.  *)
LEMMA TaskStaysOK ==
    ASSUME NEW x, NEW m \in Nat, NEW n \in Nat, m <= n, NEW D, NEW E, D \subseteq E,
           TaskOK(x, m, D)
    PROVE  TaskOK(x, n, E)
<1>1. x.pc # "idle" => x.cmd.room \in Nat
  BY StoreAssumption DEF TaskOK, Ids
<1>2. x.pc \in Owning \cup Writing => x.pc # "idle"
  BY DEF Owning, Writing
<1> QED
  BY <1>1, <1>2 DEF TaskOK

LEMMA IdleOK == ASSUME NEW n, NEW D PROVE TaskOK(Idle, n, D)
  BY DEF TaskOK, Idle, PcLabels, Owning, Writing, Loading

LEMMA IdsGrow ==
    ASSUME MemoryOK, MemoryOK', StepOK
    PROVE  /\ next_room_id \in Nat /\ next_room_id' \in Nat /\ next_room_id <= next_room_id'
           /\ \A r \in DOMAIN rooms' : r < next_room_id => r \in DOMAIN rooms
           /\ \A r \in DOMAIN rooms : rooms[r].room_counter \in Nat
           /\ \A r \in DOMAIN rooms' : rooms'[r].room_counter \in Nat
           /\ \A r \in DOMAIN rooms \cap DOMAIN rooms' :
                 rooms[r].room_counter <= rooms'[r].room_counter
<1>1. next_room_id \in Nat /\ next_room_id' \in Nat
  BY DEF MemoryOK, IInv, TypeOK, RoomIds
<1>2. \A r \in DOMAIN rooms : RoomOK(rooms[r])
  BY DEF MemoryOK, IInv
<1>3. \A r \in DOMAIN rooms' : RoomOK(rooms'[r])
  BY DEF MemoryOK, IInv
<1>4. \A room : RoomOK(room) => room.room_counter \in Nat
  BY RoomFields DEF RoomOK
<1> QED
  BY <1>1, <1>2, <1>3, <1>4 DEF StepOK, VersionStep

LEMMA TasksKept ==
    ASSUME KInv, MemoryOK', StepOK, DOMAIN db \subseteq DOMAIN db',
           task' = [t \in Tasks |-> task'[t]],
           \A t \in Tasks : \/ task'[t] = task[t]
                            \/ TaskOK(task'[t], next_room_id', DOMAIN db')
    PROVE  TasksOK'
<1>1. next_room_id \in Nat /\ next_room_id' \in Nat /\ next_room_id <= next_room_id'
  BY IdsGrow DEF KInv
<1>2. \A t \in Tasks : TaskOK(task[t], next_room_id, DOMAIN db)
  BY DEF KInv, TasksOK
<1>3. \A t \in Tasks : TaskOK(task'[t], next_room_id', DOMAIN db')
  BY <1>1, <1>2, TaskStaysOK
<1> QED
  BY <1>3 DEF TasksOK

LEMMA ReachedKept ==
    ASSUME KInv, MemoryOK', StepOK, NEW t \in Tasks,
           task'[t].pc = task[t].pc, task'[t].cmd = task[t].cmd,
           task'[t].local.version = task[t].local.version,
           task'[t].local.counter = task[t].local.counter,
           task[t].pc \in Writing
    PROVE  Reached(task[t])'
<1>1. /\ task[t].cmd.room < next_room_id /\ task[t].cmd.room \in Nat
      /\ task[t].local.version \in Nat
  BY StoreAssumption DEF KInv, TasksOK, TaskOK, Ids, Writing, Progress
<1>2. Reached(task[t])
  BY DEF KInv, VersionsOK
<1>3. ASSUME task[t].cmd.room \in DOMAIN rooms'
      PROVE  task[t].cmd.room \in DOMAIN rooms
  BY <1>1, <1>3, IdsGrow DEF KInv
<1>4. \A r \in DOMAIN rooms \cap DOMAIN rooms' :
         /\ rooms[r].room_counter \in Nat /\ rooms'[r].room_counter \in Nat
         /\ rooms[r].room_counter <= rooms'[r].room_counter
  BY IdsGrow DEF KInv
<1> QED
  BY <1>1, <1>2, <1>3, <1>4 DEF Reached

LEMMA VersionsKept ==
    ASSUME KInv, MemoryOK', StepOK, sent' = sent,
           \A t \in Tasks :
              \/ task'[t] = task[t]
              \/ task'[t].pc \notin Writing
              \/ Reached(task[t])'
    PROVE  VersionsOK'
<1>1. \A t \in Tasks : task'[t].pc \in Writing => Reached(task[t])'
  BY ReachedKept
<1>2. ASSUME sent # None
      PROVE  sent.room \in Ids /\ sent.room < next_room_id'
             /\ \/ sent.counter >= sent.version
                \/ sent.counter = 0 /\ sent.room \notin DOMAIN rooms'
  <2>1. sent.room < next_room_id /\ sent.room \in Nat
    BY <1>2, StoreAssumption DEF KInv, VersionsOK, Ids
  <2> QED
    BY <1>2, <2>1, IdsGrow DEF KInv, VersionsOK, BroadcastNotTooOld
<1>3. (\A t \in Tasks : task[t].pc \in Writing => Reached(task[t]))'
  BY <1>1
<1> QED
  BY <1>2, <1>3 DEF VersionsOK, BroadcastNotTooOld

(* A step that writes no fragment and moves no task into a write.           *)
LEMMA Kept ==
    ASSUME KInv, MemoryOK', StepOK, DiskOK', LockOK', LedgerOK', FreshIdsHoldNoData',
           DOMAIN db \subseteq DOMAIN db',
           \A r \in Ids : Fragments(r)' = Fragments(r),
           acked' = acked, sent' = sent,
           task' = [t \in Tasks |-> task'[t]],
           \A t \in Tasks :
              \/ task'[t] = task[t]
              \/ task'[t].pc \notin Writing /\ TaskOK(task'[t], next_room_id', DOMAIN db')
    PROVE  KInv'
<1>1. TasksOK'
  BY TasksKept
<1>2. VersionsOK'
  BY VersionsKept
<1>3. \A t \in Tasks : task'[t].pc \in Writing => task'[t] = task[t]
  OBVIOUS
<1>4. \A t \in Tasks : task[t].pc \in Writing => task[t].cmd.room \in Ids
  BY DEF KInv, TasksOK, TaskOK, Writing
<1>5. WritesOK'
  <2>1. (\A t, u \in Tasks : t # u /\ SameSlot(task[t], task[u]) => ~task[t].local.alone)'
    BY <1>3 DEF KInv, WritesOK, SameSlot
  <2>2. (\A t \in Tasks : task[t].pc \in Writing =>
            acked[<<task[t].cmd.room, task[t].cmd.slot>>] = Unknown)'
    BY <1>3 DEF KInv, WritesOK
  <2>3. ASSUME NEW t \in Tasks, task'[t].pc \in {"counter", "broadcast"}, task'[t].local.alone
        PROVE  Fragments(task[t].cmd.room)'[task[t].cmd.slot] = Stored(task[t].cmd.value)
               /\ task'[t] = task[t] /\ task[t].cmd.room \in Ids
    <3>1. task'[t] = task[t] /\ task[t].cmd.room \in Ids
      BY <1>3, <1>4, <2>3 DEF Writing
    <3> QED
      BY <2>3, <3>1 DEF KInv, WritesOK
  <2>4. (\A t \in Tasks :
            task[t].pc \in {"counter", "broadcast"} /\ task[t].local.alone =>
               Fragments(task[t].cmd.room)[task[t].cmd.slot] = Stored(task[t].cmd.value))'
    BY <2>3 DEF Fragments, DbOf
  <2> QED
    BY <2>1, <2>2, <2>4 DEF WritesOK
<1>6. AckedWritesAreDurable'
  BY DEF KInv, AckedWritesAreDurable, Fragments
<1> QED
  BY <1>1, <1>2, <1>5, <1>6 DEF KInv
-----------------------------------------------------------------------------
(* The disk.                                                                *)
LEMMA RecordsAre ==
    ASSUME NEW f
    PROVE  f \in Records <=> /\ DOMAIN f \subseteq BucketIds
                             /\ f \in [DOMAIN f -> BucketDef]
  BY DEF Records

LEMMA RecordsEdited ==
    ASSUME NEW f \in Records
    PROVE  /\ \A b \in BucketIds, d \in BucketDef : With(f, b, d) \in Records
           /\ \A b : Without(f, b) \in Records
           /\ \A D \in SUBSET DOMAIN f : [b \in D |-> f[b]] \in Records
<1>1. DOMAIN f \subseteq BucketIds /\ f \in [DOMAIN f -> BucketDef]
  BY RecordsAre
<1>2. ASSUME NEW b \in BucketIds, NEW d \in BucketDef PROVE With(f, b, d) \in Records
  <2> DEFINE D == DOMAIN f \cup {b}
  <2>1. With(f, b, d) \in [D -> BucketDef] /\ D \in SUBSET BucketIds
    BY <1>1 DEF With
  <2> QED
    BY <2>1, RecordsAre
<1>3. ASSUME NEW D \in SUBSET DOMAIN f PROVE [b \in D |-> f[b]] \in Records
  <2>1. [b \in D |-> f[b]] \in [D -> BucketDef] /\ D \in SUBSET BucketIds
    BY <1>1
  <2> QED
    BY <2>1, RecordsAre
<1>4. ASSUME NEW b PROVE Without(f, b) \in Records
  BY <1>3 DEF Without
<1> QED
  BY <1>2, <1>3, <1>4

LEMMA ContentEdited ==
    ASSUME NEW c \in Content
    PROVE  /\ c.fragments \in [Slots -> Values \cup {Absent}] /\ c.records \in Records
           /\ c.list \in (SUBSET BucketIds) \cup {Absent}
           /\ c.members \in SUBSET (RawNames \ {Empty})
           /\ \A x \in Records : /\ [c EXCEPT !.records = x] \in Content
                                 /\ [c EXCEPT !.records = x].fragments = c.fragments
           /\ \A x \in (SUBSET BucketIds) \cup {Absent} :
                 /\ [c EXCEPT !.list = x] \in Content
                 /\ [c EXCEPT !.list = x].fragments = c.fragments
           /\ \A x \in SUBSET (RawNames \ {Empty}) :
                 /\ [c EXCEPT !.members = x] \in Content
                 /\ [c EXCEPT !.members = x].fragments = c.fragments
           /\ \A x \in [Slots -> Values \cup {Absent}] :
                 /\ [c EXCEPT !.fragments = x] \in Content
                 /\ [c EXCEPT !.fragments = x].fragments = x
  BY DEF Content

LEMMA EmptyDbOK == EmptyDb \in Content
<1> DEFINE none == << >>
           blank == [s \in Slots |-> Absent]
<1>1. none = [b \in {} |-> Absent] /\ DOMAIN none = {}
  OBVIOUS
<1>2. none \in [{} -> BucketDef]
  BY <1>1
<1>3. blank \in [Slots -> Values \cup {Absent}]
  OBVIOUS
<1>4. EmptyDb = [fragments |-> blank, records |-> none, list |-> Absent, members |-> {}]
  BY DEF EmptyDb
<1> HIDE DEF none, blank
<1>5. none \in Records
  BY <1>1, <1>2, RecordsAre
<1>6. /\ {} \in SUBSET (RawNames \ {Empty}) /\ Absent \in (SUBSET BucketIds) \cup {Absent}
  OBVIOUS
<1> DEFINE F == [Slots -> Values \cup {Absent}]
           M == SUBSET (RawNames \ {Empty})
           L == (SUBSET BucketIds) \cup {Absent}
<1>7. Content = [fragments : F, records : Records, list : L, members : M]
  BY DEF Content
<1>8. blank \in F /\ {} \in M /\ Absent \in L
  BY <1>3, <1>6
<1> HIDE DEF F, M, L
<1> QED
  BY <1>4, <1>5, <1>7, <1>8

LEMMA DiskContent == ASSUME DiskOK, NEW r PROVE DbOf(r) \in Content
  BY EmptyDbOK DEF DiskOK, DbOf

LEMMA DiskWritten ==
    ASSUME DiskOK, NEW r \in Ids, NEW c \in Content, WriteDb(r, c), cache' = cache
    PROVE  /\ DiskOK' /\ DOMAIN db \subseteq DOMAIN db' /\ r \in DOMAIN db'
           /\ DOMAIN db' = DOMAIN db \cup {r}
           /\ \A q \in DOMAIN db' : db'[q] = IF q = r THEN c ELSE db[q]
           /\ \A q : Fragments(q)' = IF q = r THEN c.fragments ELSE Fragments(q)
<1>1. db' = [q \in DOMAIN db \cup {r} |-> IF q = r THEN c ELSE db[q]]
  BY DEF WriteDb, With
<1>2. /\ DOMAIN db' = DOMAIN db \cup {r}
      /\ \A q \in DOMAIN db' : db'[q] = IF q = r THEN c ELSE db[q]
      /\ db' = [q \in DOMAIN db' |-> db'[q]]
  BY <1>1
<1>3. \A q \in DOMAIN db : db[q] \in Content
  BY DEF DiskOK
<1>4. db' \in [DOMAIN db' -> Content]
  BY <1>2, <1>3
<1>5. DiskOK'
  BY <1>2, <1>4 DEF DiskOK
<1>6. \A q : Fragments(q)' = IF q = r THEN c.fragments ELSE Fragments(q)
  BY <1>2 DEF Fragments, DbOf
<1> QED
  BY <1>2, <1>5, <1>6

LEMMA DiskSame ==
    ASSUME KInv, db' = db, MemoryOK', StepOK
    PROVE  /\ FreshIdsHoldNoData' /\ DOMAIN db \subseteq DOMAIN db'
           /\ \A q : Fragments(q)' = Fragments(q)
           /\ cache' = cache => DiskOK'
<1>1. \A q \in DOMAIN db : q \in Nat
  BY StoreAssumption DEF KInv, DiskOK, Ids
<1>2. FreshIdsHoldNoData'
  BY <1>1, IdsGrow DEF KInv, FreshIdsHoldNoData
<1> QED
  BY <1>2 DEF KInv, DiskOK, Fragments, DbOf

LEMMA FreshKept ==
    ASSUME KInv, MemoryOK', StepOK, NEW r \in Ids, NEW c \in Content, WriteDb(r, c),
           cache' = cache, r < next_room_id' \/ c = DbOf(r)
    PROVE  FreshIdsHoldNoData'
<1>1. \A q \in DOMAIN db : q \in Nat
  BY StoreAssumption DEF KInv, DiskOK, Ids
<1>2. /\ DOMAIN db' = DOMAIN db \cup {r} /\ r \in Nat
      /\ \A q \in DOMAIN db' : db'[q] = IF q = r THEN c ELSE db[q]
  BY StoreAssumption, DiskWritten DEF KInv, Ids
<1>3. \A q \in DOMAIN db : q >= next_room_id' => db[q] = EmptyDb
  BY <1>1, IdsGrow DEF KInv, FreshIdsHoldNoData
<1>4. ~(r < next_room_id') <=> r >= next_room_id'
  BY <1>2, IdsGrow DEF KInv
<1>5. ASSUME NEW q \in DOMAIN db', q >= next_room_id' PROVE db'[q] = EmptyDb
  <2>1. CASE q # r
    BY <1>2, <1>3, <1>5, <2>1
  <2>2. CASE q = r
    BY <1>2, <1>3, <1>4, <1>5, <2>2 DEF DbOf
  <2> QED
    BY <2>1, <2>2
<1> QED
  BY <1>5 DEF FreshIdsHoldNoData

-----------------------------------------------------------------------------
(* The state lock.                                                          *)
LEMMA LockMoves ==
    ASSUME LockOK, NEW t \in Tasks, NEW x, Move(t, x)
    PROVE  /\ (state_lock' = state_lock /\ (x.pc \in Owning <=> task[t].pc \in Owning)) => LockOK'
           /\ (state_lock = Free /\ state_lock' = t /\ x.pc \in Owning) => LockOK'
           /\ (task[t].pc \in Owning /\ state_lock' = Free /\ x.pc \notin Owning) => LockOK'
<1>1. /\ task'[t] = x /\ \A u \in Tasks \ {t} : task'[u] = task[u]
  BY DEF Move
<1>2. Free \notin Tasks
  BY KernelAssumption
<1>3. CASE state_lock' = state_lock /\ (x.pc \in Owning <=> task[t].pc \in Owning)
  BY <1>1, <1>3 DEF LockOK
<1>4. CASE state_lock = Free /\ state_lock' = t /\ x.pc \in Owning
  BY <1>1, <1>2, <1>4 DEF LockOK
<1>5. CASE task[t].pc \in Owning /\ state_lock' = Free /\ x.pc \notin Owning
  BY <1>1, <1>2, <1>5 DEF LockOK
<1> QED
  BY <1>3, <1>4, <1>5

(* One task moves on without writing a fragment.                            *)
LEMMA Stepped ==
    ASSUME KInv, MemoryOK', StepOK, DiskOK', LockOK', LedgerOK', FreshIdsHoldNoData',
           DOMAIN db \subseteq DOMAIN db',
           \A r \in Ids : Fragments(r)' = Fragments(r),
           acked' = acked, sent' = sent,
           NEW t \in Tasks, NEW x, Move(t, x), x.pc \notin Writing,
           TaskOK(x, next_room_id', DOMAIN db')
    PROVE  KInv'
<1>1. /\ task' = [u \in Tasks |-> task'[u]]
      /\ \A u \in Tasks :
              \/ task'[u] = task[u]
              \/ task'[u].pc \notin Writing /\ TaskOK(task'[u], next_room_id', DOMAIN db')
  BY DEF Move
<1> QED
  BY <1>1, Kept

LEMMA LedgerKept ==
    ASSUME KInv, acked' = acked, crashes' = crashes,
           \/ issued' = issued /\ faults' = faults
           \/ issued' = issued /\ faults < MaxFaults /\ faults' = faults + 1
           \/ issued < MaxCommands /\ issued' = issued + 1 /\ faults' = faults
           \/ /\ issued < MaxCommands /\ issued' = issued + 1
              /\ faults < MaxFaults /\ faults' = faults + 1
    PROVE  LedgerOK'
<1>1. /\ issued \in 0..MaxCommands /\ crashes \in 0..MaxCrashes /\ faults \in 0..MaxFaults
      /\ MaxCommands \in Nat /\ MaxCrashes \in Nat /\ MaxFaults \in Nat
      /\ acked \in [Ids \X Slots -> Values \cup {Null, Unknown}]
  BY KernelAssumption DEF KInv, LedgerOK
<1>2. issued' \in 0..MaxCommands /\ faults' \in 0..MaxFaults /\ crashes' \in 0..MaxCrashes
  BY <1>1
<1> QED
  BY <1>1, <1>2 DEF LedgerOK
-----------------------------------------------------------------------------
(* Requests that are one step.                                              *)
LEMMA TasksStand ==
    ASSUME KInv, MemoryOK', StepOK, DiskOK', LedgerOK', FreshIdsHoldNoData',
           DOMAIN db \subseteq DOMAIN db',
           \A r \in Ids : Fragments(r)' = Fragments(r),
           UNCHANGED <<state_lock, task, acked, sent>>
    PROVE  KInv'
<1>1. LockOK' /\ task' = [t \in Tasks |-> task'[t]]
  BY DEF KInv, LockOK, TasksOK
<1> QED
  BY <1>1, Kept

LEMMA NewRoomKeeps == ASSUME KInv, NEW raw \in RawNames, NewRoom(raw) PROVE KInv'
<1>1. MemoryOK' /\ StepOK /\ next_room_id' = next_room_id + 1
  BY NewRoomMemory DEF KInv
<1>2. next_room_id \in Ids
  BY StoreAssumption DEF KInv, MemoryOK, IInv, TypeOK, RoomIds, Ids, NewRoom
<1>3. /\ cache' = cache /\ UNCHANGED <<state_lock, task, acked, sent>>
      /\ crashes' = crashes /\ Issue("NewRoom")
      /\ \/ WriteDb(next_room_id, DbOf(next_room_id)) /\ faults' = faults
         \/ faults < MaxFaults /\ faults' = faults + 1 /\ db' = db
  BY Zenon DEF NewRoom
<1>4. LedgerOK'
  BY <1>3, LedgerKept DEF Issue
<1>5. CASE WriteDb(next_room_id, DbOf(next_room_id))
  <2>1. DbOf(next_room_id) \in Content /\ DiskOK
    BY DiskContent DEF KInv
  <2>2. /\ DiskOK' /\ DOMAIN db \subseteq DOMAIN db'
        /\ \A r \in Ids : Fragments(r)' = Fragments(r)
    BY <1>2, <1>3, <1>5, <2>1, DiskWritten DEF Fragments
  <2>3. FreshIdsHoldNoData'
    BY <1>1, <1>2, <1>3, <1>5, <2>1, FreshKept
  <2> QED
    BY <1>1, <1>3, <1>4, <2>2, <2>3, TasksStand
<1>6. CASE db' = db
  BY <1>1, <1>3, <1>4, <1>6, DiskSame, TasksStand
<1> QED
  BY <1>3, <1>5, <1>6

LEMMA UnloadRoomKeeps == ASSUME KInv, NEW r \in DOMAIN rooms, UnloadRoom(r) PROVE KInv'
<1>1. MemoryOK' /\ StepOK
  BY UnloadMemory DEF KInv, UnloadRoom
<1>2. /\ db' = db /\ cache' = cache /\ UNCHANGED <<state_lock, task, acked, sent>>
      /\ crashes' = crashes /\ faults' = faults /\ Issue("UnloadRoom")
  BY DEF UnloadRoom, diskVars
<1>3. LedgerOK'
  BY <1>2, LedgerKept DEF Issue
<1> QED
  BY <1>1, <1>2, <1>3, DiskSame, TasksStand

LEMMA DeleteRoomKeeps == ASSUME KInv, NEW r \in DOMAIN rooms, DeleteRoom(r) PROVE KInv'
<1>1. MemoryOK' /\ StepOK
  BY DeleteMemory DEF KInv, DeleteRoom
<1>2. /\ db' = db /\ cache' = cache /\ UNCHANGED <<state_lock, task, acked, sent>>
      /\ crashes' = crashes /\ faults' = faults /\ Issue("DeleteRoom")
  BY DEF DeleteRoom, diskVars
<1>3. LedgerOK'
  BY <1>2, LedgerKept DEF Issue
<1> QED
  BY <1>1, <1>2, <1>3, DiskSame, TasksStand

-----------------------------------------------------------------------------
(* Requests that take the lock: memory first.                               *)
LEMMA LiveRooms ==
    ASSUME MemoryOK, NEW r \in DOMAIN rooms
    PROVE  r \in Ids /\ r < next_room_id
<1>1. r \in RoomIds /\ r < next_room_id /\ next_room_id \in RoomIds
  BY DEF MemoryOK, IInv, TypeOK
<1> QED
  BY <1>1, StoreAssumption DEF MemoryOK, Ids, RoomIds

LEMMA LockTaken ==
    ASSUME KInv, MemoryOK', StepOK, NEW op, NEW t \in Tasks, NEW r, LockFor(t, op, r),
           NEW x, Move(t, x), x.pc \in Owning, TaskOK(x, next_room_id', DOMAIN db')
    PROVE  KInv'
<1>1. /\ state_lock = Free /\ state_lock' = t /\ db' = db /\ cache' = cache
      /\ acked' = acked /\ sent' = sent /\ crashes' = crashes /\ faults' = faults
      /\ Issue(op)
  BY DEF LockFor, diskVars
<1>2. LockOK'
  BY <1>1, LockMoves DEF KInv
<1>3. LedgerOK'
  BY <1>1, LedgerKept DEF Issue
<1>4. x.pc \notin Writing
  BY DEF Owning, Writing
<1> QED
  BY <1>1, <1>2, <1>3, <1>4, DiskSame, Stepped

LEMMA NewBucketKeeps ==
    ASSUME KInv, NEW t \in Tasks, NEW r \in DOMAIN rooms, NEW b \in BucketIds,
           NEW raw \in RawNames, NewBucket(t, r, b, raw)
    PROVE  KInv'
<1> DEFINE rec == [label |-> LabelOption(raw), flags |-> {}]
           cmd == [op |-> "NewBucket", room |-> r, bucket |-> b, record |-> rec]
           x   == [pc |-> "record", cmd |-> cmd, local |-> None]
<1>1. LockFor(t, "NewBucket", r) /\ Begin(t, "record", cmd, None) /\ rooms[r].loaded
  BY Zenon DEF NewBucket, LockFor, Loaded
<1>2. MemoryOK' /\ StepOK /\ next_room_id' = next_room_id
  BY <1>1, NewBucketMemory DEF KInv, NewBucket
<1>3. Move(t, x)
  <2> HIDE DEF cmd
  <2> QED
    BY <1>1, Moves DEF KInv
<1>4. rec \in BucketDef
  BY RoomAssumption DEF BucketDef, LabelOption
<1>5. r \in Ids /\ r < next_room_id
  BY LiveRooms DEF KInv
<1>6. TaskOK(x, next_room_id', DOMAIN db')
  <2> HIDE DEF rec
  <2> QED
    BY <1>2, <1>4, <1>5 DEF TaskOK, PcLabels, Owning, Writing, Loading, BucketCmd
<1>7. x.pc \in Owning
  BY DEF Owning
<1> HIDE DEF x
<1> QED
  BY <1>1, <1>2, <1>3, <1>6, <1>7, LockTaken

LEMMA DeleteBucketKeeps ==
    ASSUME KInv, NEW t \in Tasks, NEW r \in DOMAIN rooms, NEW b \in BucketIds,
           DeleteBucket(t, r, b)
    PROVE  KInv'
<1> DEFINE cmd == [op |-> "DeleteBucket", room |-> r, bucket |-> b]
           x   == [pc |-> "record", cmd |-> cmd, local |-> None]
<1>1. LockFor(t, "DeleteBucket", r) /\ Begin(t, "record", cmd, None) /\ rooms[r].loaded
  BY Zenon DEF DeleteBucket, LockFor, Loaded
<1>2. MemoryOK' /\ StepOK /\ next_room_id' = next_room_id
  BY <1>1, DeleteBucketMemory DEF KInv, DeleteBucket
<1>3. Move(t, x)
  <2> HIDE DEF cmd
  <2> QED
    BY <1>1, Moves DEF KInv
<1>5. r \in Ids /\ r < next_room_id
  BY LiveRooms DEF KInv
<1>6. TaskOK(x, next_room_id', DOMAIN db') /\ x.pc \in Owning
  BY <1>2, <1>5 DEF TaskOK, PcLabels, Owning, Writing, Loading, BucketCmd
<1> HIDE DEF x
<1> QED
  BY <1>1, <1>2, <1>3, <1>6, LockTaken

LEMMA NewMemberKeeps ==
    ASSUME KInv, NEW t \in Tasks, NEW r \in DOMAIN rooms, NEW raw \in RawNames,
           NewMember(t, r, raw)
    PROVE  KInv'
<1> DEFINE m   == Trim[raw]
           cmd == [op |-> "NewMember", room |-> r, member |-> m]
           x   == [pc |-> "members", cmd |-> cmd, local |-> None]
           M   == rooms[r].members \cup ({m} \ {Empty})
<1>1. LockFor(t, "NewMember", r) /\ Begin(t, "members", cmd, None) /\ rooms[r].loaded
  BY Zenon DEF NewMember, LockFor, Loaded
<1>2. m \in RawNames /\ M \in SUBSET RawNames
  BY RoomAssumption, RoomFields DEF KInv, MemoryOK, IInv, RoomOK
<1>3. SetRoom(r, [rooms[r] EXCEPT !.members = M])
  BY Zenon DEF NewMember
<1>4. MemoryOK' /\ StepOK /\ next_room_id' = next_room_id
  <2> HIDE DEF M
  <2> QED
    BY <1>1, <1>2, <1>3, MembersMemory DEF KInv
<1>5. Move(t, x)
  <2> HIDE DEF cmd
  <2> QED
    BY <1>1, Moves DEF KInv
<1>6. r \in Ids /\ r < next_room_id
  BY LiveRooms DEF KInv
<1>7. TaskOK(x, next_room_id', DOMAIN db') /\ x.pc \in Owning
  <2> HIDE DEF m
  <2> QED
    BY <1>2, <1>4, <1>6 DEF TaskOK, PcLabels, Owning, Writing, Loading, MemberCmd
<1> HIDE DEF x
<1> QED
  BY <1>1, <1>4, <1>5, <1>7, LockTaken

LEMMA DeleteMemberKeeps ==
    ASSUME KInv, NEW t \in Tasks, NEW r \in DOMAIN rooms, NEW raw \in RawNames,
           DeleteMember(t, r, raw)
    PROVE  KInv'
<1> DEFINE m   == Trim[raw]
           cmd == [op |-> "DeleteMember", room |-> r, member |-> m]
           x   == [pc |-> "members", cmd |-> cmd, local |-> None]
           M   == rooms[r].members \ {m}
<1>1. LockFor(t, "DeleteMember", r) /\ Begin(t, "members", cmd, None) /\ rooms[r].loaded
  BY Zenon DEF DeleteMember, LockFor, Loaded
<1>2. m \in RawNames /\ M \in SUBSET RawNames
  BY RoomAssumption, RoomFields DEF KInv, MemoryOK, IInv, RoomOK
<1>3. SetRoom(r, [rooms[r] EXCEPT !.members = M])
  BY Zenon DEF DeleteMember
<1>4. MemoryOK' /\ StepOK /\ next_room_id' = next_room_id
  <2> HIDE DEF M
  <2> QED
    BY <1>1, <1>2, <1>3, MembersMemory DEF KInv
<1>5. Move(t, x)
  <2> HIDE DEF cmd
  <2> QED
    BY <1>1, Moves DEF KInv
<1>6. r \in Ids /\ r < next_room_id
  BY LiveRooms DEF KInv
<1>7. TaskOK(x, next_room_id', DOMAIN db') /\ x.pc \in Owning
  <2> HIDE DEF m
  <2> QED
    BY <1>2, <1>4, <1>6 DEF TaskOK, PcLabels, Owning, Writing, Loading, MemberCmd
<1> HIDE DEF x
<1> QED
  BY <1>1, <1>4, <1>5, <1>7, LockTaken
-----------------------------------------------------------------------------
(* What those requests put on disk, and the failures of that.               *)
LEMMA OwnerPersists ==
    ASSUME KInv, UNCHANGED vars, NEW t \in Tasks, task[t].pc \in Owning, NEW c \in Content,
           WriteDb(task[t].cmd.room, c), c.fragments = Fragments(task[t].cmd.room),
           UNCHANGED <<cache, sent, acked, crashes, issued>>,
           faults' = faults \/ (faults < MaxFaults /\ faults' = faults + 1),
           NEW x, Move(t, x), x.pc \notin Writing, TaskOK(x, next_room_id, DOMAIN db),
           LockOK'
    PROVE  KInv'
<1>1. MemoryOK' /\ StepOK /\ next_room_id' = next_room_id
  BY MemorySame DEF KInv, vars
<1>2. task[t].cmd.room \in Ids /\ task[t].cmd.room < next_room_id
  BY DEF KInv, TasksOK, TaskOK, Owning
<1>3. /\ DiskOK' /\ DOMAIN db \subseteq DOMAIN db'
      /\ \A r \in Ids : Fragments(r)' = Fragments(r)
  BY <1>2, DiskWritten DEF KInv
<1>4. FreshIdsHoldNoData'
  BY <1>1, <1>2, FreshKept
<1>5. LedgerOK'
  BY LedgerKept
<1>6. TaskOK(x, next_room_id', DOMAIN db')
  BY <1>1, <1>3, IdsGrow, TaskStaysOK DEF KInv
<1> QED
  BY <1>1, <1>3, <1>4, <1>5, <1>6, Stepped

LEMMA AppliedOK ==
    ASSUME NEW cmd, BucketCmd(cmd), NEW f \in Records
    PROVE  Applied(cmd, f) \in Records
  BY RecordsEdited DEF Applied, BucketCmd

LEMMA PutRecordKeeps == ASSUME KInv, NEW t \in Tasks, PutRecord(t) PROVE KInv'
<1> DEFINE cmd == task[t].cmd
           old == DbOf(cmd.room)
           R   == Applied(cmd, old.records)
           c   == [old EXCEPT !.records = R]
           x   == [pc |-> "list", cmd |-> cmd, local |-> task[t].local]
<1>1. /\ task[t].pc = "record" /\ WriteDb(cmd.room, c) /\ Goto(t, "list")
      /\ UNCHANGED vars /\ UNCHANGED <<cache, state_lock, sent, acked, issued, crashes, faults>>
  BY Zenon DEF PutRecord, budget
<1>2. TaskOK(task[t], next_room_id, DOMAIN db)
  BY DEF KInv, TasksOK
<1>3. Move(t, x)
  BY <1>1, Moves DEF KInv
<1>4. TaskOK(x, next_room_id, DOMAIN db) /\ x.pc \notin Writing /\ task[t].pc \in Owning
  BY <1>1, <1>2 DEF TaskOK, PcLabels, Owning, Writing, Loading
<1>5. LockOK'
  BY <1>1, <1>3, LockMoves DEF KInv, Owning
<1>6. old \in Content /\ old.records \in Records
  BY DiskContent, ContentEdited DEF KInv
<1>7. R \in Records
  <2>1. BucketCmd(cmd)
    BY <1>1, <1>2 DEF TaskOK
  <2> HIDE DEF cmd, old
  <2> QED
    BY <1>6, <2>1, AppliedOK
<1> HIDE DEF R
<1>8. c \in Content /\ c.fragments = Fragments(cmd.room)
  BY <1>6, <1>7, ContentEdited DEF Fragments
<1> HIDE DEF c, x
<1> QED
  BY <1>1, <1>3, <1>4, <1>5, <1>8, OwnerPersists

(* The list may name any of the records when the scan ends early.           *)
LEMMA ListKeeps ==
    ASSUME KInv, NEW t \in Tasks, task[t].pc = "list",
           NEW found \in SUBSET DOMAIN DbOf(task[t].cmd.room).records,
           WriteDb(task[t].cmd.room, [DbOf(task[t].cmd.room) EXCEPT !.list = found]),
           Goto(t, "cache"), UNCHANGED vars,
           UNCHANGED <<cache, state_lock, sent, acked, crashes, issued>>,
           faults' = faults \/ (faults < MaxFaults /\ faults' = faults + 1)
    PROVE  KInv'
<1> DEFINE cmd == task[t].cmd
           old == DbOf(cmd.room)
           c   == [old EXCEPT !.list = found]
           x   == [pc |-> "cache", cmd |-> cmd, local |-> task[t].local]
<1>1. TaskOK(task[t], next_room_id, DOMAIN db)
  BY DEF KInv, TasksOK
<1>2. Move(t, x)
  BY Moves DEF KInv
<1>3. TaskOK(x, next_room_id, DOMAIN db) /\ x.pc \notin Writing /\ task[t].pc \in Owning
  BY <1>1 DEF TaskOK, PcLabels, Owning, Writing, Loading
<1>4. LockOK'
  BY <1>2, LockMoves DEF KInv, Owning
<1>5. old \in Content /\ old.records \in Records
  BY DiskContent, ContentEdited DEF KInv
<1>6. found \in (SUBSET BucketIds) \cup {Absent}
  <2>1. DOMAIN old.records \subseteq BucketIds
    BY <1>5, RecordsAre
  <2> QED
    BY <2>1
<1>7. c \in Content /\ c.fragments = Fragments(cmd.room)
  BY <1>5, <1>6, ContentEdited DEF Fragments
<1>8. WriteDb(cmd.room, c)
  OBVIOUS
<1> HIDE DEF c, x
<1> QED
  BY <1>2, <1>3, <1>4, <1>7, <1>8, OwnerPersists

LEMMA PutListKeeps == ASSUME KInv, NEW t \in Tasks, PutList(t) PROVE KInv'
  BY ListKeeps DEF PutList, budget

LEMMA ShortListKeeps == ASSUME KInv, NEW t \in Tasks, ShortList(t) PROVE KInv'
<1>1. PICK found \in SUBSET DOMAIN DbOf(task[t].cmd.room).records :
         WriteDb(task[t].cmd.room, [DbOf(task[t].cmd.room) EXCEPT !.list = found])
  BY DEF ShortList
<1> QED
  BY <1>1, ListKeeps DEF ShortList

LEMMA PutMembersKeeps == ASSUME KInv, NEW t \in Tasks, PutMembers(t) PROVE KInv'
<1> DEFINE cmd == task[t].cmd
           old == DbOf(cmd.room)
           M   == IF cmd.op = "NewMember" THEN old.members \cup ({cmd.member} \ {Empty})
                  ELSE old.members \ {cmd.member}
           c   == [old EXCEPT !.members = M]
<1>1. /\ task[t].pc = "members" /\ WriteDb(cmd.room, c) /\ Done(t) /\ state_lock' = Free
      /\ UNCHANGED vars /\ UNCHANGED <<cache, sent, acked, issued, crashes, faults>>
  BY Zenon DEF PutMembers, budget
<1>2. TaskOK(task[t], next_room_id, DOMAIN db)
  BY DEF KInv, TasksOK
<1>3. Move(t, Idle)
  BY <1>1, Moves DEF KInv
<1>4. /\ TaskOK(Idle, next_room_id, DOMAIN db) /\ task[t].pc \in Owning
      /\ Idle.pc \notin Writing /\ Idle.pc \notin Owning
  BY <1>1, IdleOK DEF Idle, Owning, Writing
<1>5. LockOK'
  BY <1>1, <1>3, <1>4, LockMoves DEF KInv
<1>6. old \in Content /\ old.members \in SUBSET (RawNames \ {Empty})
  BY DiskContent, ContentEdited DEF KInv
<1>7. M \in SUBSET (RawNames \ {Empty})
  <2>1. cmd.member \in RawNames
    BY <1>1, <1>2 DEF TaskOK, MemberCmd
  <2> HIDE DEF cmd, old
  <2> QED
    BY <1>6, <2>1
<1> HIDE DEF M
<1>8. c \in Content /\ c.fragments = Fragments(cmd.room)
  BY <1>6, <1>7, ContentEdited DEF Fragments
<1> HIDE DEF c
<1> QED
  BY <1>1, <1>3, <1>4, <1>5, <1>8, OwnerPersists

(* Steps that leave memory and the databases alone.                         *)
LEMMA DiskStands ==
    ASSUME KInv, UNCHANGED vars, db' = db, UNCHANGED <<sent, acked, crashes, issued>>,
           DOMAIN cache' \subseteq DOMAIN db, cache' \in [DOMAIN cache' -> Records],
           faults' = faults \/ (faults < MaxFaults /\ faults' = faults + 1),
           NEW t \in Tasks, NEW x, Move(t, x), x.pc \notin Writing,
           TaskOK(x, next_room_id, DOMAIN db), LockOK'
    PROVE  KInv'
<1>1. MemoryOK' /\ StepOK /\ next_room_id' = next_room_id
  BY MemorySame DEF KInv, vars
<1>2. DiskOK'
  BY DEF KInv, DiskOK
<1>3. LedgerOK'
  BY LedgerKept
<1> QED
  BY <1>1, <1>2, <1>3, DiskSame, Stepped

LEMMA CacheIs ==
    ASSUME DiskOK
    PROVE  /\ DOMAIN cache \subseteq DOMAIN db /\ cache \in [DOMAIN cache -> Records]
           /\ \A r \in DOMAIN cache : cache[r] \in Records
  BY DEF DiskOK

LEMMA UpdateCacheKeeps == ASSUME KInv, NEW t \in Tasks, UpdateCache(t) PROVE KInv'
<1> DEFINE cmd == task[t].cmd
           R   == Applied(cmd, cache[cmd.room])
<1>1. /\ task[t].pc = "cache" /\ Done(t) /\ state_lock' = Free
      /\ cache' = IF cmd.room \in DOMAIN cache THEN [cache EXCEPT ![cmd.room] = R] ELSE cache
      /\ UNCHANGED vars /\ UNCHANGED <<db, sent, acked, issued, crashes, faults>>
  BY Zenon DEF UpdateCache, budget
<1>2. TaskOK(task[t], next_room_id, DOMAIN db)
  BY DEF KInv, TasksOK
<1>3. Move(t, Idle)
  BY <1>1, Moves DEF KInv
<1>4. /\ TaskOK(Idle, next_room_id, DOMAIN db) /\ task[t].pc \in Owning
      /\ Idle.pc \notin Writing /\ Idle.pc \notin Owning
  BY <1>1, IdleOK DEF Idle, Owning, Writing
<1>5. LockOK'
  BY <1>1, <1>3, <1>4, LockMoves DEF KInv
<1>6. DOMAIN cache' \subseteq DOMAIN db /\ cache' \in [DOMAIN cache' -> Records]
  <2>1. BucketCmd(cmd)
    BY <1>1, <1>2 DEF TaskOK
  <2>2. CASE cmd.room \in DOMAIN cache
    <3>1. R \in Records
      BY <2>1, <2>2, CacheIs, AppliedOK DEF KInv
    <3> HIDE DEF R
    <3> QED
      BY <1>1, <2>2, <3>1, CacheIs DEF KInv
  <2>3. CASE cmd.room \notin DOMAIN cache
    BY <1>1, <2>3, CacheIs DEF KInv
  <2> QED
    BY <2>2, <2>3
<1> QED
  BY <1>1, <1>3, <1>4, <1>5, <1>6, DiskStands

LEMMA EvictKeeps == ASSUME KInv, NEW r \in DOMAIN cache, Evict(r) PROVE KInv'
<1>1. /\ cache' = [q \in DOMAIN cache \ {r} |-> cache[q]] /\ db' = db
      /\ UNCHANGED vars /\ UNCHANGED <<state_lock, task, sent, acked, issued, crashes, faults>>
  BY DEF Evict, Without, budget
<1>2. MemoryOK' /\ StepOK
  BY <1>1, MemorySame DEF KInv
<1>3. DiskOK'
  BY <1>1 DEF KInv, DiskOK
<1>4. LedgerOK'
  BY <1>1, LedgerKept
<1> QED
  BY <1>1, <1>2, <1>3, <1>4, DiskSame, TasksStand
-----------------------------------------------------------------------------
(* LoadRoom.                                                                *)
LEMMA LoadableEdited ==
    ASSUME NEW loc \in Loadable
    PROVE  /\ \A R \in Records : [loc EXCEPT !.defs = R] \in Loadable
           /\ \A M \in SUBSET (RawNames \ {Empty}) : [loc EXCEPT !.members = M] \in Loadable
           /\ \A F \in [Slots -> Values \cup {Absent}] : [loc EXCEPT !.fragments = F] \in Loadable
<1>1. \A M \in SUBSET (RawNames \ {Empty}) : M \in SUBSET RawNames
  OBVIOUS
<1>2. \A F \in [Slots -> Values \cup {Absent}] : F \in [Slots -> Values \cup {Null, Absent}]
  OBVIOUS
<1> QED
  BY <1>1, <1>2 DEF Loadable

LEMMA ImageOK ==
    ASSUME NEW R \in Records
    PROVE  Image \in Loadable /\ [Image EXCEPT !.defs = R] \in Loadable
<1> DEFINE none == << >>
           blank == [s \in Slots |-> Absent]
           F == [Slots -> Values \cup {Null, Absent}]
<1>1. none = EmptyDb.records /\ blank = EmptyDb.fragments
  BY DEF EmptyDb
<1>2. none \in Records
  BY <1>1, EmptyDbOK, ContentEdited
<1>3. blank \in F /\ {} \in SUBSET RawNames
  OBVIOUS
<1>4. Image = [defs |-> none, members |-> {}, fragments |-> blank]
  BY <1>1 DEF Image
<1> HIDE DEF none, blank
<1>5. Loadable = [defs : Records, members : SUBSET RawNames, fragments : F]
  BY DEF Loadable
<1> HIDE DEF F
<1>6. Image \in Loadable
  BY <1>2, <1>3, <1>4, <1>5
<1> QED
  BY <1>6, LoadableEdited

LEMMA LoadableIsImage == ASSUME NEW loc \in Loadable PROVE IsImage(loc)
<1>1. /\ loc.defs \in Records /\ loc.members \in SUBSET RawNames
      /\ loc.fragments \in [Slots -> Values \cup {Null, Absent}]
  BY DEF Loadable
<1>2. DOMAIN loc.defs \subseteq BucketIds /\ \A b \in DOMAIN loc.defs : loc.defs[b] \in BucketDef
  BY <1>1, RecordsAre
<1> QED
  BY <1>1, <1>2 DEF IsImage

LEMMA LoaderMoves ==
    ASSUME KInv, UNCHANGED vars, db' = db,
           UNCHANGED <<state_lock, sent, acked, crashes, issued>>,
           DOMAIN cache' \subseteq DOMAIN db, cache' \in [DOMAIN cache' -> Records],
           faults' = faults \/ (faults < MaxFaults /\ faults' = faults + 1),
           NEW t \in Tasks, task[t].pc \in Loading,
           NEW label \in Loading \ {"load_records"}, NEW loc \in Loadable,
           Move(t, [pc |-> label, cmd |-> task[t].cmd, local |-> loc])
    PROVE  KInv'
<1> DEFINE x == [pc |-> label, cmd |-> task[t].cmd, local |-> loc]
<1>1. TaskOK(task[t], next_room_id, DOMAIN db)
  BY DEF KInv, TasksOK
<1>2. TaskOK(x, next_room_id, DOMAIN db) /\ x.pc \notin Writing /\ x.pc \notin Owning
  BY <1>1 DEF TaskOK, PcLabels, Owning, Writing, Loading
<1>3. task[t].pc \notin Owning
  BY DEF Loading, Owning
<1>4. Move(t, x)
  OBVIOUS
<1> HIDE DEF x
<1>5. LockOK'
  BY <1>2, <1>3, <1>4, LockMoves DEF KInv
<1> QED
  BY <1>2, <1>4, <1>5, DiskStands

LEMMA LoaderEnds ==
    ASSUME KInv, UNCHANGED vars, db' = db,
           UNCHANGED <<cache, state_lock, sent, acked, crashes, issued>>,
           faults' = faults \/ (faults < MaxFaults /\ faults' = faults + 1),
           NEW t \in Tasks, task[t].pc \in Loading, Done(t)
    PROVE  KInv'
<1>1. Move(t, Idle)
  BY Moves DEF KInv
<1>2. /\ TaskOK(Idle, next_room_id, DOMAIN db) /\ task[t].pc \notin Owning
      /\ Idle.pc \notin Writing /\ Idle.pc \notin Owning
  BY IdleOK DEF Idle, Owning, Writing, Loading
<1>3. LockOK'
  BY <1>1, <1>2, LockMoves DEF KInv
<1> QED
  BY <1>1, <1>2, <1>3, CacheIs, DiskStands DEF KInv

LEMMA Loader ==
    ASSUME KInv, NEW t \in Tasks, task[t].pc \in Loading
    PROVE  /\ task[t].local \in Loadable /\ DbOf(task[t].cmd.room) \in Content
           /\ task[t].cmd.room \in DOMAIN db
           /\ \A R \in Records : [task[t].local EXCEPT !.defs = R] \in Loadable
           /\ \A D \in SUBSET DOMAIN DbOf(task[t].cmd.room).records :
                 [b \in D |-> DbOf(task[t].cmd.room).records[b]] \in Records
           /\ task[t].local.defs \in Records
           /\ DbOf(task[t].cmd.room).records \in Records
<1>1. task[t].local \in Loadable /\ DbOf(task[t].cmd.room) \in Content
      /\ task[t].cmd.room \in DOMAIN db
  BY DiskContent DEF KInv, TasksOK, TaskOK
<1>2. task[t].local.defs \in Records /\ DbOf(task[t].cmd.room).records \in Records
  BY <1>1, ContentEdited DEF Loadable
<1> QED
  BY <1>1, <1>2, LoadableEdited, RecordsEdited

LEMMA StartLoadKeeps == ASSUME KInv, NEW t \in Tasks, NEW r \in Ids, StartLoad(t, r) PROVE KInv'
<1> DEFINE cmd == [op |-> "LoadRoom", room |-> r]
           img == [Image EXCEPT !.defs = cache[r]]
<1>1. /\ WriteDb(r, DbOf(r)) /\ UNCHANGED vars /\ Issue("LoadRoom")
      /\ UNCHANGED <<cache, state_lock, sent, acked, crashes, faults>>
      /\ task[t].pc = "idle"
      /\ \/ r \in DOMAIN cache /\ Begin(t, "load_members", cmd, img)
         \/ r \notin DOMAIN cache /\ Begin(t, "load_list", cmd, Image)
  BY Zenon DEF StartLoad, Begin
<1>2. PICK label \in {"load_members", "load_list"}, loc \in Loadable :
         Begin(t, label, cmd, loc)
  <2>1. r \in DOMAIN cache => img \in Loadable
    BY CacheIs, ImageOK DEF KInv
  <2>2. Image \in Loadable
    BY ImageOK, EmptyDbOK, ContentEdited
  <2> HIDE DEF cmd, img
  <2> QED
    BY <1>1, <2>1, <2>2
<1> DEFINE x == [pc |-> label, cmd |-> cmd, local |-> loc]
<1>3. Move(t, x)
  <2> HIDE DEF cmd
  <2> QED
    BY <1>2, Moves DEF KInv
<1>4. MemoryOK' /\ StepOK /\ next_room_id' = next_room_id
  BY <1>1, MemorySame DEF KInv, vars
<1>5. DbOf(r) \in Content /\ DiskOK
  BY DiskContent DEF KInv
<1>6. /\ DiskOK' /\ DOMAIN db \subseteq DOMAIN db' /\ r \in DOMAIN db'
      /\ \A q \in Ids : Fragments(q)' = Fragments(q)
  BY <1>1, <1>5, DiskWritten, ZenonT(40) DEF Fragments
<1>7. FreshIdsHoldNoData'
  BY <1>1, <1>4, <1>5, FreshKept
<1>8. LedgerOK'
  BY <1>1, LedgerKept DEF Issue
<1>9. /\ TaskOK(x, next_room_id', DOMAIN db')
      /\ x.pc \notin Writing /\ x.pc \notin Owning /\ task[t].pc \notin Owning
  BY <1>1, <1>2, <1>6 DEF TaskOK, PcLabels, Owning, Writing, Loading
<1> HIDE DEF x
<1>10. LockOK'
  BY <1>1, <1>3, <1>9, LockMoves DEF KInv
<1> QED
  BY <1>1, <1>3, <1>4, <1>6, <1>7, <1>8, <1>9, <1>10, Stepped

LEMMA LoadListKeeps == ASSUME KInv, NEW t \in Tasks, LoadList(t) PROVE KInv'
<1> DEFINE old == DbOf(task[t].cmd.room)
           loc == [task[t].local EXCEPT !.defs = old.records]
           cmd == [op |-> "LoadRoom", room |-> task[t].cmd.room, list |-> old.list]
           x   == [pc |-> "load_records", cmd |-> cmd, local |-> task[t].local]
<1>1. /\ task[t].pc = "load_list" /\ UNCHANGED vars /\ db' = db
      /\ UNCHANGED <<cache, state_lock, sent, acked, crashes, issued, faults>>
      /\ \/ old.list = Absent /\ Keep(t, "load_cache", loc)
         \/ /\ old.list # Absent
            /\ task' = [task EXCEPT ![t] = [@ EXCEPT !.pc = "load_records", !.cmd = cmd]]
  BY Zenon DEF LoadList, budget, diskVars
<1>2. task[t].pc \in Loading
  BY <1>1 DEF Loading
<1>3. loc \in Loadable /\ task[t].local \in Loadable /\ old \in Content
  BY <1>2, Loader
<1>4. CASE old.list = Absent
  <2>1. Move(t, [pc |-> "load_cache", cmd |-> task[t].cmd, local |-> loc])
    <3> HIDE DEF loc
    <3> QED
      BY <1>1, <1>4, Moves DEF KInv
  <2> HIDE DEF loc
  <2> QED
    BY <1>1, <1>2, <1>3, <2>1, CacheIs, LoaderMoves DEF KInv, Loading
<1>5. CASE old.list # Absent
  <2>1. old.list \subseteq BucketIds
    BY <1>3, <1>5, ContentEdited
  <2>2. TaskOK(task[t], next_room_id, DOMAIN db)
    BY DEF KInv, TasksOK
  <2>3. Move(t, [task[t] EXCEPT !.pc = "load_records", !.cmd = cmd])
    <3> HIDE DEF cmd
    <3> QED
      BY <1>1, <1>5 DEF KInv, TasksOK, Move
  <2>4. [task[t] EXCEPT !.pc = "load_records", !.cmd = cmd] = x
    <3> DEFINE z == task[t]
               y == [z EXCEPT !.pc = "load_records", !.cmd = cmd]
    <3>1. z \in [pc : {z.pc}, cmd : {z.cmd}, local : {z.local}]
      BY <2>2 DEF TaskOK
    <3> HIDE DEF z, cmd
    <3>2. /\ y.pc = "load_records" /\ y.local = z.local /\ y.cmd = cmd
          /\ y \in [pc : {"load_records"}, cmd : {cmd}, local : {z.local}]
      BY <3>1
    <3> HIDE DEF y
    <3>3. y = [pc |-> "load_records", cmd |-> cmd, local |-> z.local]
      BY <3>2
    <3> QED
      BY <3>3 DEF z, y
  <2>5. Move(t, x)
    <3> HIDE DEF x
    <3> QED
      BY <2>3, <2>4
  <2>6. /\ TaskOK(x, next_room_id, DOMAIN db)
        /\ x.pc \notin Writing /\ x.pc \notin Owning /\ task[t].pc \notin Owning
    BY <1>1, <1>3, <2>1, <2>2 DEF TaskOK, PcLabels, Owning, Writing, Loading
  <2> HIDE DEF x
  <2>7. LockOK'
    BY <1>1, <2>5, <2>6, LockMoves DEF KInv
  <2> QED
    BY <1>1, <2>5, <2>6, <2>7, CacheIs, DiskStands DEF KInv
<1> QED
  BY <1>4, <1>5

\* The step that ends the reading of bucket records, with whatever it found.
LEMMA RecordsRead ==
    ASSUME KInv, NEW t \in Tasks, task[t].pc \in Loading, UNCHANGED vars, db' = db,
           UNCHANGED <<cache, state_lock, sent, acked, crashes, issued>>,
           faults' = faults \/ (faults < MaxFaults /\ faults' = faults + 1),
           NEW D \in SUBSET DOMAIN DbOf(task[t].cmd.room).records,
           Keep(t, "load_cache", [task[t].local EXCEPT
                   !.defs = [b \in D |-> DbOf(task[t].cmd.room).records[b]]])
    PROVE  KInv'
<1> DEFINE R   == [b \in D |-> DbOf(task[t].cmd.room).records[b]]
           loc == [task[t].local EXCEPT !.defs = R]
<1>1. R \in Records
  BY Loader
<1>2. Keep(t, "load_cache", loc)
  OBVIOUS
<1> HIDE DEF R
<1>3. loc \in Loadable
  BY <1>1, Loader
<1> HIDE DEF loc
<1>4. Move(t, [pc |-> "load_cache", cmd |-> task[t].cmd, local |-> loc])
  BY <1>2, Moves DEF KInv
<1> QED
  BY <1>3, <1>4, CacheIs, LoaderMoves DEF KInv, Loading

LEMMA LoadRecordsKeeps == ASSUME KInv, NEW t \in Tasks, LoadRecords(t) PROVE KInv'
<1> DEFINE D == task[t].cmd.list \cap DOMAIN DbOf(task[t].cmd.room).records
<1>1. task[t].pc \in Loading /\ D \in SUBSET DOMAIN DbOf(task[t].cmd.room).records
  BY DEF LoadRecords, Loading
<1>2. /\ Keep(t, "load_cache", [task[t].local EXCEPT
                   !.defs = [b \in D |-> DbOf(task[t].cmd.room).records[b]]])
      /\ UNCHANGED vars /\ db' = db
      /\ UNCHANGED <<cache, state_lock, sent, acked, crashes, issued, faults>>
  BY Zenon DEF LoadRecords, budget, diskVars
<1> HIDE DEF D
<1> QED
  BY <1>1, <1>2, RecordsRead

LEMMA LoadCacheKeeps == ASSUME KInv, NEW t \in Tasks, LoadCache(t) PROVE KInv'
<1>1. /\ task[t].pc = "load_cache" /\ task[t].pc \in Loading /\ Goto(t, "load_members")
      /\ cache' = With(cache, task[t].cmd.room, task[t].local.defs)
      /\ UNCHANGED vars /\ db' = db
      /\ UNCHANGED <<state_lock, sent, acked, crashes, issued, faults>>
  BY DEF LoadCache, budget, Loading
<1>2. /\ task[t].local \in Loadable /\ task[t].local.defs \in Records
      /\ task[t].cmd.room \in DOMAIN db
  BY <1>1, Loader
<1>3. DOMAIN cache' \subseteq DOMAIN db /\ cache' \in [DOMAIN cache' -> Records]
  BY <1>1, <1>2, CacheIs DEF KInv, With
<1>4. Move(t, [pc |-> "load_members", cmd |-> task[t].cmd, local |-> task[t].local])
  BY <1>1, Moves DEF KInv
<1> QED
  BY <1>1, <1>2, <1>3, <1>4, LoaderMoves DEF Loading

LEMMA LoadMembersKeeps == ASSUME KInv, NEW t \in Tasks, LoadMembers(t) PROVE KInv'
<1> DEFINE loc == [task[t].local EXCEPT !.members = DbOf(task[t].cmd.room).members]
<1>1. /\ task[t].pc \in Loading /\ Keep(t, "load_fragments", loc)
      /\ UNCHANGED vars /\ db' = db
      /\ UNCHANGED <<cache, state_lock, sent, acked, crashes, issued, faults>>
  BY DEF LoadMembers, budget, Loading, diskVars
<1>2. loc \in Loadable
  BY <1>1, Loader, ContentEdited, LoadableEdited
<1> HIDE DEF loc
<1>3. Move(t, [pc |-> "load_fragments", cmd |-> task[t].cmd, local |-> loc])
  BY <1>1, Moves DEF KInv
<1> QED
  BY <1>1, <1>2, <1>3, CacheIs, LoaderMoves DEF KInv, Loading

LEMMA LoadFragmentsKeeps == ASSUME KInv, NEW t \in Tasks, LoadFragments(t) PROVE KInv'
<1> DEFINE loc == [task[t].local EXCEPT !.fragments = DbOf(task[t].cmd.room).fragments]
<1>1. /\ task[t].pc \in Loading /\ Keep(t, "install", loc)
      /\ UNCHANGED vars /\ db' = db
      /\ UNCHANGED <<cache, state_lock, sent, acked, crashes, issued, faults>>
  BY DEF LoadFragments, budget, Loading, diskVars
<1>2. loc \in Loadable
  BY <1>1, Loader, ContentEdited, LoadableEdited
<1> HIDE DEF loc
<1>3. Move(t, [pc |-> "install", cmd |-> task[t].cmd, local |-> loc])
  BY <1>1, Moves DEF KInv
<1> QED
  BY <1>1, <1>2, <1>3, CacheIs, LoaderMoves DEF KInv, Loading

LEMMA InstallKeeps == ASSUME KInv, NEW t \in Tasks, Install(t) PROVE KInv'
<1>1. /\ task[t].pc = "install" /\ task[t].pc \in Loading /\ Done(t) /\ db' = db
      /\ UNCHANGED <<cache, state_lock, sent, acked, crashes, issued, faults>>
  BY DEF Install, budget, Loading, diskVars
<1>2. CASE task[t].cmd.room \in DOMAIN rooms
  <2>1. load_room_data(task[t].cmd.room, task[t].local) /\ IsImage(task[t].local)
    BY <1>1, <1>2, Loader, LoadableIsImage DEF Install
  <2>2. MemoryOK' /\ StepOK
    BY <1>2, <2>1, InstallMemory DEF KInv
  <2>3. Move(t, Idle)
    BY <1>1, Moves DEF KInv
  <2>4. /\ TaskOK(Idle, next_room_id', DOMAIN db') /\ task[t].pc \notin Owning
        /\ Idle.pc \notin Writing /\ Idle.pc \notin Owning
    BY <1>1, IdleOK DEF Idle, Owning, Writing
  <2>5. LockOK'
    BY <1>1, <2>3, <2>4, LockMoves DEF KInv
  <2>6. LedgerOK'
    BY <1>1, LedgerKept
  <2> QED
    BY <1>1, <2>2, <2>3, <2>4, <2>5, <2>6, DiskSame, Stepped
<1>3. CASE task[t].cmd.room \notin DOMAIN rooms
  <2>1. UNCHANGED vars
    BY <1>3 DEF Install
  <2> QED
    BY <1>1, <2>1, LoaderEnds
<1> QED
  BY <1>2, <1>3

LEMMA ReadFaultKeeps == ASSUME KInv, NEW t \in Tasks, ReadFault(t) PROVE KInv'
<1> DEFINE records == DbOf(task[t].cmd.room).records
<1>1. /\ UNCHANGED vars /\ db' = db /\ faults < MaxFaults /\ faults' = faults + 1
      /\ UNCHANGED <<cache, state_lock, sent, acked, crashes, issued>>
  BY DEF ReadFault, diskVars
<1>2. CASE /\ task[t].pc = "load_list"
           /\ \E found \in IF DbOf(task[t].cmd.room).list = Absent THEN SUBSET DOMAIN records
                           ELSE {DOMAIN records} :
                 Keep(t, "load_cache",
                      [task[t].local EXCEPT !.defs = [b \in found |-> records[b]]])
  <2>1. PICK found \in SUBSET DOMAIN records :
           Keep(t, "load_cache", [task[t].local EXCEPT !.defs = [b \in found |-> records[b]]])
    BY <1>2
  <2>2. task[t].pc \in Loading
    BY <1>2 DEF Loading
  <2> QED
    BY <1>1, <2>1, <2>2, RecordsRead
<1>3. CASE /\ task[t].pc = "load_records"
           /\ \E unread \in task[t].cmd.list :
                 LET found == (task[t].cmd.list \cap DOMAIN records) \ {unread}
                 IN  Keep(t, "load_cache",
                          [task[t].local EXCEPT !.defs = [b \in found |-> records[b]]])
  <2>1. PICK found \in SUBSET DOMAIN records :
           Keep(t, "load_cache", [task[t].local EXCEPT !.defs = [b \in found |-> records[b]]])
    <3>1. PICK unread :
             LET found == (task[t].cmd.list \cap DOMAIN records) \ {unread}
             IN  Keep(t, "load_cache",
                      [task[t].local EXCEPT !.defs = [b \in found |-> records[b]]])
      BY <1>3
    <3>2. (task[t].cmd.list \cap DOMAIN records) \ {unread} \in SUBSET DOMAIN records
      OBVIOUS
    <3> QED
      BY <3>1, <3>2
  <2>2. task[t].pc \in Loading
    BY <1>3 DEF Loading
  <2> QED
    BY <1>1, <2>1, <2>2, RecordsRead
<1>4. CASE task[t].pc = "load_members" /\ Goto(t, "load_fragments")
  <2>1. task[t].pc \in Loading
    BY <1>4 DEF Loading
  <2>2. Move(t, [pc |-> "load_fragments", cmd |-> task[t].cmd, local |-> task[t].local])
    BY <1>4, Moves DEF KInv
  <2> QED
    BY <1>1, <2>1, <2>2, Loader, CacheIs, LoaderMoves DEF KInv, Loading
<1>5. CASE task[t].pc = "load_fragments" /\ Done(t)
  BY <1>1, <1>5, LoaderEnds DEF Loading
<1> QED
  BY <1>2, <1>3, <1>4, <1>5 DEF ReadFault
-----------------------------------------------------------------------------
(* WriteFragment.                                                           *)
LEMMA Writer ==
    ASSUME KInv, NEW t \in Tasks, task[t].pc \in Writing
    PROVE  /\ task[t].cmd.room \in Ids /\ task[t].cmd.room < next_room_id
           /\ task[t].cmd.slot \in Slots /\ task[t].cmd.value \in Values \cup {Null}
           /\ task[t].local \in Progress /\ task[t].local.alone \in BOOLEAN
           /\ task[t].local.version \in Nat /\ task[t].local.counter \in Nat
           /\ task[t].pc \notin Owning /\ task[t].pc \notin Loading /\ task[t].pc # "idle"
           /\ acked[<<task[t].cmd.room, task[t].cmd.slot>>] = Unknown
           /\ Reached(task[t])
<1>1. TaskOK(task[t], next_room_id, DOMAIN db)
  BY DEF KInv, TasksOK
<1>2. /\ task[t].pc \notin Owning /\ task[t].pc \notin Loading /\ task[t].pc # "idle"
  BY DEF Writing, Owning, Loading
<1>3. acked[<<task[t].cmd.room, task[t].cmd.slot>>] = Unknown /\ Reached(task[t])
  BY DEF KInv, WritesOK, VersionsOK
<1> QED
  BY <1>1, <1>2, <1>3 DEF TaskOK, WriteCmd, Progress

(* A write goes on: only its own slot may change on disk.                   *)
LEMMA WriterSteps ==
    ASSUME KInv, MemoryOK', StepOK, DiskOK', LedgerOK', FreshIdsHoldNoData',
           DOMAIN db \subseteq DOMAIN db', UNCHANGED <<state_lock, acked, sent>>,
           NEW t \in Tasks, task[t].pc \in Writing,
           NEW label \in Writing \ {"apply"}, NEW loc \in Progress,
           loc.alone => task[t].local.alone,
           Move(t, [pc |-> label, cmd |-> task[t].cmd, local |-> loc]),
           Reached(task[t])',
           \A r \in Ids, s \in Slots :
              r # task[t].cmd.room \/ s # task[t].cmd.slot
                 => Fragments(r)'[s] = Fragments(r)[s],
           label \in {"counter", "broadcast"} /\ loc.alone =>
              Fragments(task[t].cmd.room)'[task[t].cmd.slot] = Stored(task[t].cmd.value)
    PROVE  KInv'
<1> DEFINE x == [pc |-> label, cmd |-> task[t].cmd, local |-> loc]
<1>1. /\ task'[t] = x /\ task' = [u \in Tasks |-> task'[u]]
      /\ \A u \in Tasks \ {t} : task'[u] = task[u]
  BY DEF Move
<1>2. TaskOK(task[t], next_room_id, DOMAIN db) /\ WriteCmd(task[t].cmd)
      /\ task[t].cmd.room < next_room_id /\ task[t].cmd.room \in Ids
  BY Writer DEF KInv, TasksOK, WriteCmd
<1>3. /\ x.pc = label /\ x.cmd = task[t].cmd /\ x.local = loc
  OBVIOUS
<1>4. TaskOK(x, next_room_id, DOMAIN db)
  BY <1>2 DEF TaskOK, PcLabels, Owning, Writing, Loading
<1> HIDE DEF x
<1>5. TaskOK(x, next_room_id', DOMAIN db')
  BY <1>4, IdsGrow, TaskStaysOK DEF KInv
<1>6. TasksOK'
  BY <1>1, <1>5, TasksKept
<1>7. VersionsOK'
  BY <1>1, VersionsKept
<1>8. LockOK'
  <2>1. x.pc \notin Owning /\ task[t].pc \notin Owning /\ Move(t, x)
    BY <1>3 DEF Owning, Writing, x
  <2> QED
    BY <2>1, LockMoves DEF KInv
<1>9. /\ \A u \in Tasks : task'[u].pc \in Writing <=> task[u].pc \in Writing
      /\ \A u \in Tasks : task'[u].cmd = task[u].cmd
      /\ \A u \in Tasks : task'[u].local.alone => task[u].local.alone
  BY <1>1, <1>3
<1>10. ASSUME NEW u \in Tasks, u # t, task[u].pc \in Writing, task[u].local.alone
       PROVE  task[u].cmd.room # task[t].cmd.room \/ task[u].cmd.slot # task[t].cmd.slot
  BY <1>10 DEF KInv, WritesOK, SameSlot
<1>11. WritesOK'
  <2>1. (\A u, w \in Tasks : u # w /\ SameSlot(task[u], task[w]) => ~task[u].local.alone)'
    <3>1. \A u, w \in Tasks : SameSlot(task[u], task[w])' <=> SameSlot(task[u], task[w])
      BY <1>9 DEF SameSlot
    <3> QED
      BY <1>9, <3>1 DEF KInv, WritesOK
  <2>2. (\A u \in Tasks : task[u].pc \in Writing =>
            acked[<<task[u].cmd.room, task[u].cmd.slot>>] = Unknown)'
    BY <1>9 DEF KInv, WritesOK
  <2>3. ASSUME NEW u \in Tasks, task'[u].pc \in {"counter", "broadcast"}, task'[u].local.alone
        PROVE  Fragments(task[u].cmd.room)'[task[u].cmd.slot] = Stored(task[u].cmd.value)
    <3>1. CASE u = t
      BY <1>1, <1>3, <2>3, <3>1
    <3>2. CASE u # t
      <4>1. /\ task[u].pc \in {"counter", "broadcast"} /\ task[u].pc \in Writing
            /\ task[u].local.alone
        BY <1>1, <2>3, <3>2 DEF Writing
      <4>2. /\ task[u].cmd.room \in Ids /\ task[u].cmd.slot \in Slots
            /\ Fragments(task[u].cmd.room)[task[u].cmd.slot] = Stored(task[u].cmd.value)
        BY <4>1, Writer DEF KInv, WritesOK
      <4> QED
        BY <1>1, <1>10, <3>2, <4>1, <4>2 DEF Fragments, DbOf
    <3> QED
      BY <3>1, <3>2
  <2>4. (\A u \in Tasks :
            task[u].pc \in {"counter", "broadcast"} /\ task[u].local.alone =>
               Fragments(task[u].cmd.room)[task[u].cmd.slot] = Stored(task[u].cmd.value))'
    BY <1>9, <2>3 DEF Fragments, DbOf
  <2> QED
    BY <2>1, <2>2, <2>4 DEF WritesOK
<1>12. AckedWritesAreDurable'
  <2>1. ASSUME NEW r \in Ids, NEW s \in Slots, acked[<<r, s>>] # Unknown
        PROVE  Fragments(r)'[s] = Stored(acked[<<r, s>>])
    <3>1. r # task[t].cmd.room \/ s # task[t].cmd.slot
      BY <2>1, Writer
    <3>2. Fragments(r)[s] = Stored(acked[<<r, s>>])
      BY <2>1 DEF KInv, AckedWritesAreDurable, Fragments
    <3> QED
      BY <3>1, <3>2
  <2> QED
    BY <2>1 DEF AckedWritesAreDurable, Fragments, DbOf
<1> QED
  BY <1>6, <1>7, <1>8, <1>11, <1>12 DEF KInv

LEMMA ProgressEdited ==
    ASSUME NEW loc \in Progress
    PROVE  /\ \A n \in Nat : /\ [loc EXCEPT !.version = n] \in Progress
                             /\ [loc EXCEPT !.version = n].alone = loc.alone
                             /\ [loc EXCEPT !.version = n].version = n
           /\ \A n \in Nat : /\ [loc EXCEPT !.counter = n] \in Progress
                             /\ [loc EXCEPT !.counter = n].alone = loc.alone
                             /\ [loc EXCEPT !.counter = n].counter = n
                             /\ [loc EXCEPT !.counter = n].version = loc.version
           /\ [loc EXCEPT !.alone = FALSE] \in Progress
           /\ [loc EXCEPT !.alone = FALSE].alone = FALSE
           /\ [loc EXCEPT !.alone = FALSE].version = loc.version
           /\ [loc EXCEPT !.alone = FALSE].counter = loc.counter
  BY DEF Progress

LEMMA ApplyWriteKeeps == ASSUME KInv, NEW t \in Tasks, ApplyWrite(t) PROVE KInv'
<1> DEFINE cmd == task[t].cmd
           loc == task[t].local
           r   == cmd.room
<1>1. /\ task[t].pc = "apply" /\ task[t].pc \in Writing
      /\ db' = db /\ cache' = cache
      /\ UNCHANGED <<state_lock, sent, acked, issued, crashes, faults>>
      /\ \/ /\ Loaded(r) /\ set_fragment(r, cmd.slot, cmd.value)
            /\ Keep(t, "fragment", [loc EXCEPT !.version = rooms[r].room_counter + 1])
         \/ UNCHANGED vars /\ Goto(t, "fragment")
  BY Zenon DEF ApplyWrite, Writing, diskVars, budget
<1>2. LedgerOK'
  BY <1>1, LedgerKept
<1>3. CASE UNCHANGED vars /\ Goto(t, "fragment")
  <2>1. MemoryOK' /\ StepOK /\ rooms' = rooms
    BY <1>3, MemorySame DEF KInv, vars
  <2>2. Move(t, [pc |-> "fragment", cmd |-> cmd, local |-> loc])
    BY <1>3, Moves DEF KInv
  <2>3. loc \in Progress /\ loc.version = 0
    BY <1>1, Writer DEF KInv, TasksOK, TaskOK
  <2>4. Reached(task[t])'
    <3>1. /\ task'[t].pc = "fragment" /\ task'[t].cmd = cmd /\ task'[t].local.version = 0
      BY <2>2, <2>3 DEF Move
    <3>2. \A q \in DOMAIN rooms' : rooms'[q].room_counter \in Nat
      BY <2>1, IdsGrow DEF KInv
    <3> QED
      BY <3>1, <3>2 DEF Reached
  <2>5. /\ \A q : Fragments(q)' = Fragments(q)
        /\ DiskOK' /\ FreshIdsHoldNoData' /\ DOMAIN db \subseteq DOMAIN db'
    BY <1>1, <2>1, DiskSame
  <2> HIDE DEF loc, cmd
  <2> QED
    BY <1>1, <1>2, <2>1, <2>2, <2>3, <2>4, <2>5, WriterSteps DEF Writing, loc, cmd
<1>4. CASE /\ Loaded(r) /\ set_fragment(r, cmd.slot, cmd.value)
           /\ Keep(t, "fragment", [loc EXCEPT !.version = rooms[r].room_counter + 1])
  <2> DEFINE n   == rooms[r].room_counter + 1
             new == [loc EXCEPT !.version = n]
  <2>1. r \in DOMAIN rooms /\ cmd.slot \in Slots /\ cmd.value \in Values \cup {Null}
        /\ loc \in Progress
    BY <1>1, <1>4, Writer DEF Loaded
  <2>2. /\ MemoryOK' /\ StepOK /\ DOMAIN rooms' = DOMAIN rooms
        /\ rooms'[r].room_counter = n
    BY <1>4, <2>1, WriteMemory DEF KInv
  <2>3. n \in Nat
    BY <2>1, <2>2, IdsGrow DEF KInv
  <2>4. Keep(t, "fragment", new)
    BY <1>4
  <2>5. new \in Progress /\ new.alone = loc.alone /\ new.version = n
    <3> HIDE DEF n, loc
    <3> QED
      BY <2>1, <2>3, ProgressEdited
  <2> HIDE DEF new
  <2>6. Move(t, [pc |-> "fragment", cmd |-> cmd, local |-> new])
    BY <2>4, Moves DEF KInv
  <2>7. Reached(task[t])'
    <3>1. /\ task'[t].pc = "fragment" /\ task'[t].cmd = cmd /\ task'[t].local.version = n
      BY <2>5, <2>6 DEF Move
    <3>2. rooms'[r].room_counter >= n
      BY <2>2, <2>3
    <3> HIDE DEF n
    <3> QED
      BY <3>1, <3>2 DEF Reached
  <2>8. /\ \A q : Fragments(q)' = Fragments(q)
        /\ DiskOK' /\ FreshIdsHoldNoData' /\ DOMAIN db \subseteq DOMAIN db'
    BY <1>1, <2>2, DiskSame
  <2> QED
    BY <1>1, <1>2, <2>2, <2>5, <2>6, <2>7, <2>8, WriterSteps DEF Writing
<1> QED
  BY <1>1, <1>3, <1>4

LEMMA StoredOK == ASSUME NEW v \in Values \cup {Null} PROVE Stored(v) \in Values \cup {Absent}
  BY DEF Stored

LEMMA PutFragmentKeeps == ASSUME KInv, NEW t \in Tasks, PutFragment(t) PROVE KInv'
<1> DEFINE cmd == task[t].cmd
           loc == task[t].local
           old == DbOf(cmd.room)
           F   == [old.fragments EXCEPT ![cmd.slot] = Stored(cmd.value)]
           c   == [old EXCEPT !.fragments = F]
<1>1. /\ task[t].pc = "fragment" /\ task[t].pc \in Writing
      /\ WriteDb(cmd.room, c) /\ Goto(t, "counter")
      /\ UNCHANGED vars
      /\ UNCHANGED <<cache, state_lock, sent, acked, issued, crashes, faults>>
  BY Zenon DEF PutFragment, Writing, budget
<1>2. MemoryOK' /\ StepOK /\ next_room_id' = next_room_id
  BY <1>1, MemorySame DEF KInv, vars
<1>3. /\ cmd.room \in Ids /\ cmd.room < next_room_id /\ loc \in Progress
      /\ cmd.slot \in Slots /\ Stored(cmd.value) \in Values \cup {Absent}
  BY <1>1, Writer, StoredOK
<1>4. old \in Content /\ old.fragments \in [Slots -> Values \cup {Absent}]
  BY DiskContent, ContentEdited DEF KInv
<1>5. /\ F \in [Slots -> Values \cup {Absent}] /\ F[cmd.slot] = Stored(cmd.value)
      /\ \A s \in Slots : s # cmd.slot => F[s] = old.fragments[s]
  BY <1>3, <1>4
<1> HIDE DEF F
<1>6. c \in Content /\ c.fragments = F
  BY <1>4, <1>5, ContentEdited
<1> HIDE DEF c
<1>7. /\ DiskOK' /\ DOMAIN db \subseteq DOMAIN db'
      /\ \A q : Fragments(q)' = IF q = cmd.room THEN F ELSE Fragments(q)
  <2>1. DiskOK /\ cache' = cache /\ WriteDb(cmd.room, c)
    BY <1>1 DEF KInv
  <2> HIDE DEF cmd
  <2> QED
    BY <1>3, <1>6, <2>1, DiskWritten, ZenonT(40) DEF Fragments
<1>8. FreshIdsHoldNoData'
  BY <1>1, <1>2, <1>3, <1>6, FreshKept
<1>9. LedgerOK'
  BY <1>1, LedgerKept
<1>10. Move(t, [pc |-> "counter", cmd |-> cmd, local |-> loc])
  BY <1>1, Moves DEF KInv
<1>11. Reached(task[t])'
  <2>1. /\ task'[t].pc = "counter" /\ task'[t].cmd = cmd /\ task'[t].local = loc
        /\ rooms' = rooms
    BY <1>1, <1>10 DEF Move, vars
  <2>2. Reached(task[t])
    BY <1>1, Writer
  <2> QED
    BY <1>1, <2>1, <2>2 DEF Reached
<1>12. \A r \in Ids, s \in Slots :
          r # cmd.room \/ s # cmd.slot => Fragments(r)'[s] = Fragments(r)[s]
  BY <1>5, <1>7 DEF Fragments
<1>13. Fragments(cmd.room)'[cmd.slot] = Stored(cmd.value)
  <2>1. cmd.room' = cmd.room
    BY <1>10 DEF Move
  <2> QED
    BY <1>5, <1>7, <2>1 DEF Fragments
<1> QED
  BY <1>1, <1>2, <1>3, <1>7, <1>8, <1>9, <1>10, <1>11, <1>12, <1>13, WriterSteps DEF Writing

LEMMA ReadCounterKeeps == ASSUME KInv, NEW t \in Tasks, ReadCounter(t) PROVE KInv'
<1> DEFINE cmd == task[t].cmd
           loc == task[t].local
           r   == cmd.room
           n   == IF r \in DOMAIN rooms THEN rooms[r].room_counter ELSE 0
           new == [loc EXCEPT !.counter = n]
<1>1. /\ task[t].pc = "counter" /\ task[t].pc \in Writing /\ Keep(t, "broadcast", new)
      /\ UNCHANGED vars /\ db' = db /\ cache' = cache
      /\ UNCHANGED <<state_lock, sent, acked, issued, crashes, faults>>
  BY Zenon DEF ReadCounter, Writing, diskVars, budget
<1>2. MemoryOK' /\ StepOK /\ rooms' = rooms
  BY <1>1, MemorySame DEF KInv, vars
<1>3. loc \in Progress /\ Reached(task[t])
  BY <1>1, Writer
<1>4. n \in Nat /\ (IF r \in DOMAIN rooms THEN n = rooms[r].room_counter ELSE n = 0)
  BY <1>2, IdsGrow DEF KInv
<1> HIDE DEF n
<1>5. new \in Progress /\ new.alone = loc.alone /\ new.counter = n /\ new.version = loc.version
  BY <1>3, <1>4, ProgressEdited
<1> HIDE DEF new
<1>6. Move(t, [pc |-> "broadcast", cmd |-> cmd, local |-> new])
  BY <1>1, Moves DEF KInv
<1>7. Reached(task[t])'
  <2>1. /\ task'[t].pc = "broadcast" /\ task'[t].cmd = cmd
        /\ task'[t].local.version = loc.version /\ task'[t].local.counter = n
    BY <1>5, <1>6 DEF Move
  <2>2. r \in DOMAIN rooms => n >= loc.version
    BY <1>1, <1>3, <1>4 DEF Reached
  <2>3. n >= loc.version \/ (n = 0 /\ r \notin DOMAIN rooms)
    BY <1>4, <2>2
  <2>4. /\ task'[t].pc \notin {"fragment", "counter"} /\ r \notin DOMAIN rooms' <=> r \notin DOMAIN rooms
        /\ task'[t].cmd.room = r
    BY <1>2, <2>1
  <2> QED
    BY ONLY <2>1, <2>3, <2>4 DEF Reached
<1>8. /\ \A q : Fragments(q)' = Fragments(q)
      /\ DiskOK' /\ FreshIdsHoldNoData' /\ DOMAIN db \subseteq DOMAIN db'
  BY <1>1, <1>2, DiskSame
<1>9. LedgerOK'
  BY <1>1, LedgerKept
<1>10. loc.alone => Fragments(r)[cmd.slot] = Stored(cmd.value)
  BY <1>1 DEF KInv, WritesOK
<1>11. cmd' = cmd
  BY <1>6 DEF Move
<1>12. loc.alone => Fragments(r)'[cmd.slot] = Stored(cmd.value)
  BY <1>8, <1>10, <1>11
<1> QED
  BY <1>1, <1>2, <1>5, <1>6, <1>7, <1>8, <1>9, <1>12, WriterSteps DEF Writing

(* A failed write of a fragment is no longer one that is on disk.           *)
LEMMA DiskFaultKeeps == ASSUME KInv, NEW t \in Tasks, DiskFault(t) PROVE KInv'
<1> DEFINE cmd == task[t].cmd
           loc == task[t].local
           new == [loc EXCEPT !.alone = FALSE]
<1>1. /\ UNCHANGED vars /\ db' = db /\ cache' = cache
      /\ UNCHANGED <<sent, acked, issued, crashes>> /\ faults < MaxFaults /\ faults' = faults + 1
      /\ \/ task[t].pc = "fragment" /\ Keep(t, "counter", new) /\ state_lock' = state_lock
         \/ task[t].pc \in {"record", "list", "members"} /\ Done(t) /\ state_lock' = Free
  BY Zenon DEF DiskFault, diskVars
<1>2. MemoryOK' /\ StepOK /\ rooms' = rooms
  BY <1>1, MemorySame DEF KInv, vars
<1>3. LedgerOK'
  BY <1>1, LedgerKept
<1>4. CASE task[t].pc = "fragment" /\ Keep(t, "counter", new) /\ state_lock' = state_lock
  <2>1. task[t].pc \in Writing
    BY <1>4 DEF Writing
  <2>2. loc \in Progress /\ Reached(task[t])
    BY <2>1, Writer
  <2>3. new \in Progress /\ new.alone = FALSE /\ new.version = loc.version
    BY <2>2, ProgressEdited
  <2> HIDE DEF new
  <2>4. Move(t, [pc |-> "counter", cmd |-> cmd, local |-> new])
    BY <1>4, Moves DEF KInv
  <2>5. Reached(task[t])'
    <3>1. /\ task'[t].pc = "counter" /\ task'[t].cmd = cmd
          /\ task'[t].local.version = loc.version
      BY <2>3, <2>4 DEF Move
    <3> QED
      BY <1>2, <1>4, <2>2, <3>1 DEF Reached
  <2>6. /\ \A q : Fragments(q)' = Fragments(q)
        /\ DiskOK' /\ FreshIdsHoldNoData' /\ DOMAIN db \subseteq DOMAIN db'
    BY <1>1, <1>2, DiskSame
  <2> QED
    BY <1>1, <1>2, <1>3, <1>4, <2>1, <2>3, <2>4, <2>5, <2>6, WriterSteps DEF Writing
<1>5. CASE task[t].pc \in {"record", "list", "members"} /\ Done(t) /\ state_lock' = Free
  <2>1. Move(t, Idle)
    BY <1>5, Moves DEF KInv
  <2>2. /\ TaskOK(Idle, next_room_id, DOMAIN db) /\ task[t].pc \in Owning
        /\ Idle.pc \notin Writing /\ Idle.pc \notin Owning
    BY <1>5, IdleOK DEF Idle, Owning, Writing
  <2>3. LockOK'
    BY <1>5, <2>1, <2>2, LockMoves DEF KInv
  <2> QED
    BY <1>1, <2>1, <2>2, <2>3, CacheIs, DiskStands DEF KInv
<1> QED
  BY <1>1, <1>4, <1>5
(* A write that begins: it and the writes of its slot that are under way    *)
(* are no longer alone.                                                     *)
LEMMA StartWriteKeeps ==
    ASSUME KInv, NEW t \in Tasks, NEW r \in DOMAIN rooms, NEW s \in Slots,
           NEW v \in Values \cup {Null}, StartWrite(t, r, s, v)
    PROVE  KInv'
<1> DEFINE others == {u \in Tasks : WritesSlot(u, r, s)}
           cmd == [op |-> "WriteFragment", room |-> r, slot |-> s, value |-> v]
           loc == [version |-> 0, counter |-> 0, alone |-> others = {}]
           x   == [pc |-> "apply", cmd |-> cmd, local |-> loc]
           dimmed(u) == [task[u] EXCEPT !.local.alone = FALSE]
<1>1. /\ Issue("WriteFragment") /\ task[t].pc = "idle"
      /\ task' = [u \in Tasks |-> IF u = t THEN x
                                  ELSE IF u \in others THEN dimmed(u) ELSE task[u]]
      /\ acked' = [acked EXCEPT ![<<r, s>>] = Unknown]
      /\ UNCHANGED vars /\ db' = db /\ cache' = cache
      /\ UNCHANGED <<state_lock, sent, crashes, faults>>
  BY Zenon DEF StartWrite, diskVars
<1>2. MemoryOK' /\ StepOK /\ next_room_id' = next_room_id
  BY <1>1, MemorySame DEF KInv, vars
<1>3. r \in Ids /\ r < next_room_id
  BY LiveRooms DEF KInv
<1>4. /\ others \subseteq Tasks /\ t \notin others
      /\ \A u \in Tasks : u \in others <=>
            task[u].pc \in Writing /\ task[u].cmd.room = r /\ task[u].cmd.slot = s
  BY <1>1 DEF WritesSlot, Writing
<1>5. /\ task' = [u \in Tasks |-> task'[u]] /\ task'[t] = x
      /\ \A u \in others : task'[u] = dimmed(u)
      /\ \A u \in Tasks : u # t /\ u \notin others => task'[u] = task[u]
  <2> HIDE DEF others, x, dimmed
  <2> QED
    BY <1>1, <1>4
<1>6. /\ x.pc = "apply" /\ x.cmd = cmd /\ x.local.alone = (others = {})
      /\ cmd.room = r /\ cmd.slot = s /\ cmd.value = v
      /\ x.local.alone \in BOOLEAN /\ x.local.version = 0
  OBVIOUS
<1>7. TaskOK(x, next_room_id, DOMAIN db)
  <2>1. loc \in Progress
    <3> DEFINE a == (others = {})
    <3>1. a \in BOOLEAN
      OBVIOUS
    <3> HIDE DEF a
    <3>2. [version |-> 0, counter |-> 0, alone |-> a] \in Progress
      BY <3>1 DEF Progress
    <3> QED
      BY <3>2 DEF a
  <2> HIDE DEF loc
  <2> QED
    BY <1>3, <1>6, <2>1 DEF TaskOK, PcLabels, Owning, Writing, Loading, WriteCmd
<1>8. ASSUME NEW u \in others
      PROVE  /\ dimmed(u).pc = task[u].pc /\ dimmed(u).cmd = task[u].cmd
             /\ dimmed(u).local.alone = FALSE
             /\ dimmed(u).local.version = task[u].local.version
             /\ dimmed(u).local.counter = task[u].local.counter
             /\ TaskOK(dimmed(u), next_room_id, DOMAIN db)
  <2>1. u \in Tasks /\ task[u].pc \in Writing
    BY <1>4
  <2>2. task[u].local \in Progress /\ TaskOK(task[u], next_room_id, DOMAIN db)
    BY <2>1, Writer DEF KInv, TasksOK
  <2> DEFINE y == [task[u].local EXCEPT !.alone = FALSE]
             z == task[u]
  <2>3. y \in Progress /\ y.alone = FALSE /\ y.version = task[u].local.version
        /\ y.counter = task[u].local.counter
    BY <2>2, ProgressEdited
  <2>4. z = [pc |-> z.pc, cmd |-> z.cmd, local |-> z.local]
    BY <2>2 DEF TaskOK
  <2>5. dimmed(u) = [z EXCEPT !.local = y]
    BY Zenon
  <2> HIDE DEF y
  <2>6. dimmed(u) = [pc |-> z.pc, cmd |-> z.cmd, local |-> y]
    <3>1. z \in [pc : {z.pc}, cmd : {z.cmd}, local : {z.local}]
      BY <2>4
    <3> HIDE DEF z, dimmed
    <3>2. /\ dimmed(u).pc = z.pc /\ dimmed(u).local = y /\ dimmed(u).cmd = z.cmd
          /\ dimmed(u) \in [pc : {z.pc}, cmd : {z.cmd}, local : {y}]
      BY <2>5, <3>1
    <3> QED
      BY <3>2
  <2> HIDE DEF dimmed
  <2>7. TaskOK(dimmed(u), next_room_id, DOMAIN db)
    <3>1. task[u].pc # "apply" \/ y.version = 0
      BY <2>2, <2>3 DEF TaskOK
    <3> QED
      BY <2>1, <2>2, <2>3, <2>6, <3>1 DEF TaskOK, Owning, Writing, Loading
  <2> QED
    BY <2>3, <2>6, <2>7
<1> HIDE DEF others, x, dimmed
<1>9. TasksOK'
  BY <1>1, <1>2, <1>5, <1>7, <1>8, TasksKept
<1>10. \A u \in Tasks : u # t =>
          /\ task'[u].pc = task[u].pc /\ task'[u].cmd = task[u].cmd
          /\ task'[u].local.version = task[u].local.version
          /\ task'[u].local.counter = task[u].local.counter
          /\ task'[u].local.alone => task[u].local.alone /\ u \notin others
  <2> SUFFICES ASSUME NEW u \in Tasks, u # t
               PROVE  /\ task'[u].pc = task[u].pc /\ task'[u].cmd = task[u].cmd
                      /\ task'[u].local.version = task[u].local.version
                      /\ task'[u].local.counter = task[u].local.counter
                      /\ task'[u].local.alone => task[u].local.alone /\ u \notin others
    OBVIOUS
  <2>1. CASE u \in others
    BY <1>5, <1>8, <2>1
  <2>2. CASE u \notin others
    BY <1>5, <2>2
  <2> QED
    BY <2>1, <2>2
<1>11. VersionsOK'
  <2>1. Reached(task[t])'
    BY <1>5, <1>6 DEF Reached
  <2>2. ASSUME NEW u \in Tasks, u # t, task[u].pc \in Writing
        PROVE  Reached(task[u])'
    BY <1>2, <1>10, <2>2, ReachedKept
  <2>3. \A u \in Tasks : \/ task'[u] = task[u]
                         \/ task'[u].pc \notin Writing
                         \/ Reached(task[u])'
    BY <1>10, <2>1, <2>2
  <2> QED
    BY <1>1, <1>2, <2>3, VersionsKept
<1>12. LockOK'
  <2>1. x.pc \notin Owning /\ task[t].pc \notin Owning
    BY <1>1, <1>6 DEF Owning
  <2> QED
    BY <1>1, <1>5, <1>10, <2>1 DEF KInv, LockOK
<1>13. /\ acked' \in [Ids \X Slots -> Values \cup {Null, Unknown}]
       /\ acked'[<<r, s>>] = Unknown
       /\ \A q \in Ids, d \in Slots :
             q # r \/ d # s => acked'[<<q, d>>] = acked[<<q, d>>]
  BY <1>1, <1>3 DEF KInv, LedgerOK
<1>14. LedgerOK'
  <2>1. /\ issued \in 0..MaxCommands /\ issued < MaxCommands /\ issued' = issued + 1
        /\ MaxCommands \in Nat
    BY <1>1, KernelAssumption DEF KInv, LedgerOK, Issue
  <2> QED
    BY <1>1, <1>13, <2>1 DEF KInv, LedgerOK
<1>15. /\ \A q : Fragments(q)' = Fragments(q)
       /\ DiskOK' /\ FreshIdsHoldNoData' /\ DOMAIN db \subseteq DOMAIN db'
  BY <1>1, <1>2, DiskSame
<1>16. AckedWritesAreDurable'
  <2>1. ASSUME NEW q \in Ids, NEW d \in Slots, acked'[<<q, d>>] # Unknown
        PROVE  Fragments(q)'[d] = Stored(acked'[<<q, d>>])
    <3>1. acked'[<<q, d>>] = acked[<<q, d>>]
      BY <1>13, <2>1
    <3> QED
      BY <1>15, <2>1, <3>1 DEF KInv, AckedWritesAreDurable, Fragments
  <2> QED
    BY <2>1 DEF AckedWritesAreDurable, Fragments, DbOf
<1>17. WritesOK'
  <2>1. ASSUME NEW u \in Tasks, NEW w \in Tasks, u # w, SameSlot(task[u], task[w])'
        PROVE  ~task'[u].local.alone
    <3>0. /\ task'[u].pc \in Writing /\ task'[w].pc \in Writing
          /\ task'[u].cmd.room = task'[w].cmd.room /\ task'[u].cmd.slot = task'[w].cmd.slot
      BY <2>1 DEF SameSlot
    <3>1. CASE u = t
      <4>1. w \in others
        BY <1>4, <1>5, <1>6, <1>10, <2>1, <3>0, <3>1
      <4> QED
        BY <1>5, <1>6, <3>1, <4>1
    <3>2. CASE w = t
      <4>1. u \in others
        BY <1>4, <1>5, <1>6, <1>10, <2>1, <3>0, <3>2
      <4> QED
        BY <1>5, <1>8, <4>1
    <3>3. CASE u # t /\ w # t
      <4>1. SameSlot(task[u], task[w])
        BY <1>10, <3>0, <3>3 DEF SameSlot
      <4> QED
        BY <1>10, <2>1, <3>3, <4>1 DEF KInv, WritesOK
    <3> QED
      BY <3>1, <3>2, <3>3
  <2>2. ASSUME NEW u \in Tasks, task'[u].pc \in Writing
        PROVE  acked'[<<task'[u].cmd.room, task'[u].cmd.slot>>] = Unknown
    <3>1. CASE u = t
      BY <1>5, <1>6, <1>13, <3>1
    <3>2. CASE u # t
      <4>1. /\ task[u].pc \in Writing /\ task'[u].cmd = task[u].cmd
        BY <1>10, <2>2, <3>2
      <4>2. /\ task[u].cmd.room \in Ids /\ task[u].cmd.slot \in Slots
            /\ acked[<<task[u].cmd.room, task[u].cmd.slot>>] = Unknown
        BY <4>1, Writer
      <4> QED
        BY <1>13, <4>1, <4>2
    <3> QED
      BY <3>1, <3>2
  <2>3. ASSUME NEW u \in Tasks, task'[u].pc \in {"counter", "broadcast"}, task'[u].local.alone
        PROVE  Fragments(task[u].cmd.room)'[task'[u].cmd.slot] = Stored(task'[u].cmd.value)
    <3>1. u # t
      BY <1>5, <1>6, <2>3
    <3>2. /\ task[u].pc \in {"counter", "broadcast"} /\ task[u].local.alone
          /\ task'[u].cmd = task[u].cmd
      BY <1>10, <2>3, <3>1
    <3>3. Fragments(task[u].cmd.room)[task[u].cmd.slot] = Stored(task[u].cmd.value)
      BY <3>2 DEF KInv, WritesOK
    <3> QED
      BY <1>1, <3>2, <3>3 DEF Fragments, DbOf
  <2>4. (\A u, w \in Tasks : u # w /\ SameSlot(task[u], task[w]) => ~task[u].local.alone)'
    BY <2>1
  <2>5. (\A u \in Tasks : task[u].pc \in Writing =>
            acked[<<task[u].cmd.room, task[u].cmd.slot>>] = Unknown)'
    BY <2>2
  <2>6. (\A u \in Tasks :
            task[u].pc \in {"counter", "broadcast"} /\ task[u].local.alone =>
               Fragments(task[u].cmd.room)[task[u].cmd.slot] = Stored(task[u].cmd.value))'
    BY <2>3 DEF Fragments, DbOf
  <2> QED
    BY <2>4, <2>5, <2>6 DEF WritesOK
<1> QED
  BY <1>2, <1>9, <1>11, <1>12, <1>14, <1>15, <1>16, <1>17 DEF KInv

(* The answer of a write that met no other: what it wrote is what is there. *)
LEMMA BroadcastWriteKeeps == ASSUME KInv, NEW t \in Tasks, BroadcastWrite(t) PROVE KInv'
<1> DEFINE cmd == task[t].cmd
           loc == task[t].local
           r   == cmd.room
           s   == cmd.slot
           msg == [room |-> r, slot |-> s, value |-> cmd.value,
                   counter |-> loc.counter, version |-> loc.version]
<1>1. /\ task[t].pc = "broadcast" /\ task[t].pc \in Writing /\ Done(t)
      /\ sent' = msg
      /\ acked' = IF loc.alone THEN [acked EXCEPT ![<<r, s>>] = cmd.value] ELSE acked
      /\ UNCHANGED vars /\ db' = db /\ cache' = cache
      /\ UNCHANGED <<state_lock, issued, crashes, faults>>
  BY Zenon DEF BroadcastWrite, Writing, diskVars, budget
<1>2. MemoryOK' /\ StepOK /\ next_room_id' = next_room_id /\ rooms' = rooms
  BY <1>1, MemorySame DEF KInv, vars
<1>3. /\ r \in Ids /\ r < next_room_id /\ s \in Slots /\ cmd.value \in Values \cup {Null}
      /\ loc.alone \in BOOLEAN /\ Reached(task[t])
  BY <1>1, Writer
<1>4. Move(t, Idle)
  BY <1>1, Moves DEF KInv
<1>5. /\ Idle.pc = "idle" /\ "idle" \notin Writing /\ "idle" \notin Owning
      /\ task[t].pc \notin Owning /\ TaskOK(Idle, next_room_id', DOMAIN db')
  BY <1>1, IdleOK DEF Idle, Writing, Owning
<1>6. /\ task' = [u \in Tasks |-> task'[u]] /\ task'[t] = Idle
      /\ \A u \in Tasks \ {t} : task'[u] = task[u]
  BY <1>4 DEF Move
<1>7. LockOK'
  BY <1>1, <1>4, <1>5, LockMoves DEF KInv
<1>8. /\ \A q : Fragments(q)' = Fragments(q)
      /\ DiskOK' /\ FreshIdsHoldNoData' /\ DOMAIN db \subseteq DOMAIN db'
  BY <1>1, <1>2, DiskSame
<1>9. TasksOK'
  BY <1>2, <1>5, <1>6, <1>8, TasksKept
<1>10. VersionsOK'
  <2>1. ASSUME NEW u \in Tasks, task'[u].pc \in Writing PROVE Reached(task[u])'
    <3>1. u # t /\ task'[u] = task[u]
      BY <1>5, <1>6, <2>1
    <3> QED
      BY <1>2, <2>1, <3>1, ReachedKept
  <2>2. msg.room = r /\ msg.counter = loc.counter /\ msg.version = loc.version
    OBVIOUS
  <2>3. loc.counter >= loc.version \/ (loc.counter = 0 /\ r \notin DOMAIN rooms)
    BY <1>1, <1>3 DEF Reached
  <2>4. /\ sent'.room \in Ids /\ sent'.room < next_room_id'
        /\ \/ sent'.counter >= sent'.version
           \/ sent'.counter = 0 /\ sent'.room \notin DOMAIN rooms'
    <3> HIDE DEF msg
    <3> QED
      BY <1>1, <1>2, <1>3, <2>2, <2>3
  <2> QED
    BY <2>1, <2>4 DEF VersionsOK, BroadcastNotTooOld
<1>11. \A q \in Ids, d \in Slots :
          acked'[<<q, d>>] = IF loc.alone /\ q = r /\ d = s THEN cmd.value ELSE acked[<<q, d>>]
  BY <1>1, <1>3 DEF KInv, LedgerOK
<1>12. LedgerOK'
  <2>1. acked' \in [Ids \X Slots -> Values \cup {Null, Unknown}]
    BY <1>1, <1>3 DEF KInv, LedgerOK
  <2> QED
    BY <1>1, <2>1 DEF KInv, LedgerOK
<1>13. loc.alone => Fragments(r)[s] = Stored(cmd.value)
  BY <1>1 DEF KInv, WritesOK
<1>14. AckedWritesAreDurable'
  <2>1. ASSUME NEW q \in Ids, NEW d \in Slots, acked'[<<q, d>>] # Unknown
        PROVE  Fragments(q)'[d] = Stored(acked'[<<q, d>>])
    <3>1. CASE loc.alone /\ q = r /\ d = s
      <4>1. acked'[<<q, d>>] = cmd.value
        BY <1>11, <3>1
      <4>2. Fragments(q)[d] = Stored(cmd.value)
        BY <1>13, <3>1
      <4> QED
        BY <1>8, <4>1, <4>2
    <3>2. CASE ~(loc.alone /\ q = r /\ d = s)
      <4>1. acked'[<<q, d>>] = acked[<<q, d>>]
        BY <1>11, <3>2
      <4>2. Fragments(q)[d] = Stored(acked[<<q, d>>])
        BY <2>1, <4>1 DEF KInv, AckedWritesAreDurable, Fragments
      <4> QED
        BY <1>8, <4>1, <4>2
    <3> QED
      BY <3>1, <3>2
  <2> QED
    BY <2>1 DEF AckedWritesAreDurable, Fragments, DbOf
<1>15. WritesOK'
  <2>1. \A u \in Tasks : task'[u].pc \in Writing => u # t /\ task'[u] = task[u]
    BY <1>5, <1>6
  <2>2. ASSUME NEW u \in Tasks, task'[u].pc \in Writing
        PROVE  acked'[<<task'[u].cmd.room, task'[u].cmd.slot>>] = Unknown
    <3>1. /\ u # t /\ task'[u] = task[u] /\ task[u].pc \in Writing
      BY <2>1, <2>2
    <3>2. /\ task[u].cmd.room \in Ids /\ task[u].cmd.slot \in Slots
          /\ acked[<<task[u].cmd.room, task[u].cmd.slot>>] = Unknown
      BY <3>1, Writer
    <3>3. ~(loc.alone /\ task[u].cmd.room = r /\ task[u].cmd.slot = s)
      BY <1>1, <3>1 DEF KInv, WritesOK, SameSlot
    <3> QED
      BY <1>11, <3>1, <3>2, <3>3
  <2>3. (\A u, w \in Tasks : u # w /\ SameSlot(task[u], task[w]) => ~task[u].local.alone)'
    BY <2>1 DEF KInv, WritesOK, SameSlot
  <2>4. (\A u \in Tasks : task[u].pc \in Writing =>
            acked[<<task[u].cmd.room, task[u].cmd.slot>>] = Unknown)'
    BY <2>2
  <2>5. ASSUME NEW u \in Tasks, task'[u].pc \in {"counter", "broadcast"}, task'[u].local.alone
        PROVE  Fragments(task[u].cmd.room)'[task'[u].cmd.slot] = Stored(task'[u].cmd.value)
    <3>1. task'[u] = task[u]
      BY <2>1, <2>5 DEF Writing
    <3>2. Fragments(task[u].cmd.room)[task[u].cmd.slot] = Stored(task[u].cmd.value)
      BY <2>5, <3>1 DEF KInv, WritesOK
    <3> QED
      BY <1>1, <3>1, <3>2 DEF Fragments, DbOf
  <2>6. (\A u \in Tasks :
            task[u].pc \in {"counter", "broadcast"} /\ task[u].local.alone =>
               Fragments(task[u].cmd.room)[task[u].cmd.slot] = Stored(task[u].cmd.value))'
    BY <2>5 DEF Fragments, DbOf
  <2> QED
    BY <2>3, <2>4, <2>6 DEF WritesOK
<1> QED
  BY <1>2, <1>7, <1>8, <1>9, <1>10, <1>12, <1>14, <1>15 DEF KInv

-----------------------------------------------------------------------------
(* A crash: what was under way is forgotten, the disk is not.               *)
LEMMA CrashKeeps == ASSUME KInv, Crash PROVE KInv'
<1>1. /\ crashes < MaxCrashes /\ crashes' = crashes + 1
      /\ cache' = << >> /\ state_lock' = Free /\ task' = [t \in Tasks |-> Idle]
      /\ sent' = None /\ db' = db
      /\ UNCHANGED <<acked, issued, faults>>
  BY Zenon DEF Crash
<1>2. MemoryOK' /\ \A r \in DOMAIN db : r < next_room_id'
  BY CrashMemory DEF KInv
<1>3. \A t \in Tasks : task'[t] = Idle
  BY <1>1
<1>4. Idle.pc = "idle" /\ "idle" \notin Writing /\ "idle" \notin Owning
  BY DEF Idle, Writing, Owning
<1>5. DiskOK'
  <2>1. cache' = [r \in {} |-> 0] /\ DOMAIN cache' = {}
    BY <1>1
  <2>2. cache' \in [DOMAIN cache' -> Records]
    BY <2>1
  <2> QED
    BY <1>1, <2>1, <2>2 DEF KInv, DiskOK
<1>6. TasksOK'
  <2>1. \A t \in Tasks : TaskOK(task'[t], next_room_id', DOMAIN db')
    BY <1>3, IdleOK
  <2>2. task' = [t \in Tasks |-> task'[t]]
    BY <1>1
  <2> QED
    BY <2>1, <2>2 DEF TasksOK
<1>7. LockOK'
  BY <1>1, <1>3, <1>4, KernelAssumption DEF LockOK
<1>8. WritesOK'
  <2>1. \A t \in Tasks : task'[t].pc \notin Writing /\ task'[t].pc \notin {"counter", "broadcast"}
    BY <1>3, <1>4
  <2> QED
    BY <2>1 DEF WritesOK, SameSlot
<1>9. VersionsOK'
  BY <1>1, <1>3, <1>4 DEF VersionsOK, BroadcastNotTooOld
<1>10. LedgerOK'
  BY <1>1, KernelAssumption DEF KInv, LedgerOK
<1>11. FreshIdsHoldNoData'
  <2>1. \A r \in DOMAIN db : ~(r >= next_room_id')
    BY <1>2, StoreAssumption DEF KInv, DiskOK, Ids, MemoryOK, IInv, TypeOK, RoomIds
  <2> QED
    BY <1>1, <2>1 DEF FreshIdsHoldNoData
<1>12. AckedWritesAreDurable'
  BY <1>1 DEF KInv, AckedWritesAreDurable, DbOf
<1> QED
  BY <1>2, <1>5, <1>6, <1>7, <1>8, <1>9, <1>10, <1>11, <1>12 DEF KInv

LEMMA InitKInv == KernelInit => KInv
<1> SUFFICES ASSUME KernelInit PROVE KInv
  OBVIOUS
<1>1. /\ Init /\ db = << >> /\ cache = << >> /\ state_lock = Free
      /\ task = [t \in Tasks |-> Idle] /\ sent = None
      /\ acked = [rs \in Ids \X Slots |-> Unknown]
      /\ issued = 0 /\ crashes = 0 /\ faults = 0
  BY DEF KernelInit
<1>2. MemoryOK
  <2>1. IInv /\ DOMAIN rooms = {} /\ next_room_id = 1
    BY <1>1, InitIInv DEF Init
  <2> QED
    BY <2>1, StoreAssumption DEF MemoryOK
<1>3. DiskOK
  <2>1. db = [r \in {} |-> 0] /\ DOMAIN db = {} /\ cache = [r \in {} |-> 0] /\ DOMAIN cache = {}
    BY <1>1
  <2>2. db \in [DOMAIN db -> Content] /\ cache \in [DOMAIN cache -> Records]
    BY <2>1
  <2> QED
    BY <2>1, <2>2 DEF DiskOK
<1>4. /\ \A t \in Tasks : task[t] = Idle
      /\ Idle.pc = "idle" /\ "idle" \notin Writing /\ "idle" \notin Owning
  BY <1>1 DEF Idle, Writing, Owning
<1>5. TasksOK
  BY <1>1, <1>4, IdleOK DEF TasksOK
<1>6. LockOK
  BY <1>1, <1>4, KernelAssumption DEF LockOK
<1>7. WritesOK
  <2>1. \A t \in Tasks : task[t].pc \notin Writing /\ task[t].pc \notin {"counter", "broadcast"}
    BY <1>4
  <2> QED
    BY <2>1 DEF WritesOK, SameSlot
<1>8. VersionsOK
  BY <1>1, <1>4 DEF VersionsOK, BroadcastNotTooOld
<1>9. LedgerOK
  BY <1>1, KernelAssumption DEF LedgerOK
<1>10. FreshIdsHoldNoData
  BY <1>1 DEF FreshIdsHoldNoData
<1>11. AckedWritesAreDurable
  BY <1>1 DEF AckedWritesAreDurable
<1> QED
  BY <1>2, <1>3, <1>5, <1>6, <1>7, <1>8, <1>9, <1>10, <1>11 DEF KInv

LEMMA NothingHappens == ASSUME KInv, UNCHANGED kernelVars PROVE KInv'
<1>1. /\ UNCHANGED vars /\ db' = db /\ cache' = cache
      /\ UNCHANGED <<state_lock, task, sent, acked, issued, crashes, faults>>
  BY DEF kernelVars, vars
<1>2. MemoryOK' /\ StepOK
  BY <1>1, MemorySame DEF KInv
<1>3. LedgerOK'
  BY <1>1, LedgerKept
<1> QED
  BY <1>1, <1>2, <1>3, DiskSame, TasksStand

LEMMA StepKeeps == ASSUME KInv, NEW t \in Tasks, Step(t) PROVE KInv'
  BY PutRecordKeeps, PutListKeeps, UpdateCacheKeeps, PutMembersKeeps, ApplyWriteKeeps,
     PutFragmentKeeps, ReadCounterKeeps, BroadcastWriteKeeps, LoadListKeeps,
     LoadRecordsKeeps, LoadCacheKeeps, LoadMembersKeeps, LoadFragmentsKeeps, InstallKeeps
  DEF Step

LEMMA NextKeepsKInv == KInv /\ [KernelNext]_kernelVars => KInv'
<1> SUFFICES ASSUME KInv, [KernelNext]_kernelVars PROVE KInv'
  OBVIOUS
<1>1. CASE AtOnce
  BY <1>1, NewRoomKeeps, UnloadRoomKeeps, DeleteRoomKeeps DEF AtOnce
<1>2. CASE Started
  BY <1>2, DeleteBucketKeeps, NewBucketKeeps, NewMemberKeeps, DeleteMemberKeeps,
     StartWriteKeeps, StartLoadKeeps DEF Started
<1>3. ASSUME NEW t \in Tasks, Step(t) PROVE KInv'
  BY <1>3, StepKeeps
<1>4. CASE Trouble
  BY <1>4, DiskFaultKeeps, ShortListKeeps, ReadFaultKeeps, EvictKeeps, CrashKeeps DEF Trouble
<1>5. CASE UNCHANGED kernelVars
  BY <1>5, NothingHappens
<1> QED
  BY <1>1, <1>2, <1>3, <1>4, <1>5 DEF KernelNext

LEMMA KInvAlways == KernelSpec => []KInv
  BY InitKInv, NextKeepsKInv, PTL DEF KernelSpec

-----------------------------------------------------------------------------
(* Memory, disk, cache, tasks and lock stay well formed through every       *)
(* command, fault and crash: in particular the state lock is held exactly   *)
(* by the one command that is persisting under it, and what LoadRoom is     *)
(* about to put into memory is an image load_room_data accepts.             *)
THEOREM KernelTypeCorrect == KernelSpec => []KernelTypeOK
<1>1. ASSUME KInv PROVE KernelTypeOK
  <2>1. TypeOK
    BY <1>1 DEF KInv, MemoryOK, IInv
  <2>2. ASSUME NEW c \in Content
        PROVE  /\ c.fragments \in [Slots -> Values \cup {Absent}]
               /\ IsRecords(c.records)
               /\ c.list \in (SUBSET BucketIds) \cup {Absent}
               /\ c.members \subseteq RawNames \ {Empty}
    BY ContentEdited, RecordsAre DEF IsRecords
  <2>3. /\ DOMAIN db \subseteq Ids /\ \A r \in DOMAIN db : db[r] \in Content
        /\ DOMAIN cache \subseteq DOMAIN db /\ \A r \in DOMAIN cache : cache[r] \in Records
    BY <1>1 DEF KInv, DiskOK
  <2>4. \A r \in DOMAIN cache : IsRecords(cache[r])
    BY <2>3, RecordsAre DEF IsRecords
  <2>5. /\ DOMAIN task = Tasks /\ \A t \in Tasks : task[t].pc \in PcLabels
    BY <1>1 DEF KInv, TasksOK, TaskOK
  <2>6. \A t \in Tasks : task[t].pc = "install" => IsImage(task[t].local)
    BY <1>1, LoadableIsImage DEF KInv, TasksOK, TaskOK, Loading
  <2>7. /\ state_lock \in Tasks \cup {Free}
        /\ \A t \in Tasks : state_lock = t <=> task[t].pc \in {"record", "list", "cache", "members"}
    BY <1>1 DEF KInv, LockOK, Owning
  <2>8. LedgerOK
    BY <1>1 DEF KInv
  <2> QED
    BY <2>1, <2>2, <2>3, <2>4, <2>5, <2>6, <2>7, <2>8 DEF KernelTypeOK, LedgerOK
<1> QED
  BY <1>1, KInvAlways, PTL

(* A room that is not loaded holds no data, whatever writes, loads and      *)
(* unloads of it overlap: the kernel never opens a transaction, and tx_end  *)
(* is the only operation that does not look at `loaded`.                    *)
THEOREM UnloadedHoldsNothing == KernelSpec => []UnloadedRoomHoldsNothing
<1>1. KInv => UnloadedRoomHoldsNothing
  BY DEF KInv, MemoryOK, Plain, UnloadedRoomHoldsNothing
<1> QED
  BY <1>1, KInvAlways, PTL

(* NewRoom never hands out an id whose database already holds data.         *)
THEOREM FreshIdsCorrect == KernelSpec => []FreshIdsHoldNoData
<1>1. KInv => FreshIdsHoldNoData
  BY DEF KInv
<1> QED
  BY <1>1, KInvAlways, PTL

(* A write that was answered, met no other write of its key and whose       *)
(* database write did not fail is on disk until the next write of the key.  *)
THEOREM AckedWritesCorrect == KernelSpec => []AckedWritesAreDurable
<1>1. KInv => AckedWritesAreDurable
  BY DEF KInv
<1> QED
  BY <1>1, KInvAlways, PTL

(* The counter a write is broadcast with, read after the lock was released  *)
(* and taken again, has reached the version the write was given, or is 0    *)
(* because the room was deleted in between (unwrap_or(0) in kernel.rs).     *)
THEOREM BroadcastCorrect == KernelSpec => []BroadcastNotTooOld
<1>1. KInv => BroadcastNotTooOld
  BY DEF KInv, VersionsOK
<1> QED
  BY <1>1, KInvAlways, PTL

(* What holds of AppState on its own holds under concurrent commands too:   *)
(* a label names a live room, versions name writes, and nothing hangs off a *)
(* bucket that does not exist.                                              *)
THEOREM MemoryStaysSound ==
    KernelSpec => [](LabelsNameLiveRooms /\ VersionsIdentifyWrites /\ BucketMapsAgree)
<1>1. KInv => LabelsNameLiveRooms /\ VersionsIdentifyWrites /\ BucketMapsAgree
  BY DEF KInv, MemoryOK, IInv, RoomOK, VersionsIdentifyWrites, BucketMapsAgree
<1> QED
  BY <1>1, KInvAlways, PTL

-----------------------------------------------------------------------------
(* What no command may do to memory.  A restart may: it sets every counter  *)
(* back to 0 and brings deleted rooms back, for their databases are still   *)
(* on disk.                                                                 *)
QuietMemory(t) ==
    \/ PutRecord(t) \/ PutList(t) \/ UpdateCache(t) \/ PutMembers(t)
    \/ PutFragment(t) \/ ReadCounter(t) \/ BroadcastWrite(t)
    \/ LoadList(t) \/ LoadRecords(t) \/ LoadCache(t)
    \/ LoadMembers(t) \/ LoadFragments(t)
    \/ DiskFault(t) \/ ShortList(t) \/ ReadFault(t)

LEMMA QuietLeavesMemory ==
    ASSUME NEW t, QuietMemory(t)
    PROVE  UNCHANGED <<vars, crashes>>
<1>1. PutRecord(t) => UNCHANGED <<vars, crashes>>
  BY DEF PutRecord, budget
<1>2. PutList(t) => UNCHANGED <<vars, crashes>>
  BY DEF PutList, budget
<1>3. UpdateCache(t) => UNCHANGED <<vars, crashes>>
  BY DEF UpdateCache, budget
<1>4. PutMembers(t) => UNCHANGED <<vars, crashes>>
  BY DEF PutMembers, budget
<1>5. PutFragment(t) => UNCHANGED <<vars, crashes>>
  BY DEF PutFragment, budget
<1>6. ReadCounter(t) => UNCHANGED <<vars, crashes>>
  BY DEF ReadCounter, budget
<1>7. BroadcastWrite(t) => UNCHANGED <<vars, crashes>>
  BY DEF BroadcastWrite, budget
<1>8. LoadList(t) => UNCHANGED <<vars, crashes>>
  BY DEF LoadList, budget
<1>9. LoadRecords(t) => UNCHANGED <<vars, crashes>>
  BY DEF LoadRecords, budget
<1>10. LoadCache(t) => UNCHANGED <<vars, crashes>>
  BY DEF LoadCache, budget
<1>11. LoadMembers(t) => UNCHANGED <<vars, crashes>>
  BY DEF LoadMembers, budget
<1>12. LoadFragments(t) => UNCHANGED <<vars, crashes>>
  BY DEF LoadFragments, budget
<1>13. DiskFault(t) => UNCHANGED <<vars, crashes>>
  BY DEF DiskFault
<1>14. ShortList(t) => UNCHANGED <<vars, crashes>>
  BY DEF ShortList
<1>15. ReadFault(t) => UNCHANGED <<vars, crashes>>
  BY DEF ReadFault
<1> QED
  BY <1>1, <1>2, <1>3, <1>4, <1>5, <1>6, <1>7, <1>8, <1>9, <1>10, <1>11, <1>12,
     <1>13, <1>14, <1>15 DEF QuietMemory

LEMMA RequestSteps ==
    ASSUME KInv, NEW t \in Tasks, NEW r \in DOMAIN rooms, NEW raw \in RawNames,
           NEW b \in BucketIds,
           \/ NewBucket(t, r, b, raw) \/ DeleteBucket(t, r, b)
           \/ NewMember(t, r, raw) \/ DeleteMember(t, r, raw)
    PROVE  StepOK /\ crashes' = crashes
<1>1. CASE NewBucket(t, r, b, raw)
  <2>1. rooms[r].loaded /\ crashes' = crashes
    BY <1>1, Zenon DEF NewBucket, LockFor, Loaded
  <2> QED
    BY <1>1, <2>1, NewBucketMemory DEF KInv, NewBucket
<1>2. CASE DeleteBucket(t, r, b)
  <2>1. rooms[r].loaded /\ crashes' = crashes
    BY <1>2, Zenon DEF DeleteBucket, LockFor, Loaded
  <2> QED
    BY <1>2, <2>1, DeleteBucketMemory DEF KInv, DeleteBucket
<1>3. ASSUME NEW M, SetRoom(r, [rooms[r] EXCEPT !.members = M]), M \in SUBSET RawNames,
             rooms[r].loaded
      PROVE  StepOK
  BY <1>3, MembersMemory DEF KInv
<1>4. Trim[raw] \in RawNames /\ rooms[r].members \in SUBSET RawNames
  BY RoomAssumption, RoomFields DEF KInv, MemoryOK, IInv, RoomOK
<1>5. CASE NewMember(t, r, raw)
  <2> DEFINE M == rooms[r].members \cup ({Trim[raw]} \ {Empty})
  <2>1. rooms[r].loaded /\ crashes' = crashes
        /\ SetRoom(r, [rooms[r] EXCEPT !.members = M])
    BY <1>5, Zenon DEF NewMember, LockFor, Loaded
  <2>2. M \in SUBSET RawNames
    BY <1>4
  <2> HIDE DEF M
  <2> QED
    BY <1>3, <2>1, <2>2
<1>6. CASE DeleteMember(t, r, raw)
  <2> DEFINE M == rooms[r].members \ {Trim[raw]}
  <2>1. rooms[r].loaded /\ crashes' = crashes
        /\ SetRoom(r, [rooms[r] EXCEPT !.members = M])
    BY <1>6, Zenon DEF DeleteMember, LockFor, Loaded
  <2>2. M \in SUBSET RawNames
    BY <1>4
  <2> HIDE DEF M
  <2> QED
    BY <1>3, <2>1, <2>2
<1> QED
  BY <1>1, <1>2, <1>5, <1>6

LEMMA CommandSteps ==
    KInv /\ [KernelNext]_kernelVars => Crash \/ (StepOK /\ crashes' = crashes)
<1> SUFFICES ASSUME KInv, [KernelNext]_kernelVars, ~Crash
             PROVE  StepOK /\ crashes' = crashes
  OBVIOUS
<1>1. ASSUME UNCHANGED <<vars, crashes>> PROVE StepOK /\ crashes' = crashes
  BY <1>1, MemorySame DEF KInv
<1>2. ASSUME NEW t \in Tasks, QuietMemory(t) PROVE StepOK /\ crashes' = crashes
  BY <1>1, <1>2, QuietLeavesMemory
<1>3. RawNames # {} /\ BucketIds # {}
  BY RoomAssumption, KernelAssumption
<1>4. CASE AtOnce
  BY <1>4, NewRoomMemory, UnloadMemory, DeleteMemory
  DEF AtOnce, KInv, NewRoom, UnloadRoom, DeleteRoom
<1>5. CASE Started
  <2>1. ASSUME NEW t \in Tasks, NEW r \in DOMAIN rooms, NEW s \in Slots,
               NEW v \in Values \cup {Null}, StartWrite(t, r, s, v)
        PROVE  UNCHANGED <<vars, crashes>>
    BY <2>1, Zenon DEF StartWrite
  <2>2. ASSUME NEW t \in Tasks, NEW r \in Ids, StartLoad(t, r)
        PROVE  UNCHANGED <<vars, crashes>>
    BY <2>2, Zenon DEF StartLoad
  <2> QED
    BY <1>1, <1>3, <1>5, <2>1, <2>2, RequestSteps DEF Started
<1>6. ASSUME NEW t \in Tasks, Step(t) PROVE StepOK /\ crashes' = crashes
  <2>1. CASE ApplyWrite(t)
    <3> DEFINE cmd == task[t].cmd
    <3>1. task[t].pc \in Writing /\ crashes' = crashes
      BY <2>1, Zenon DEF ApplyWrite, Writing, budget
    <3>2. cmd.slot \in Slots /\ cmd.value \in Values \cup {Null}
      BY <3>1, Writer
    <3>3. \/ cmd.room \in DOMAIN rooms /\ set_fragment(cmd.room, cmd.slot, cmd.value)
          \/ UNCHANGED vars
      BY <2>1, Zenon DEF ApplyWrite, Loaded
    <3> QED
      BY <1>1, <3>1, <3>2, <3>3, WriteMemory DEF KInv
  <2>2. CASE Install(t)
    <3>1. task[t].pc = "install" /\ task[t].pc \in Loading /\ crashes' = crashes
      BY <2>2 DEF Install, Loading, budget
    <3>2. IsImage(task[t].local)
      BY <3>1, Loader, LoadableIsImage
    <3>3. \/ /\ task[t].cmd.room \in DOMAIN rooms
             /\ load_room_data(task[t].cmd.room, task[t].local)
          \/ UNCHANGED vars
      BY <2>2, Zenon DEF Install
    <3> QED
      BY <1>1, <3>1, <3>2, <3>3, InstallMemory DEF KInv
  <2> QED
    BY <1>2, <1>6, <2>1, <2>2 DEF Step, QuietMemory
<1>7. CASE Trouble
  <2>1. ASSUME NEW r \in DOMAIN cache, Evict(r) PROVE UNCHANGED <<vars, crashes>>
    BY <2>1 DEF Evict, budget
  <2> QED
    BY <1>1, <1>2, <1>7, <2>1 DEF Trouble, QuietMemory
<1>8. CASE UNCHANGED kernelVars
  BY <1>1, <1>8 DEF kernelVars, vars
<1> QED
  BY <1>4, <1>5, <1>6, <1>7, <1>8 DEF KernelNext

(***************************************************************************)
(* While the server runs, no command, load or failed write, however they   *)
(* interleave, lowers the counter of a room or gives an entry a version    *)
(* that the room has handed out before, and a room that appears has an id  *)
(* above all earlier ones.  (VersionsNeverReused, and what the code of     *)
(* create_room promises, for handle_command instead of AppState alone.)    *)
(***************************************************************************)
VersionsAndIdsAdvance ==
    [][\/ Crash
       \/ /\ \A r \in DOMAIN rooms \cap DOMAIN rooms' : VersionStep(rooms[r], rooms'[r])
          /\ next_room_id <= next_room_id'
          /\ \A r \in DOMAIN rooms' \ DOMAIN rooms :
                next_room_id <= r /\ r < next_room_id']_kernelVars

THEOREM CommandsNeverReuse == KernelSpec => VersionsAndIdsAdvance
<1> DEFINE A == \/ Crash
                \/ /\ \A r \in DOMAIN rooms \cap DOMAIN rooms' :
                         VersionStep(rooms[r], rooms'[r])
                   /\ next_room_id <= next_room_id'
                   /\ \A r \in DOMAIN rooms' \ DOMAIN rooms :
                         next_room_id <= r /\ r < next_room_id'
<1>1. KInv /\ [KernelNext]_kernelVars => [A]_kernelVars
  <2> SUFFICES ASSUME KInv, [KernelNext]_kernelVars, ~Crash PROVE A
    OBVIOUS
  <2>1. StepOK /\ KInv'
    BY CommandSteps, NextKeepsKInv
  <2>2. /\ next_room_id \in Nat
        /\ \A r \in DOMAIN rooms' : r < next_room_id'
    BY <2>1 DEF KInv, MemoryOK, IInv, TypeOK, RoomIds
  <2> QED
    BY <2>1, <2>2 DEF StepOK
<1> HIDE DEF A
<1>2. KernelSpec => [][A]_kernelVars
  BY <1>1, KInvAlways, PTL DEF KernelSpec
<1> QED
  BY <1>2 DEF A, VersionsAndIdsAdvance

(***************************************************************************)
(* As long as the server does not restart, the id of a deleted room is not *)
(* given to another one: the token of a client of the old room cannot      *)
(* reach a new room.                                                       *)
(***************************************************************************)
IdsKeptWhileRunning ==
    \A r \in Ids, c \in 0..MaxCrashes :
        [](r \in DOMAIN rooms /\ crashes = c =>
             [](r \notin DOMAIN rooms /\ crashes = c =>
                  [](crashes = c => r \notin DOMAIN rooms)))

THEOREM RunningIdsNeverReused == KernelSpec => IdsKeptWhileRunning
<1> SUFFICES ASSUME NEW r \in Ids, NEW c \in 0..MaxCrashes
             PROVE  KernelSpec =>
                      [](r \in DOMAIN rooms /\ crashes = c =>
                           [](r \notin DOMAIN rooms /\ crashes = c =>
                                [](crashes = c => r \notin DOMAIN rooms)))
  BY DEF IdsKeptWhileRunning
<1> DEFINE Here  == r \in DOMAIN rooms
           Now   == crashes = c
           Known == crashes > c \/ (crashes = c /\ r < next_room_id)
           Gone  == crashes > c \/ (crashes = c /\ r < next_room_id /\ ~Here)
<1>1. KInv /\ Here /\ Now => Known
  BY DEF KInv, MemoryOK, IInv
<1>2. KInv /\ [KernelNext]_kernelVars =>
        /\ Known => Known'
        /\ Gone => Gone'
  <2> SUFFICES ASSUME KInv, [KernelNext]_kernelVars
               PROVE  (Known => Known') /\ (Gone => Gone')
    OBVIOUS
  <2>1. KInv' /\ (Crash \/ (StepOK /\ crashes' = crashes))
    BY CommandSteps, NextKeepsKInv
  <2>2. crashes \in Nat /\ c \in Nat /\ r \in Nat
        /\ next_room_id \in Nat /\ next_room_id' \in Nat
    BY <2>1, KernelAssumption, StoreAssumption
    DEF KInv, LedgerOK, MemoryOK, IInv, TypeOK, RoomIds, Ids
  <2>3. CASE Crash
    <3>1. crashes' = crashes + 1
      BY <2>3 DEF Crash
    <3> QED
      BY <2>2, <3>1
  <2>4. CASE StepOK /\ crashes' = crashes
    BY <2>2, <2>4 DEF StepOK
  <2> QED
    BY <2>1, <2>3, <2>4
<1>3. KInv /\ Known /\ Now /\ ~Here => Gone
  BY KernelAssumption DEF KInv, LedgerOK
<1>4. KInv /\ Gone /\ Now => ~Here
  BY KernelAssumption DEF KInv, LedgerOK
<1> HIDE DEF Known, Gone, Here, Now
<1>5. KernelSpec => [](Here /\ Now => [](~Here /\ Now => [](Now => ~Here)))
  BY <1>1, <1>2, <1>3, <1>4, KInvAlways, PTL DEF KernelSpec
<1>6. Here <=> r \in DOMAIN rooms
  BY DEF Here
<1>7. ~Here <=> r \notin DOMAIN rooms
  BY DEF Here
<1>8. Now <=> crashes = c
  BY DEF Now
<1> QED
  BY <1>5, <1>6, <1>7, <1>8, PTL
=============================================================================
