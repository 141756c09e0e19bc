--------------------------- MODULE RoomStoreProofs ---------------------------
(***************************************************************************)
(* Proofs about RoomStore for every set of buckets, keys, values, names    *)
(* and images, and every bound.                                            *)
(***************************************************************************)
EXTENDS RoomStore, WellFoundedInduction, TLAPS

-----------------------------------------------------------------------------
(* A non-empty set of numbers with an upper bound has a largest element.    *)
LEMMA BoundedHasMax ==
    ASSUME NEW n \in Nat, NEW T \in SUBSET (1..n), T # {}
    PROVE  \E m \in T : \A j \in T : j <= m
<1> DEFINE R == OpToRel(<, Nat)
           D == {n - i : i \in T}
<1>0. \A i \in T : i \in Int /\ i <= n
  OBVIOUS
<1>1. D \subseteq Nat /\ D # {}
  <2>1. \A i \in T : n - i \in Nat
    BY <1>0
  <2>2. PICK i : i \in T
    OBVIOUS
  <2>3. n - i \in D
    BY <2>2
  <2> QED
    BY <2>1, <2>3
<1>2. IsWellFoundedOn(R, Nat)
  BY NatLessThanWellFounded
<1> HIDE DEF D
<1>3. \E x \in D : \A y \in D : ~(<<y, x>> \in R)
  BY ONLY <1>1, <1>2, WFMin
<1>4. PICK x \in D : \A y \in D : ~(<<y, x>> \in R)
  BY <1>3
<1>5. \A y \in D : ~(y < x)
  BY <1>1, <1>4 DEF OpToRel
<1>6. PICK m \in T : x = n - m
  BY DEF D
<1>7. \A j \in T : ~(n - j < n - m)
  BY <1>5, <1>6 DEF D
<1> QED
  BY <1>6, <1>7

(* The last write of a slot in a transaction is one of its writes.          *)
LEMMA LastWriteIsAWrite ==
    ASSUME NEW buf \in Seq(RoomCommand), NEW s, WritesTo(buf, s) # {}
    PROVE  /\ LastWrite(buf, s) \in 1..Len(buf)
           /\ buf[LastWrite(buf, s)].slot = s
           /\ buf[LastWrite(buf, s)] \in RoomCommand
<1>1. WritesTo(buf, s) \in SUBSET (1..Len(buf)) /\ Len(buf) \in Nat
  BY DEF WritesTo
<1>2. \E m \in WritesTo(buf, s) : \A j \in WritesTo(buf, s) : j <= m
  BY <1>1, BoundedHasMax
<1>3. LastWrite(buf, s) \in WritesTo(buf, s)
  BY <1>2 DEF LastWrite
<1> QED
  BY <1>3 DEF WritesTo

-----------------------------------------------------------------------------
(* What each way of changing a room preserves.                              *)
LEMMA RoomFields ==
    ASSUME NEW room \in RoomState
    PROVE  /\ room.entries \in [Slots -> Entry \cup {Absent}]
           /\ room.buckets \in SUBSET BucketIds
           /\ room.room_counter \in Nat
           /\ room.tx_buffer \in Seq(RoomCommand) \cup {NoTx}
           /\ room.loaded \in BOOLEAN
           /\ room.bucket_labels \in [BucketIds -> RawNames \cup {Absent}]
           /\ room.bucket_flags \in [BucketIds -> SUBSET FlagBits]
           /\ room.members \in SUBSET RawNames
  BY DEF RoomState

RoomOK(room) ==
    /\ room \in RoomState
    /\ RoomVersionsOK(room)
    /\ RoomBucketsOK(room)

(* An edit in place only adds entries or renews them with newer versions.   *)
InPlace(old, new) ==
    /\ old.room_counter <= new.room_counter
    /\ \A s \in Slots :
          \/ new.entries[s] = old.entries[s]
          \/ /\ new.entries[s] # Absent
             /\ old.room_counter < new.entries[s].key_version

LEMMA InPlaceIsVersionStep ==
    ASSUME NEW old, NEW new, InPlace(old, new)
    PROVE  VersionStep(old, new)
  BY DEF InPlace, VersionStep

LEMMA EmptyRoomOK == RoomOK(EmptyRoom)
  BY RoomAssumption DEF RoomOK, EmptyRoom, RoomState, RoomVersionsOK, RoomBucketsOK, Slots

LEMMA PutOK ==
    ASSUME NEW room, RoomOK(room), NEW s \in Slots, NEW v \in Values \cup {Null}
    PROVE  RoomOK(Put(room, s, v)) /\ InPlace(room, Put(room, s, v))
<1> DEFINE n == room.room_counter + 1
           e == [value |-> v, key_version |-> n]
           E == [room.entries EXCEPT ![s] = e]
           B == room.buckets \cup {s[1]}
           new == Put(room, s, v)
<1>1. room \in RoomState /\ RoomVersionsOK(room) /\ RoomBucketsOK(room)
  BY DEF RoomOK
<1>2. n \in Nat /\ room.room_counter \in Nat /\ n > room.room_counter
  BY <1>1, RoomFields
<1>3. e \in Entry /\ e.key_version = n
  BY <1>2 DEF Entry
<1>4. E \in [Slots -> Entry \cup {Absent}]
  BY <1>1, <1>3, RoomFields
<1>5. B \in SUBSET BucketIds
  BY <1>1, RoomFields DEF Slots
<1>6. new = [room EXCEPT !.room_counter = n, !.buckets = B, !.entries = E]
  BY Zenon DEF Put
<1>7. \A t \in Slots : E[t] = IF t = s THEN e ELSE room.entries[t]
  BY <1>1, RoomFields
<1> HIDE DEF n, e, E, B, new
<1>8. new \in RoomState
  BY <1>1, <1>2, <1>4, <1>5, <1>6 DEF RoomState
<1>9. /\ new.room_counter = n
      /\ new.entries = E
      /\ new.buckets = B
      /\ new.bucket_labels = room.bucket_labels
      /\ new.bucket_flags = room.bucket_flags
  BY <1>1, <1>6 DEF RoomState
<1>10. \A t \in Slots : room.entries[t] # Absent => room.entries[t].key_version \in Nat
  BY <1>1, RoomFields DEF Entry
<1>11. RoomVersionsOK(new)
  BY <1>1, <1>2, <1>3, <1>7, <1>9, <1>10 DEF RoomVersionsOK
<1>12. RoomBucketsOK(new)
  <2>1. \A b \in BucketIds, k \in Keys :
           <<b, k>> \in Slots /\ (<<b, k>> = s => b \in B)
    BY DEF Slots, B
  <2> QED
    BY <1>1, <1>7, <1>9, <2>1, ZenonT(40) DEF RoomBucketsOK, B
<1>13. InPlace(room, new)
  BY <1>2, <1>3, <1>7, <1>9, RoomAssumption DEF InPlace
<1> QED
  BY <1>8, <1>11, <1>12, <1>13 DEF RoomOK, new

LEMMA CommitOK ==
    ASSUME NEW room, RoomOK(room), room.tx_buffer # NoTx
    PROVE  RoomOK(Commit(room)) /\ InPlace(room, Commit(room))
<1> DEFINE new == Commit(room)
           buf == room.tx_buffer
           e(s) == [value |-> buf[LastWrite(buf, s)].value,
                    key_version |-> room.room_counter + LastWrite(buf, s)]
           E == [s \in Slots |-> IF WritesTo(buf, s) = {} THEN room.entries[s] ELSE e(s)]
           B == room.buckets \cup {buf[i].slot[1] : i \in DOMAIN buf}
           n == room.room_counter + Len(buf)
<1>1. /\ room.room_counter \in Nat /\ room \in RoomState
      /\ buf \in Seq(RoomCommand) /\ Len(buf) \in Nat
  BY DEF RoomOK, RoomState
<1>2. \A s \in Slots : WritesTo(buf, s) # {} =>
        /\ e(s) \in Entry
        /\ e(s).key_version = room.room_counter + LastWrite(buf, s)
        /\ LastWrite(buf, s) \in 1..Len(buf)
        /\ buf[LastWrite(buf, s)].slot = s
  <2> SUFFICES ASSUME NEW s \in Slots, WritesTo(buf, s) # {}
               PROVE  /\ e(s) \in Entry
                      /\ e(s).key_version = room.room_counter + LastWrite(buf, s)
                      /\ LastWrite(buf, s) \in 1..Len(buf)
                      /\ buf[LastWrite(buf, s)].slot = s
    OBVIOUS
  <2> DEFINE i == LastWrite(buf, s)
  <2>1. i \in 1..Len(buf) /\ buf[i].slot = s /\ buf[i] \in RoomCommand
    BY <1>1, LastWriteIsAWrite
  <2>2. buf[i].value \in Values \cup {Null}
    BY <2>1 DEF RoomCommand
  <2>3. room.room_counter + i \in Nat
    BY <1>1, <2>1
  <2> HIDE DEF i, buf
  <2> QED
    BY <2>1, <2>2, <2>3 DEF Entry, i
<1>3. B \in SUBSET BucketIds
  <2> HIDE DEF new, buf, e, E, n
  <2>1. \A i \in DOMAIN buf : buf[i].slot[1] \in BucketIds
    <3>1. \A i \in DOMAIN buf : buf[i] \in RoomCommand
      BY <1>1
    <3>2. \A c \in RoomCommand : c.slot[1] \in BucketIds
      BY DEF RoomCommand, Slots
    <3> QED
      BY <3>1, <3>2
  <2>2. room.buckets \in SUBSET BucketIds
    BY <1>1, RoomFields
  <2> QED
    BY <2>1, <2>2
<1>a. E \in [Slots -> Entry \cup {Absent}]
  <2>1. room.entries \in [Slots -> Entry \cup {Absent}]
    BY <1>1, RoomFields
  <2> HIDE DEF e, buf
  <2>2. \A s \in Slots : (IF WritesTo(buf, s) = {} THEN room.entries[s] ELSE e(s))
                          \in Entry \cup {Absent}
    BY <1>2, <2>1
  <2> QED
    BY <2>2, Zenon
<1>b. n \in Nat
  BY <1>1
<1>c. new = [room EXCEPT !.tx_buffer = NoTx, !.room_counter = n,
                         !.buckets = B, !.entries = E]
  BY Zenon DEF Commit
<1>d. \A s \in Slots : E[s] = IF WritesTo(buf, s) = {} THEN room.entries[s] ELSE e(s)
  OBVIOUS
<1> HIDE DEF e, E, B, n, new
<1>4. /\ new \in RoomState
      /\ new.room_counter = n
      /\ new.buckets = B
      /\ new.entries = E
      /\ new.bucket_labels = room.bucket_labels
      /\ new.bucket_flags = room.bucket_flags
  BY <1>1, <1>3, <1>a, <1>b, <1>c DEF RoomState
<1>5. \A s \in Slots :
        \/ WritesTo(buf, s) = {} /\ new.entries[s] = room.entries[s]
        \/ /\ new.entries[s].key_version = room.room_counter + LastWrite(buf, s)
           /\ WritesTo(buf, s) # {}
  BY <1>2, <1>4, <1>d
<1>6. \A t \in Slots : room.entries[t] # Absent => room.entries[t].key_version \in Nat
  BY <1>1 DEF RoomState, Entry
<1>7. RoomVersionsOK(room) /\ RoomBucketsOK(room)
  BY DEF RoomOK
<1> HIDE DEF buf
<1>8. RoomVersionsOK(new)
  <2>1. ASSUME NEW s \in Slots, new.entries[s] # Absent
        PROVE  new.entries[s].key_version <= new.room_counter
    BY <1>1, <1>2, <1>4, <1>5, <1>6, <1>7, <2>1 DEF RoomVersionsOK, n
  <2>2. ASSUME NEW s \in Slots, NEW t \in Slots, s # t,
               new.entries[s] # Absent, new.entries[t] # Absent,
               new.entries[s].key_version = new.entries[t].key_version
        PROVE  new.entries[s].key_version = 0
    <3>1. CASE WritesTo(buf, s) = {} /\ WritesTo(buf, t) = {}
      BY <1>5, <1>7, <2>2, <3>1 DEF RoomVersionsOK
    <3>2. CASE WritesTo(buf, s) # {} /\ WritesTo(buf, t) = {}
      BY <1>1, <1>2, <1>5, <1>6, <1>7, <2>2, <3>2 DEF RoomVersionsOK
    <3>3. CASE WritesTo(buf, s) = {} /\ WritesTo(buf, t) # {}
      BY <1>1, <1>2, <1>5, <1>6, <1>7, <2>2, <3>3 DEF RoomVersionsOK
    <3>4. CASE WritesTo(buf, s) # {} /\ WritesTo(buf, t) # {}
      BY <1>1, <1>2, <1>5, <2>2, <3>4
    <3> QED
      BY <3>1, <3>2, <3>3, <3>4
  <2> QED
    BY <2>1, <2>2 DEF RoomVersionsOK
<1>9. RoomBucketsOK(new)
  <2>1. ASSUME NEW b \in BucketIds \ new.buckets, NEW k \in Keys
        PROVE  new.entries[<<b, k>>] = Absent
    <3>1. <<b, k>> \in Slots
      BY DEF Slots
    <3>2. CASE WritesTo(buf, <<b, k>>) = {}
      BY <1>4, <1>5, <1>7, <3>1, <3>2 DEF RoomBucketsOK, B
    <3>3. CASE WritesTo(buf, <<b, k>>) # {}
      <4>1. PICK i \in DOMAIN buf : buf[i].slot = <<b, k>>
        BY <3>3 DEF WritesTo
      <4>2. b \in new.buckets
        BY <1>4, <4>1 DEF B
      <4> QED
        BY <4>2
    <3> QED
      BY <3>2, <3>3
  <2> QED
    BY <1>4, <1>7, <2>1 DEF RoomBucketsOK, B
<1>10. InPlace(room, new)
  BY <1>1, <1>2, <1>4, <1>5, <1>d, RoomAssumption DEF InPlace, n
<1> QED
  BY <1>4, <1>8, <1>9, <1>10 DEF RoomOK, new

LEMMA LoadOK ==
    ASSUME NEW room, RoomOK(room), NEW img, IsImage(img)
    PROVE  RoomOK(Load(room, img)) /\ VersionStep(room, Load(room, img))
           /\ TxStep(room, Load(room, img))
<1> DEFINE B == DOMAIN img.defs
           L == [b \in BucketIds |-> IF b \in B THEN img.defs[b].label ELSE Absent]
           F == [b \in BucketIds |-> IF b \in B THEN img.defs[b].flags ELSE {}]
           e(s) == [value |-> img.fragments[s], key_version |-> 0]
           E == [s \in Slots |-> IF s[1] \in B /\ img.fragments[s] # Absent
                                 THEN e(s) ELSE Absent]
           new == Load(room, img)
<1>1. room \in RoomState /\ B \in SUBSET BucketIds /\ img.members \in SUBSET RawNames
  BY DEF RoomOK, IsImage
<1>2. \A b \in B : /\ img.defs[b].label \in RawNames \cup {Absent}
                   /\ img.defs[b].flags \in SUBSET FlagBits
  BY DEF IsImage, BucketDef
<1>3. L \in [BucketIds -> RawNames \cup {Absent}] /\ F \in [BucketIds -> SUBSET FlagBits]
  <2> HIDE DEF B
  <2> QED
    BY <1>2
<1>4. \A s \in Slots : e(s).key_version = 0
        /\ (img.fragments[s] # Absent => e(s) \in Entry)
  BY DEF IsImage, Entry
<1>5. \A s \in Slots : E[s] = IF s[1] \in B /\ img.fragments[s] # Absent THEN e(s) ELSE Absent
  OBVIOUS
<1>6. E \in [Slots -> Entry \cup {Absent}]
  <2> HIDE DEF e, B
  <2> QED
    BY <1>4
<1>7. /\ \A b \in BucketIds \ B : L[b] = Absent
      /\ \A b \in BucketIds \ B : F[b] = {}
  OBVIOUS
<1>8. new = [room EXCEPT !.loaded = TRUE, !.buckets = B, !.members = img.members,
                         !.bucket_labels = L, !.bucket_flags = F, !.entries = E]
  BY Zenon DEF Load
<1> HIDE DEF B, L, F, e, E, new
<1>9. /\ new \in RoomState
      /\ new.room_counter = room.room_counter
      /\ new.room_counter \in Nat
      /\ new.buckets = B
      /\ new.entries = E
      /\ new.bucket_labels = L
      /\ new.bucket_flags = F
  BY <1>1, <1>3, <1>6, <1>8 DEF RoomState
<1>10. RoomVersionsOK(new)
  BY <1>4, <1>5, <1>9 DEF RoomVersionsOK
<1>11. RoomBucketsOK(new)
  BY <1>5, <1>7, <1>9 DEF RoomBucketsOK, Slots
<1>12. \A s \in Slots : new.entries[s] = Absent \/ new.entries[s].key_version = 0
  BY <1>4, <1>5, <1>9
<1> QED
  BY <1>9, <1>10, <1>11, <1>12 DEF RoomOK, VersionStep, TxStep, new

LEMMA UnloadOK ==
    ASSUME NEW room, RoomOK(room)
    PROVE  RoomOK(Unload(room)) /\ VersionStep(room, Unload(room))
           /\ TxStep(room, Unload(room))
<1>1. /\ room.room_counter \in Nat
      /\ room.tx_buffer \in Seq(RoomCommand) \cup {NoTx}
  BY RoomFields DEF RoomOK
<1>2. EmptyRoom \in RoomState /\ RoomBucketsOK(EmptyRoom)
  BY EmptyRoomOK DEF RoomOK
<1>3. /\ Unload(room) \in RoomState
      /\ Unload(room).room_counter = room.room_counter
      /\ Unload(room).buckets = EmptyRoom.buckets
      /\ Unload(room).entries = EmptyRoom.entries
      /\ Unload(room).bucket_labels = EmptyRoom.bucket_labels
      /\ Unload(room).bucket_flags = EmptyRoom.bucket_flags
  BY <1>1, <1>2 DEF Unload, RoomState
<1>4. \A s \in Slots : Unload(room).entries[s] = Absent
  BY <1>3 DEF EmptyRoom
<1> QED
  BY <1>1, <1>2, <1>3, <1>4
  DEF RoomOK, RoomVersionsOK, RoomBucketsOK, VersionStep, TxStep

(* A step that leaves the entries, the counter and the set of buckets alone *)
(* and gives labels and flags only to buckets that exist.                   *)
LEMMA SameDataOK ==
    ASSUME NEW old, RoomOK(old), NEW new \in RoomState,
           new.entries = old.entries,
           new.room_counter = old.room_counter,
           new.buckets = old.buckets,
           \A b \in BucketIds \ old.buckets :
              /\ new.bucket_labels[b] = old.bucket_labels[b]
              /\ new.bucket_flags[b] = old.bucket_flags[b]
    PROVE  RoomOK(new) /\ InPlace(old, new) /\ TxStep(old, new)
<1>1. new.room_counter \in Nat
  BY RoomFields
<1> QED
  BY <1>1 DEF RoomOK, RoomVersionsOK, RoomBucketsOK, InPlace, TxStep

-----------------------------------------------------------------------------
GoodStep(old, new) == RoomOK(new) /\ VersionStep(old, new) /\ TxStep(old, new)
GoodEdit(old, new) == RoomOK(new) /\ InPlace(old, new) /\ TxStep(old, new)

IInv ==
    /\ TypeOK
    /\ \A r \in DOMAIN rooms : RoomOK(rooms[r]) /\ r < next_room_id
    /\ LabelsNameLiveRooms

(* What one step does to the rooms that exist before and after it, and that *)
(* an id already passed by next_room_id does not come back.                 *)
StepOK ==
    /\ \A r \in DOMAIN rooms \cap DOMAIN rooms' :
          VersionStep(rooms[r], rooms'[r]) /\ TxStep(rooms[r], rooms'[r])
    /\ next_room_id <= next_room_id'
    /\ \A r \in DOMAIN rooms' : r \in DOMAIN rooms \/ r = next_room_id

EditsInPlace ==
    /\ DOMAIN rooms' = DOMAIN rooms
    /\ \A r \in DOMAIN rooms : InPlace(rooms[r], rooms'[r])

LEMMA SameRoomStep ==
    ASSUME NEW room, RoomOK(room)
    PROVE  VersionStep(room, room) /\ InPlace(room, room) /\ TxStep(room, room)
<1>1. room.room_counter \in Nat
  BY RoomFields DEF RoomOK
<1> QED
  BY <1>1 DEF VersionStep, InPlace, TxStep

LEMMA SetRoomOK ==
    ASSUME IInv, NEW r \in DOMAIN rooms, NEW room, GoodStep(rooms[r], room),
           SetRoom(r, room)
    PROVE  IInv' /\ StepOK
<1>1. /\ rooms' = [rooms EXCEPT ![r] = room]
      /\ labels' = labels /\ next_room_id' = next_room_id
  BY DEF SetRoom
<1>2. DOMAIN rooms' = DOMAIN rooms
  BY <1>1
<1>3. \A q \in DOMAIN rooms : rooms'[q] = IF q = r THEN room ELSE rooms[q]
  BY <1>1
<1>4. next_room_id \in Nat
  BY DEF IInv, TypeOK, RoomIds
<1>5. room \in RoomState
  BY DEF GoodStep, RoomOK
<1>6. TypeOK'
  BY <1>1, <1>2, <1>5 DEF IInv, TypeOK
<1>7. IInv'
  BY <1>1, <1>2, <1>3, <1>6 DEF IInv, GoodStep, LabelsNameLiveRooms
<1>8. StepOK
  BY <1>1, <1>2, <1>3, <1>4, SameRoomStep DEF StepOK, IInv, GoodStep
<1> QED
  BY <1>7, <1>8

LEMMA EditRoomOK ==
    ASSUME IInv, NEW r \in DOMAIN rooms, NEW room, GoodEdit(rooms[r], room),
           SetRoom(r, room)
    PROVE  IInv' /\ StepOK /\ EditsInPlace
<1>1. GoodStep(rooms[r], room)
  BY InPlaceIsVersionStep DEF GoodEdit, GoodStep
<1>2. DOMAIN rooms' = DOMAIN rooms
      /\ \A q \in DOMAIN rooms : rooms'[q] = IF q = r THEN room ELSE rooms[q]
  BY DEF SetRoom
<1>3. EditsInPlace
  BY <1>2, SameRoomStep DEF EditsInPlace, GoodEdit, IInv
<1> QED
  BY <1>1, <1>3, SetRoomOK

LEMMA WriteOK ==
    ASSUME NEW room, RoomOK(room), NEW s \in Slots, NEW v \in Values \cup {Null}
    PROVE  GoodEdit(room, IF room.tx_buffer # NoTx THEN Buffer(room, s, v)
                                                   ELSE Put(room, s, v))
<1>1. room \in RoomState
  BY DEF RoomOK
<1>2. CASE room.tx_buffer = NoTx
  BY <1>2, PutOK DEF GoodEdit, TxStep
<1>3. CASE room.tx_buffer # NoTx
  <2> DEFINE t == Append(room.tx_buffer, [slot |-> s, value |-> v])
  <2>1. [slot |-> s, value |-> v] \in RoomCommand
    BY DEF RoomCommand
  <2>2. t \in Seq(RoomCommand)
    BY <1>1, <1>3, <2>1, RoomFields
  <2>3. Buffer(room, s, v) = [room EXCEPT !.tx_buffer = t]
    BY Zenon DEF Buffer
  <2> HIDE DEF t
  <2>4. Buffer(room, s, v) \in RoomState
    BY <1>1, <2>2, <2>3 DEF RoomState
  <2>5. GoodEdit(room, Buffer(room, s, v))
    BY <1>1, <2>3, <2>4, SameDataOK DEF GoodEdit, RoomState
  <2> QED
    BY <1>3, <2>5
<1> QED
  BY <1>2, <1>3

(* Every operation that edits a room in place keeps the invariant.          *)
LEMMA EditKeepsIInv ==
    ASSUME IInv, NEW r \in DOMAIN rooms, Edit(r)
    PROVE  IInv' /\ StepOK /\ EditsInPlace
<1> DEFINE room == rooms[r]
<1>1. RoomOK(room) /\ room \in RoomState
  BY DEF IInv, RoomOK
<1>2. \A new \in RoomState :
        /\ new.entries = room.entries /\ new.room_counter = room.room_counter
        /\ new.buckets = room.buckets
        /\ \A b \in BucketIds \ room.buckets :
              /\ new.bucket_labels[b] = room.bucket_labels[b]
              /\ new.bucket_flags[b] = room.bucket_flags[b]
        => GoodEdit(room, new)
  BY <1>1, SameDataOK DEF GoodEdit
<1>3. \A raw \in RawNames : Trim[raw] \in RawNames
  BY RoomAssumption
<1>4. ASSUME NEW s \in Slots, NEW v \in Values \cup {Null}, set_fragment(r, s, v)
      PROVE  IInv' /\ StepOK /\ EditsInPlace
  BY <1>1, <1>4, WriteOK, EditRoomOK DEF set_fragment
<1>5. ASSUME NEW s \in Slots, del_fragment(r, s)
      PROVE  IInv' /\ StepOK /\ EditsInPlace
  BY <1>1, <1>5, WriteOK, EditRoomOK DEF del_fragment
<1>6. CASE tx_begin(r)
  <2> DEFINE new == [room EXCEPT !.tx_buffer = << >>]
  <2>0. << >> \in Seq(RoomCommand)
    OBVIOUS
  <2>1. new \in RoomState
    BY <1>1, <2>0 DEF RoomState
  <2>2. GoodEdit(room, new)
    BY <1>1, <1>2, <2>1 DEF RoomState
  <2> QED
    BY <1>6, <2>2, EditRoomOK DEF tx_begin
<1>7. CASE tx_end(r)
  <2>1. room.tx_buffer # NoTx /\ SetRoom(r, Commit(room))
    BY <1>7 DEF tx_end
  <2>2. Commit(room).tx_buffer = NoTx
    BY <1>1 DEF Commit, RoomState
  <2>3. GoodEdit(room, Commit(room))
    BY <1>1, <2>1, <2>2, CommitOK DEF GoodEdit, TxStep
  <2> QED
    BY <2>1, <2>3, EditRoomOK
<1>8. CASE tx_abort(r)
  <2> DEFINE new == [room EXCEPT !.tx_buffer = NoTx]
  <2>1. new \in RoomState
    BY <1>1 DEF RoomState
  <2>2. GoodEdit(room, new)
    BY <1>1, <1>2, <2>1 DEF RoomState
  <2> QED
    BY <1>8, <2>2, EditRoomOK DEF tx_abort
<1>9. ASSUME NEW raw \in RawNames, add_member(r, raw) \/ remove_member(r, raw)
      PROVE  IInv' /\ StepOK /\ EditsInPlace
  <2>1. PICK m \in SUBSET RawNames : SetRoom(r, [room EXCEPT !.members = m])
    <3>1. room.members \cup {Trim[raw]} \in SUBSET RawNames
          /\ room.members \ {raw} \in SUBSET RawNames
      BY <1>1, <1>3, RoomFields
    <3> QED
      BY <1>9, <3>1 DEF add_member, remove_member
  <2> DEFINE new == [room EXCEPT !.members = m]
  <2>2. new \in RoomState
    BY <1>1 DEF RoomState
  <2>3. GoodEdit(room, new)
    BY <1>1, <1>2, <2>2 DEF RoomState
  <2> QED
    BY <2>1, <2>3, EditRoomOK
<1>10. ASSUME NEW b \in BucketIds, NEW raw \in RawNames, set_bucket_label(r, b, raw)
       PROVE  IInv' /\ StepOK /\ EditsInPlace
  <2> DEFINE L == [room.bucket_labels EXCEPT ![b] = Trim[raw]]
             new == [room EXCEPT !.bucket_labels = L]
  <2>1. L \in [BucketIds -> RawNames \cup {Absent}]
    BY <1>1, <1>3, RoomFields
  <2>2. b \in room.buckets /\ SetRoom(r, new)
    BY <1>10, Zenon DEF set_bucket_label
  <2>3. \A c \in BucketIds \ room.buckets : L[c] = room.bucket_labels[c]
    BY <1>1, <2>2, RoomFields
  <2> HIDE DEF L
  <2>4. new \in RoomState
    BY <1>1, <2>1 DEF RoomState
  <2>5. GoodEdit(room, new)
    BY <1>1, <1>2, <2>3, <2>4 DEF RoomState
  <2> QED
    BY <2>2, <2>5, EditRoomOK
<1>11. ASSUME NEW b \in BucketIds, NEW f \in SUBSET FlagBits,
              \/ set_bucket_flags(r, b, f)
              \/ \E on \in BOOLEAN : set_bucket_flag_bit(r, b, f, on)
       PROVE  IInv' /\ StepOK /\ EditsInPlace
  <2>1. PICK g \in SUBSET FlagBits :
           /\ b \in room.buckets
           /\ SetRoom(r, [room EXCEPT !.bucket_flags = [room.bucket_flags EXCEPT ![b] = g]])
    <3>1. room.bucket_flags[b] \cup f \in SUBSET FlagBits
          /\ room.bucket_flags[b] \ f \in SUBSET FlagBits
      BY <1>1, RoomFields
    <3>2. CASE set_bucket_flags(r, b, f)
      BY <3>2, Zenon DEF set_bucket_flags
    <3>3. ASSUME NEW on \in BOOLEAN, set_bucket_flag_bit(r, b, f, on)
          PROVE  \E g \in SUBSET FlagBits :
             /\ b \in room.buckets
             /\ SetRoom(r, [room EXCEPT !.bucket_flags = [room.bucket_flags EXCEPT ![b] = g]])
      <4> DEFINE h == IF on THEN room.bucket_flags[b] \cup f ELSE room.bucket_flags[b] \ f
      <4>1. /\ b \in room.buckets
            /\ SetRoom(r, [room EXCEPT !.bucket_flags = [room.bucket_flags EXCEPT ![b] = h]])
        BY <3>3, Zenon DEF set_bucket_flag_bit
      <4>2. h \in SUBSET FlagBits
        BY <3>1
      <4> HIDE DEF h
      <4> QED
        BY <4>1, <4>2, Zenon
    <3> QED
      BY <1>11, <3>2, <3>3
  <2> DEFINE F == [room.bucket_flags EXCEPT ![b] = g]
             new == [room EXCEPT !.bucket_flags = F]
  <2>2. F \in [BucketIds -> SUBSET FlagBits]
    BY <1>1, RoomFields
  <2>3. \A c \in BucketIds \ room.buckets : F[c] = room.bucket_flags[c]
    BY <1>1, <2>1, RoomFields
  <2>4. SetRoom(r, new)
    BY <2>1
  <2> HIDE DEF F
  <2>5. new \in RoomState
    BY <1>1, <2>2 DEF RoomState
  <2>6. GoodEdit(room, new)
    BY <1>1, <1>2, <2>3, <2>5 DEF RoomState
  <2> QED
    BY <2>4, <2>6, EditRoomOK
<1>12. ASSUME NEW raw \in RawNames, set_room_label(r, raw)
       PROVE  IInv' /\ StepOK /\ EditsInPlace
  <2>1. /\ rooms' = rooms /\ next_room_id' = next_room_id
        /\ Trim[raw] \in LegalNames
        /\ labels' = [l \in DOMAIN labels \cup {Trim[raw]} |->
                        IF l = Trim[raw] THEN r ELSE labels[l]]
    BY <1>12 DEF set_room_label
  <2>2. r \in RoomIds /\ next_room_id \in Nat
    BY DEF IInv, TypeOK, RoomIds
  <2>3. /\ DOMAIN labels' = DOMAIN labels \cup {Trim[raw]}
        /\ \A l \in DOMAIN labels' : labels'[l] = IF l = Trim[raw] THEN r ELSE labels[l]
    BY <2>1
  <2>4. TypeOK' /\ LabelsNameLiveRooms'
    BY <2>1, <2>2, <2>3 DEF IInv, TypeOK, LabelsNameLiveRooms
  <2>5. IInv'
    BY <2>1, <2>4 DEF IInv
  <2>6. StepOK /\ EditsInPlace
    BY <2>1, <2>2, SameRoomStep DEF IInv, StepOK, EditsInPlace
  <2> QED
    BY <2>5, <2>6
<1> QED
  BY <1>4, <1>5, <1>6, <1>7, <1>8, <1>9, <1>10, <1>11, <1>12 DEF Edit

LEMMA ReplaceKeepsIInv ==
    ASSUME IInv, NEW r \in DOMAIN rooms, Replace(r)
    PROVE  IInv' /\ StepOK
<1>1. RoomOK(rooms[r])
  BY DEF IInv
<1>2. ASSUME NEW img \in Images, load_room_data(r, img)
      PROVE  IInv' /\ StepOK
  BY <1>1, <1>2, StoreAssumption, LoadOK, SetRoomOK DEF load_room_data, GoodStep
<1>3. CASE unload_room(r)
  BY <1>1, <1>3, UnloadOK, SetRoomOK DEF unload_room, GoodStep
<1>4. CASE delete_room(r)
  <2>1. /\ rooms' = [q \in DOMAIN rooms \ {r} |-> rooms[q]]
        /\ labels' = [l \in {k \in DOMAIN labels : labels[k] # r} |-> labels[l]]
        /\ next_room_id' = next_room_id
    BY <1>4 DEF delete_room
  <2>2. /\ DOMAIN rooms' = DOMAIN rooms \ {r}
        /\ \A q \in DOMAIN rooms' : rooms'[q] = rooms[q]
        /\ DOMAIN labels' = {k \in DOMAIN labels : labels[k] # r}
        /\ \A l \in DOMAIN labels' : labels'[l] = labels[l]
    BY <2>1
  <2>3. next_room_id \in Nat
    BY DEF IInv, TypeOK, RoomIds
  <2>4. TypeOK'
    BY <2>1, <2>2 DEF IInv, TypeOK
  <2>5. IInv'
    BY <2>1, <2>2, <2>4 DEF IInv, LabelsNameLiveRooms
  <2>6. StepOK
    BY <2>1, <2>2, <2>3, SameRoomStep DEF IInv, StepOK
  <2> QED
    BY <2>5, <2>6
<1> QED
  BY <1>2, <1>3, <1>4 DEF Replace

LEMMA CreateKeepsIInv ==
    ASSUME IInv, create_room
    PROVE  IInv' /\ StepOK
<1>1. /\ next_room_id' = next_room_id + 1 /\ labels' = labels
      /\ rooms' = [r \in DOMAIN rooms \cup {next_room_id} |->
                      IF r = next_room_id THEN EmptyRoom ELSE rooms[r]]
  BY DEF create_room
<1>2. next_room_id \in RoomIds /\ next_room_id \in Nat /\ next_room_id' \in RoomIds
  BY <1>1 DEF IInv, TypeOK, RoomIds
<1>3. /\ DOMAIN rooms' = DOMAIN rooms \cup {next_room_id}
      /\ next_room_id \notin DOMAIN rooms
      /\ rooms'[next_room_id] = EmptyRoom
      /\ \A r \in DOMAIN rooms : rooms'[r] = rooms[r]
  BY <1>1, <1>2 DEF IInv
<1>4. EmptyRoom \in RoomState /\ RoomOK(EmptyRoom)
  BY EmptyRoomOK DEF RoomOK
<1>5. TypeOK'
  <2>1. rooms' \in [DOMAIN rooms' -> RoomState]
    BY <1>1, <1>3, <1>4 DEF IInv, TypeOK
  <2> QED
    BY <1>1, <1>2, <1>3, <2>1 DEF IInv, TypeOK
<1>6. \A r \in DOMAIN rooms' : RoomOK(rooms'[r]) /\ r < next_room_id'
  <2>1. \A r \in DOMAIN rooms : r \in Nat /\ r < next_room_id
    BY DEF IInv, TypeOK, RoomIds
  <2> QED
    BY <1>1, <1>2, <1>3, <1>4, <2>1 DEF IInv
<1>7. IInv'
  BY <1>1, <1>3, <1>5, <1>6 DEF IInv, LabelsNameLiveRooms
<1>8. StepOK
  BY <1>1, <1>2, <1>3, SameRoomStep DEF IInv, StepOK
<1> QED
  BY <1>7, <1>8

-----------------------------------------------------------------------------
LEMMA InitIInv == Init => IInv
  BY DEF Init, IInv, TypeOK, RoomIds, LabelsNameLiveRooms

LEMMA NextKeepsIInv == IInv /\ [Next]_vars => IInv' /\ StepOK
<1> SUFFICES ASSUME IInv, [Next]_vars PROVE IInv' /\ StepOK
  OBVIOUS
<1>1. CASE create_room
  BY <1>1, CreateKeepsIInv
<1>2. ASSUME NEW r \in DOMAIN rooms, Edit(r) PROVE IInv' /\ StepOK
  BY <1>2, EditKeepsIInv
<1>3. ASSUME NEW r \in DOMAIN rooms, Replace(r) PROVE IInv' /\ StepOK
  BY <1>3, ReplaceKeepsIInv
<1>4. CASE UNCHANGED vars
  <2>1. rooms' = rooms /\ labels' = labels /\ next_room_id' = next_room_id
    BY <1>4 DEF vars
  <2>2. next_room_id \in Nat
    BY DEF IInv, TypeOK, RoomIds
  <2> QED
    BY <2>1, <2>2, SameRoomStep DEF IInv, TypeOK, LabelsNameLiveRooms, StepOK
<1> QED
  BY <1>1, <1>2, <1>3, <1>4 DEF Next

LEMMA IInvAlways == Spec => []IInv
  BY InitIInv, NextKeepsIInv, PTL DEF Spec

(* Every operation keeps the state of every room, the label map and the id  *)
(* counter well formed.                                                     *)
THEOREM TypeCorrect == Spec => []TypeOK
<1>1. IInv => TypeOK
  BY DEF IInv
<1> QED
  BY <1>1, IInvAlways, PTL

(* A version of a room names one write, through transactions and reloads.   *)
THEOREM VersionsCorrect == Spec => []VersionsIdentifyWrites
<1>1. IInv => VersionsIdentifyWrites
  BY DEF IInv, RoomOK, VersionsIdentifyWrites
<1> QED
  BY <1>1, IInvAlways, PTL

(* The maps kept per bucket never describe a bucket that does not exist.    *)
THEOREM BucketMapsCorrect == Spec => []BucketMapsAgree
<1>1. IInv => BucketMapsAgree
  BY DEF IInv, RoomOK, BucketMapsAgree
<1> QED
  BY <1>1, IInvAlways, PTL

(* A label never outlives the room it names.                                *)
THEOREM LabelsCorrect == Spec => []LabelsNameLiveRooms
<1>1. IInv => LabelsNameLiveRooms
  BY DEF IInv
<1> QED
  BY <1>1, IInvAlways, PTL

(* No step rewinds a room's counter or reuses a version.                    *)
THEOREM VersionsOnlyGrow == Spec => VersionsNeverReused
<1>1. IInv /\ [Next]_vars =>
        [\A r \in DOMAIN rooms \cap DOMAIN rooms' : VersionStep(rooms[r], rooms'[r])]_vars
  BY NextKeepsIInv DEF StepOK
<1> QED
  BY <1>1, IInvAlways, PTL DEF Spec, VersionsNeverReused

(* No write of an open transaction shows before tx_end.                     *)
THEOREM TxIsolation == Spec => TxHidesWrites
<1>1. IInv /\ [Next]_vars =>
        [\A r \in DOMAIN rooms \cap DOMAIN rooms' : TxStep(rooms[r], rooms'[r])]_vars
  BY NextKeepsIInv DEF StepOK
<1> QED
  BY <1>1, IInvAlways, PTL DEF Spec, TxHidesWrites

(* The id of a deleted room is never handed out again.                      *)
THEOREM IdsNeverReused == Spec => RoomIdsNeverReused
<1> SUFFICES ASSUME NEW r \in 1..MaxRoomId
             PROVE  Spec => [](r \in DOMAIN rooms =>
                              [](r \notin DOMAIN rooms => [](r \notin DOMAIN rooms)))
  BY DEF RoomIdsNeverReused
<1> DEFINE Known == r < next_room_id
           Gone  == Known /\ r \notin DOMAIN rooms
<1>1. IInv => (r \in DOMAIN rooms => Known)
  BY DEF IInv
<1>2. IInv /\ [Next]_vars /\ Known => Known'
  <2> SUFFICES ASSUME IInv, [Next]_vars, Known PROVE Known'
    OBVIOUS
  <2>1. StepOK /\ IInv'
    BY NextKeepsIInv
  <2>2. next_room_id \in Nat /\ next_room_id' \in Nat /\ r \in Nat
    BY <2>1 DEF IInv, TypeOK, RoomIds
  <2> QED
    BY <2>1, <2>2 DEF StepOK
<1>3. IInv /\ [Next]_vars /\ Gone => Gone'
  <2> SUFFICES ASSUME IInv, [Next]_vars, Gone PROVE Gone'
    OBVIOUS
  <2>1. StepOK /\ IInv'
    BY NextKeepsIInv
  <2>2. next_room_id \in Nat /\ next_room_id' \in Nat /\ r \in Nat
    BY <2>1 DEF IInv, TypeOK, RoomIds
  <2> QED
    BY <2>1, <2>2 DEF StepOK
<1>4. Gone <=> Known /\ r \notin DOMAIN rooms
  OBVIOUS
<1>5. r \in DOMAIN rooms <=> ~(r \notin DOMAIN rooms)
  OBVIOUS
<1> QED
  BY <1>1, <1>2, <1>3, <1>4, <1>5, IInvAlways, PTL DEF Spec

-----------------------------------------------------------------------------
(* tx_end one command at a time: committing a transaction is committing all *)
(* but its last command, then writing that one.                             *)
Buffering(room, b) == [room EXCEPT !.tx_buffer = b]

LEMMA AppendWrites ==
    ASSUME NEW b \in Seq(RoomCommand), NEW c \in RoomCommand, NEW s
    PROVE  LET ext == Append(b, c) IN
           /\ c.slot # s => WritesTo(ext, s) = WritesTo(b, s)
           /\ c.slot = s => WritesTo(ext, s) = WritesTo(b, s) \cup {Len(b) + 1}
           /\ WritesTo(b, s) # {} =>
                ext[LastWrite(b, s)] = b[LastWrite(b, s)]
           /\ c.slot # s => LastWrite(ext, s) = LastWrite(b, s)
           /\ c.slot = s => LastWrite(ext, s) = Len(b) + 1
<1> DEFINE ext == Append(b, c)
           n == Len(b)
<1>1. /\ n \in Nat
      /\ DOMAIN b = 1..n
      /\ DOMAIN ext = 1..(n + 1)
      /\ ext[n + 1] = c
      /\ \A i \in 1..n : ext[i] = b[i]
  OBVIOUS
<1> HIDE DEF ext, n
<1>2. c.slot # s => WritesTo(ext, s) = WritesTo(b, s)
  BY <1>1 DEF WritesTo
<1>3. c.slot = s => WritesTo(ext, s) = WritesTo(b, s) \cup {n + 1}
  BY <1>1 DEF WritesTo
<1>4. WritesTo(b, s) # {} => ext[LastWrite(b, s)] = b[LastWrite(b, s)]
  BY <1>1, LastWriteIsAWrite DEF n
<1>5. c.slot # s => LastWrite(ext, s) = LastWrite(b, s)
  BY <1>2 DEF LastWrite
<1>6. ASSUME c.slot = s PROVE LastWrite(ext, s) = n + 1
  <2>1. \A i \in WritesTo(b, s) : i \in 1..n
    BY <1>1 DEF WritesTo
  <2>2. n + 1 \in WritesTo(ext, s) /\ \A j \in WritesTo(ext, s) : j <= n + 1
    BY <1>1, <1>3, <1>6, <2>1
  <2>3. \A i \in WritesTo(ext, s) : n + 1 <= i => i = n + 1
    BY <1>1, <1>3, <1>6, <2>1
  <2>4. LastWrite(ext, s) \in WritesTo(ext, s)
        /\ \A j \in WritesTo(ext, s) : j <= LastWrite(ext, s)
    BY <2>2 DEF LastWrite
  <2> QED
    BY <2>2, <2>3, <2>4
<1> QED
  BY <1>2, <1>3, <1>4, <1>5, <1>6 DEF ext, n

LEMMA CommitAppend ==
    ASSUME NEW room \in RoomState,
           NEW b \in Seq(RoomCommand), NEW c \in RoomCommand
    PROVE  Commit(Buffering(room, Append(b, c)))
             = Put(Commit(Buffering(room, b)), c.slot, c.value)
<1> DEFINE ext == Append(b, c)
           k == room.room_counter
           E(buf) == [s \in Slots |->
                        IF WritesTo(buf, s) = {} THEN room.entries[s]
                        ELSE [value       |-> buf[LastWrite(buf, s)].value,
                              key_version |-> k + LastWrite(buf, s)]]
           B(buf) == room.buckets \cup {buf[i].slot[1] : i \in DOMAIN buf}
           last == [value |-> c.value, key_version |-> k + Len(b) + 1]
<1>1. /\ k \in Nat /\ Len(b) \in Nat /\ ext \in Seq(RoomCommand)
      /\ Len(ext) = Len(b) + 1 /\ ext[Len(b) + 1] = c
      /\ k + Len(ext) = k + Len(b) + 1
      /\ k + (Len(b) + 1) = k + Len(b) + 1
  BY RoomFields
<1>2. ASSUME NEW buf
      PROVE  /\ Commit(Buffering(room, buf)) =
                   [room EXCEPT !.tx_buffer = NoTx, !.room_counter = k + Len(buf),
                                !.buckets = B(buf), !.entries = E(buf)]
             /\ Commit(Buffering(room, buf)).room_counter = k + Len(buf)
  <2>1. /\ Buffering(room, buf).tx_buffer = buf
        /\ Buffering(room, buf).room_counter = k
        /\ Buffering(room, buf).buckets = room.buckets
        /\ Buffering(room, buf).entries = room.entries
    BY DEF Buffering, RoomState
  <2>2. Commit(Buffering(room, buf)) =
            [Buffering(room, buf) EXCEPT
                !.tx_buffer = NoTx, !.room_counter = k + Len(buf),
                !.buckets = B(buf), !.entries = E(buf)]
    BY <2>1, Zenon DEF Commit
  <2> HIDE DEF E, B, k
  <2>3. [Buffering(room, buf) EXCEPT
            !.tx_buffer = NoTx, !.room_counter = k + Len(buf),
            !.buckets = B(buf), !.entries = E(buf)]
        = [room EXCEPT !.tx_buffer = NoTx, !.room_counter = k + Len(buf),
                       !.buckets = B(buf), !.entries = E(buf)]
    BY DEF Buffering, RoomState
  <2>4. [room EXCEPT !.tx_buffer = NoTx, !.room_counter = k + Len(buf),
                     !.buckets = B(buf), !.entries = E(buf)].room_counter = k + Len(buf)
    BY DEF RoomState
  <2> QED
    BY <2>2, <2>3, <2>4
<1>3. B(ext) = B(b) \cup {c.slot[1]}
  <2>1. /\ DOMAIN ext = DOMAIN b \cup {Len(b) + 1}
        /\ \A i \in DOMAIN b : ext[i] = b[i]
    BY <1>1
  <2> HIDE DEF ext
  <2> QED
    BY <1>1, <2>1
<1>4. c.slot \in Slots
  BY DEF RoomCommand
<1>5. E(ext) = [E(b) EXCEPT ![c.slot] = last]
  <2>1. ASSUME NEW s \in Slots
        PROVE  E(ext)[s] = IF s = c.slot THEN last ELSE E(b)[s]
    <3>1. CASE s = c.slot
      <4>1. WritesTo(ext, s) # {} /\ LastWrite(ext, s) = Len(b) + 1
        BY <3>1, AppendWrites, SMTT(30)
      <4> QED
        BY <1>1, <3>1, <4>1
    <3>2. CASE s # c.slot
      <4>1. /\ WritesTo(ext, s) = WritesTo(b, s)
            /\ LastWrite(ext, s) = LastWrite(b, s)
            /\ WritesTo(b, s) # {} => ext[LastWrite(b, s)] = b[LastWrite(b, s)]
        BY <3>2, AppendWrites
      <4> HIDE DEF ext
      <4> QED
        BY <3>2, <4>1
    <3> QED
      BY <3>1, <3>2
  <2>2. /\ E(ext) = [s \in Slots |-> E(ext)[s]]
        /\ [E(b) EXCEPT ![c.slot] = last]
             = [s \in Slots |-> IF s = c.slot THEN last ELSE E(b)[s]]
    OBVIOUS
  <2> HIDE DEF E, last, ext
  <2> QED
    BY <2>1, <2>2
<1> DEFINE done == Commit(Buffering(room, b))
<1>6. /\ done = [room EXCEPT !.tx_buffer = NoTx, !.room_counter = k + Len(b),
                             !.buckets = B(b), !.entries = E(b)]
      /\ done.room_counter = k + Len(b)
  BY <1>2
<1>7. Put(done, c.slot, c.value) =
        [done EXCEPT !.room_counter = k + Len(b) + 1,
                     !.buckets = B(b) \cup {c.slot[1]},
                     !.entries = [E(b) EXCEPT ![c.slot] = last]]
  <2> HIDE DEF done, E, B, k
  <2>1. Put(done, c.slot, c.value) =
          [done EXCEPT !.room_counter = done.room_counter + 1,
                       !.buckets = done.buckets \cup {c.slot[1]},
                       !.entries = [done.entries EXCEPT ![c.slot] =
                           [value |-> c.value, key_version |-> done.room_counter + 1]]]
    BY Zenon DEF Put
  <2>2. done.buckets = B(b) /\ done.entries = E(b)
    BY <1>6 DEF RoomState
  <2> QED
    BY <1>6, <2>1, <2>2
<1>8. Commit(Buffering(room, ext)) =
        [room EXCEPT !.tx_buffer = NoTx, !.room_counter = k + Len(b) + 1,
                     !.buckets = B(b) \cup {c.slot[1]},
                     !.entries = [E(b) EXCEPT ![c.slot] = last]]
  <2>1. Commit(Buffering(room, ext)) =
          [room EXCEPT !.tx_buffer = NoTx, !.room_counter = k + Len(ext),
                       !.buckets = B(ext), !.entries = E(ext)]
    BY <1>2
  <2> HIDE DEF E, B, k, last, ext
  <2> QED
    BY <1>1, <1>3, <1>5, <2>1
<1> HIDE DEF E, B, k, last, ext, done
<1>9. Put(done, c.slot, c.value) = Commit(Buffering(room, ext))
  BY <1>6, <1>7, <1>8 DEF RoomState
<1> QED
  BY <1>9 DEF done, ext

LEMMA CommitNothing ==
    ASSUME NEW room \in RoomState
    PROVE  Commit(Buffering(room, << >>)) = [room EXCEPT !.tx_buffer = NoTx]
<1> DEFINE none == Buffering(room, << >>)
           E == [s \in Slots |->
                   IF WritesTo(<< >>, s) = {} THEN room.entries[s]
                   ELSE [value       |-> << >>[LastWrite(<< >>, s)].value,
                         key_version |-> room.room_counter + LastWrite(<< >>, s)]]
           B == room.buckets \cup {<< >>[i].slot[1] : i \in DOMAIN << >>}
<1>1. /\ none.tx_buffer = << >>
      /\ none.room_counter = room.room_counter
      /\ none.buckets = room.buckets
      /\ none.entries = room.entries
  BY DEF Buffering, RoomState
<1>2. Commit(none) = [none EXCEPT !.tx_buffer = NoTx,
                                  !.room_counter = room.room_counter + Len(<< >>),
                                  !.buckets = B, !.entries = E]
  BY <1>1, Zenon DEF Commit
<1>3. room.room_counter + Len(<< >>) = room.room_counter
  BY RoomFields
<1>4. B = room.buckets
  OBVIOUS
<1>5. E = room.entries
  <2>1. \A s \in Slots : WritesTo(<< >>, s) = {}
    BY DEF WritesTo
  <2>2. room.entries = [s \in Slots |-> room.entries[s]]
    BY RoomFields
  <2> QED
    BY <2>1, <2>2
<1> HIDE DEF B, E
<1> QED
  BY <1>2, <1>3, <1>4, <1>5 DEF Buffering, RoomState

(***************************************************************************)
(* What tx_end computes command by command is Commit, whatever is buffered: *)
(* after n commands the room is what committing only those n would give.   *)
(***************************************************************************)
LEMMA CommitLoopIsCommit ==
    ASSUME NEW room \in RoomState, room.tx_buffer # NoTx
    PROVE  Commit(room) = CommitLoop(room)
<1> DEFINE buf == room.tx_buffer
           start == [room EXCEPT !.tx_buffer = NoTx]
           Body(f) == [n \in 0..Len(buf) |->
                         IF n = 0 THEN start
                         ELSE Put(f[n - 1], buf[n].slot, buf[n].value)]
           after == CHOOSE f : f = Body(f)
           prefix == [n \in 0..Len(buf) |-> Commit(Buffering(room, SubSeq(buf, 1, n)))]
<1>1. buf \in Seq(RoomCommand) /\ Len(buf) \in Nat
  BY RoomFields
<1>2. CommitLoop(room) = after[Len(buf)]
  BY Zenon DEF CommitLoop
<1>3. prefix[0] = start
  <2>1. SubSeq(buf, 1, 0) = << >>
    BY <1>1
  <2>2. prefix[0] = Commit(Buffering(room, << >>))
    <3>1. 0 \in 0..Len(buf)
      BY <1>1
    <3>2. prefix[0] = Commit(Buffering(room, SubSeq(buf, 1, 0)))
      BY <3>1, Zenon
    <3> QED
      BY <2>1, <3>2, Zenon
  <2> QED
    BY <2>2, CommitNothing
<1>4. ASSUME NEW n \in 1..Len(buf)
      PROVE  prefix[n] = Put(prefix[n - 1], buf[n].slot, buf[n].value)
  <2>1. /\ SubSeq(buf, 1, n) = Append(SubSeq(buf, 1, n - 1), buf[n])
        /\ SubSeq(buf, 1, n - 1) \in Seq(RoomCommand)
        /\ buf[n] \in RoomCommand
    BY <1>1
  <2>2. n \in 0..Len(buf) /\ n - 1 \in 0..Len(buf)
    BY <1>1
  <2> HIDE DEF buf
  <2> QED
    BY <2>1, <2>2, CommitAppend
<1>5. prefix = Body(prefix)
  <2>1. ASSUME NEW n \in 0..Len(buf)
        PROVE  prefix[n] = IF n = 0 THEN start
                           ELSE Put(prefix[n - 1], buf[n].slot, buf[n].value)
    <3>1. CASE n = 0
      BY <1>3, <3>1
    <3>2. CASE n \in 1..Len(buf)
      <4>1. n # 0
        BY <3>2
      <4> HIDE DEF prefix, buf, start
      <4> QED
        BY <1>4, <3>2, <4>1
    <3> QED
      BY <1>1, <3>1, <3>2
  <2>2. prefix = [n \in 0..Len(buf) |-> prefix[n]]
    BY Zenon
  <2> HIDE DEF prefix, buf, start
  <2> QED
    BY <2>1, <2>2
<1>6. after = Body(after)
  <2> HIDE DEF prefix, Body
  <2> QED
    BY <1>5
<1> HIDE DEF after, prefix
<1>7. ASSUME NEW n \in 0..Len(buf) PROVE after[n] = prefix[n]
  <2> DEFINE T == {i \in 0..Len(buf) : after[i] # prefix[i]}
             R == OpToRel(<, Nat)
  <2> SUFFICES ASSUME T # {} PROVE FALSE
    OBVIOUS
  <2>1. T \subseteq Nat
    BY <1>1
  <2> HIDE DEF T
  <2>2. \E x \in T : \A y \in T : ~(<<y, x>> \in R)
    BY ONLY <2>1, T # {}, NatLessThanWellFounded, WFMin
  <2>3. PICK x \in T : \A y \in T : ~(<<y, x>> \in R)
    BY <2>2
  <2>4. \A y \in T : ~(y < x)
    BY <2>1, <2>3 DEF OpToRel
  <2>5. x \in 0..Len(buf) /\ after[x] # prefix[x]
    BY DEF T
  <2>6. after[x] = IF x = 0 THEN start
                   ELSE Put(after[x - 1], buf[x].slot, buf[x].value)
    BY <1>6, <2>5
  <2>7. x # 0
    BY <1>3, <2>5, <2>6
  <2>8. x \in 1..Len(buf) /\ x - 1 \in 0..Len(buf) /\ x - 1 < x
    BY <1>1, <2>5, <2>7
  <2>9. after[x - 1] = prefix[x - 1]
    BY <2>4, <2>8 DEF T
  <2> QED
    BY <1>4, <2>5, <2>6, <2>7, <2>8, <2>9
<1>8. prefix[Len(buf)] = Commit(room)
  <2>1. SubSeq(buf, 1, Len(buf)) = buf
    BY <1>1
  <2>2. Buffering(room, buf) = room
    BY DEF Buffering, RoomState
  <2>3. prefix[Len(buf)] = Commit(Buffering(room, SubSeq(buf, 1, Len(buf))))
    BY <1>1 DEF prefix
  <2> QED
    BY <2>1, <2>2, <2>3
<1> QED
  BY <1>1, <1>2, <1>7, <1>8

(***************************************************************************)
(* The closed form the specification commits a transaction with is what    *)
(* the loop of tx_end computes, in every state and for every buffer.       *)
(***************************************************************************)
THEOREM CommitCorrect == Spec => []CommitMatchesLoop
<1>1. TypeOK => CommitMatchesLoop
  BY CommitLoopIsCommit DEF TypeOK, CommitMatchesLoop
<1> QED
  BY <1>1, TypeCorrect, PTL
=============================================================================
