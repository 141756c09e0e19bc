------------------------------ MODULE RoomStore ------------------------------
(***************************************************************************)
(* AppState (sp-kernel/src/state/mod.rs): the rooms of one server, their   *)
(* labels and the id the next room will get.  One action per operation     *)
(* that changes state, taken atomically: every one runs under the room's   *)
(* write lock or under &mut AppState.  An operation that returns an error  *)
(* changes nothing, so it is a stuttering step; each guard below is the    *)
(* negation of the operation's error returns.                              *)
(***************************************************************************)
EXTENDS Room

CONSTANTS
    Images,      \* the persisted images load_room_data may be given
    MaxRoomId,   \* bound: ids create_room may hand out
    MaxCounter   \* bound: versions a room may hand out, buffered ones included

ASSUME StoreAssumption ==
    /\ MaxRoomId \in Nat /\ MaxCounter \in Nat
    /\ \A img \in Images : IsImage(img)

VARIABLES rooms,         \* room id -> RoomState, for the rooms that exist
          labels,        \* label -> room id
          next_room_id

vars == <<rooms, labels, next_room_id>>

RoomIds == Nat \ {0}

Init ==
    /\ rooms = << >>
    /\ labels = << >>
    /\ next_room_id = 1

-----------------------------------------------------------------------------
\* Replace the state of room r, leaving everything else alone.
SetRoom(r, room) ==
    /\ rooms' = [rooms EXCEPT ![r] = room]
    /\ UNCHANGED <<labels, next_room_id>>

create_room ==
    /\ next_room_id <= MaxRoomId
    /\ next_room_id' = next_room_id + 1
    /\ rooms' = [r \in DOMAIN rooms \cup {next_room_id} |->
                    IF r = next_room_id THEN EmptyRoom ELSE rooms[r]]
    /\ UNCHANGED labels

delete_room_Slip(r) ==   \* the labels stay
    /\ rooms' = [q \in DOMAIN rooms \ {r} |-> rooms[q]]
    /\ UNCHANGED <<labels, next_room_id>>

delete_room_IdSlip(r) ==   \* the newest id is handed out again
    /\ rooms' = [q \in DOMAIN rooms \ {r} |-> rooms[q]]
    /\ labels' = [l \in {k \in DOMAIN labels : labels[k] # r} |-> labels[l]]
    /\ next_room_id' = IF r + 1 = next_room_id THEN r ELSE next_room_id

delete_room(r) ==
    /\ rooms' = [q \in DOMAIN rooms \ {r} |-> rooms[q]]
    /\ labels' = [l \in {k \in DOMAIN labels : labels[k] # r} |-> labels[l]]
    /\ UNCHANGED next_room_id

set_room_label_Slip(r, raw) ==   \* stores the label untrimmed
    /\ Trim[raw] \in LegalNames
    /\ Trim[raw] \notin DOMAIN labels
    /\ labels' = [l \in DOMAIN labels \cup {raw} |->
                     IF l = raw THEN r ELSE labels[l]]
    /\ UNCHANGED <<rooms, next_room_id>>

\* A label in use by this or another room leaves the map as it is.
set_room_label(r, raw) ==
    /\ Trim[raw] \in LegalNames
    /\ Trim[raw] \notin DOMAIN labels
    /\ labels' = [l \in DOMAIN labels \cup {Trim[raw]} |->
                     IF l = Trim[raw] THEN r ELSE labels[l]]
    /\ UNCHANGED <<rooms, next_room_id>>

load_room_data(r, img) == SetRoom(r, Load(rooms[r], img))

unload_room(r) == SetRoom(r, Unload(rooms[r]))

-----------------------------------------------------------------------------
\* The bound: versions handed out and promised to buffered commands.
HasVersions(room) ==
    room.room_counter
      + (IF room.tx_buffer = NoTx THEN 0 ELSE Len(room.tx_buffer)) < MaxCounter

set_fragment_Slip(r, s, v) ==   \* writes through an open transaction
    /\ rooms[r].loaded
    /\ HasVersions(rooms[r])
    /\ SetRoom(r, Put(rooms[r], s, v))

set_fragment(r, s, v) ==
    /\ rooms[r].loaded
    /\ HasVersions(rooms[r])
    /\ SetRoom(r, IF rooms[r].tx_buffer # NoTx
                  THEN Buffer(rooms[r], s, v)
                  ELSE Put(rooms[r], s, v))

\* Outside a transaction the bucket must exist; the key need not.
del_fragment(r, s) ==
    /\ rooms[r].loaded
    /\ HasVersions(rooms[r])
    /\ rooms[r].tx_buffer = NoTx => s[1] \in rooms[r].buckets
    /\ SetRoom(r, IF rooms[r].tx_buffer # NoTx
                  THEN Buffer(rooms[r], s, Null)
                  ELSE Put(rooms[r], s, Null))

\* The transaction operations do not look at `loaded`.
tx_begin(r) ==
    /\ rooms[r].tx_buffer = NoTx
    /\ SetRoom(r, [rooms[r] EXCEPT !.tx_buffer = << >>])

tx_end(r) ==
    /\ rooms[r].tx_buffer # NoTx
    /\ SetRoom(r, Commit(rooms[r]))

tx_abort(r) == SetRoom(r, [rooms[r] EXCEPT !.tx_buffer = NoTx])

-----------------------------------------------------------------------------
add_member(r, raw) ==
    /\ Trim[raw] \in LegalNames
    /\ rooms[r].loaded
    /\ SetRoom(r, [rooms[r] EXCEPT !.members = @ \cup {Trim[raw]}])

\* Unlike add_member, remove_member does not trim.
remove_member(r, raw) ==
    /\ rooms[r].loaded
    /\ raw \in rooms[r].members
    /\ SetRoom(r, [rooms[r] EXCEPT !.members = @ \ {raw}])

set_bucket_label(r, b, raw) ==
    /\ Trim[raw] \in LegalNames
    /\ b \in rooms[r].buckets
    /\ SetRoom(r, [rooms[r] EXCEPT !.bucket_labels = [@ EXCEPT ![b] = Trim[raw]]])

set_bucket_flags(r, b, flags) ==
    /\ b \in rooms[r].buckets
    /\ SetRoom(r, [rooms[r] EXCEPT !.bucket_flags = [@ EXCEPT ![b] = flags]])

set_bucket_flag_bit(r, b, mask, enabled) ==
    /\ b \in rooms[r].buckets
    /\ LET current == rooms[r].bucket_flags[b]
           new == IF enabled THEN current \cup mask ELSE current \ mask
       IN  SetRoom(r, [rooms[r] EXCEPT !.bucket_flags = [@ EXCEPT ![b] = new]])

-----------------------------------------------------------------------------
\* Steps that read, write or describe the data of a room in place.
Edit(r) ==
    \/ \E s \in Slots, v \in Values \cup {Null} : set_fragment(r, s, v)
    \/ \E s \in Slots : del_fragment(r, s)
    \/ tx_begin(r)
    \/ tx_end(r)
    \/ tx_abort(r)
    \/ \E raw \in RawNames : add_member(r, raw)
    \/ \E raw \in RawNames : remove_member(r, raw)
    \/ \E b \in BucketIds, raw \in RawNames : set_bucket_label(r, b, raw)
    \/ \E b \in BucketIds, f \in SUBSET FlagBits : set_bucket_flags(r, b, f)
    \/ \E b \in BucketIds, m \in SUBSET FlagBits, on \in BOOLEAN :
          set_bucket_flag_bit(r, b, m, on)
    \/ \E raw \in RawNames : set_room_label(r, raw)

\* Steps that bring a room's data into memory or take it out.
Replace(r) ==
    \/ \E img \in Images : load_room_data(r, img)
    \/ unload_room(r)
    \/ delete_room(r)

Next ==
    \/ create_room
    \/ \E r \in DOMAIN rooms : Edit(r)
    \/ \E r \in DOMAIN rooms : Replace(r)

Spec == Init /\ [][Next]_vars

-----------------------------------------------------------------------------
TypeOK ==
    /\ next_room_id \in RoomIds
    /\ DOMAIN rooms \subseteq RoomIds
    /\ rooms \in [DOMAIN rooms -> RoomState]
    /\ DOMAIN labels \subseteq LegalNames
    /\ labels \in [DOMAIN labels -> RoomIds]

(***************************************************************************)
(* Within one room a version names one write: no entry is newer than the   *)
(* room counter, and two keys share a version only when both came from     *)
(* load_room_data, which stamps 0.  room_delta and the clients'            *)
(* last_seen_counter rest on this.                                         *)
(***************************************************************************)
RoomVersionsOK(room) ==
    /\ \A s \in Slots : room.entries[s] # Absent =>
          room.entries[s].key_version <= room.room_counter
    /\ \A s, t \in Slots :
          /\ s # t
          /\ room.entries[s] # Absent
          /\ room.entries[t] # Absent
          /\ room.entries[s].key_version = room.entries[t].key_version
          => room.entries[s].key_version = 0

VersionsIdentifyWrites == \A r \in DOMAIN rooms : RoomVersionsOK(rooms[r])

(***************************************************************************)
(* Nothing hangs off a bucket that does not exist: entries, labels and     *)
(* flags all belong to a bucket of the room, through transactions, loads   *)
(* and unloads.  (The code keeps three maps that must be cleared together.)*)
(***************************************************************************)
RoomBucketsOK(room) ==
    \A b \in BucketIds \ room.buckets :
        /\ room.bucket_labels[b] = Absent
        /\ room.bucket_flags[b] = {}
        /\ \A k \in Keys : room.entries[<<b, k>>] = Absent

BucketMapsAgree == \A r \in DOMAIN rooms : RoomBucketsOK(rooms[r])

(***************************************************************************)
(* A label always resolves to a room that exists: delete_room removes      *)
(* every label of the room it deletes.                                     *)
(***************************************************************************)
LabelsNameLiveRooms == \A l \in DOMAIN labels : labels[l] \in DOMAIN rooms

(***************************************************************************)
(* The id of a deleted room is never given to another room, so a token or  *)
(* a label made for the old room cannot reach a new one.                   *)
(***************************************************************************)
RoomIdsNeverReused ==
    \A r \in 1..MaxRoomId :
        [](r \in DOMAIN rooms =>
             [](r \notin DOMAIN rooms => [](r \notin DOMAIN rooms)))

(***************************************************************************)
(* A room's counter never goes back, and an entry that changes while the   *)
(* room lives either leaves memory, is stamped 0 by a load, or gets a      *)
(* version no earlier write of this room has had.                          *)
(***************************************************************************)
VersionStep(old, new) ==
    /\ old.room_counter <= new.room_counter
    /\ \A s \in Slots :
          \/ new.entries[s] = old.entries[s]
          \/ new.entries[s] = Absent
          \/ new.entries[s].key_version = 0
          \/ old.room_counter < new.entries[s].key_version

VersionsNeverReused ==
    [][\A r \in DOMAIN rooms \cap DOMAIN rooms' :
          VersionStep(rooms[r], rooms'[r])]_vars

(***************************************************************************)
(* While a transaction stays open no write becomes visible: the counter    *)
(* stands still and no entry gets a new version.  Buffered commands show   *)
(* up at tx_end, all of them in one step, or never (tx_abort).             *)
(***************************************************************************)
TxStep(old, new) ==
    old.tx_buffer # NoTx /\ new.tx_buffer # NoTx =>
        /\ new.room_counter = old.room_counter
        /\ \A s \in Slots :
              \/ new.entries[s] = old.entries[s]
              \/ new.entries[s] = Absent
              \/ new.entries[s].key_version = 0

TxHidesWrites ==
    [][\A r \in DOMAIN rooms \cap DOMAIN rooms' :
          TxStep(rooms[r], rooms'[r])]_vars

(***************************************************************************)
(* tx_end writes the buffered commands one after the other; the specifi-   *)
(* cation commits them at once, with the closed form Commit.  Both give    *)
(* the same room, for every transaction that can be open.                  *)
(***************************************************************************)
CommitMatchesLoop ==
    \A r \in DOMAIN rooms :
        rooms[r].tx_buffer # NoTx => Commit(rooms[r]) = CommitLoop(rooms[r])

(***************************************************************************)
(* What the comment on RoomState.loaded promises: "Operations that read or *)
(* write room data require `loaded == true`", so a room that is not loaded *)
(* holds no data.  tx_end does not check it.                               *)
(***************************************************************************)
UnloadedRoomHoldsNothing ==
    \A r \in DOMAIN rooms : ~rooms[r].loaded =>
        /\ rooms[r].buckets = {}
        /\ rooms[r].members = {}
        /\ \A s \in Slots : rooms[r].entries[s] = Absent
=============================================================================
