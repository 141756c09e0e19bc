-------------------------------- MODULE Room --------------------------------
(***************************************************************************)
(* The in-memory state of one room, and what every operation of AppState   *)
(* does to it (sp-kernel/src/state/mod.rs).  The module has no variables:  *)
(* RoomStore applies these operators to the rooms of one AppState.         *)
(*                                                                         *)
(* A room's map bucket -> key -> entry is split into the set of buckets    *)
(* that exist and one entry per slot (bucket, key).  Buckets may exist     *)
(* without entries.  io_locked is left out: no code ever sets it, so the   *)
(* RoomIoBusy returns are unreachable.                                     *)
(*                                                                         *)
(* An operator whose name ends in _Slip is the one after it with a mistake *)
(* a programmer could make; no specification uses it.  README.md says      *)
(* which property notices which slip.                                      *)
(***************************************************************************)
EXTENDS Naturals, Sequences

CONSTANTS
    BucketIds,         \* the bucket ids callers use
    PublicBucket,      \* bucket 0, visible to every client of the room
    ServerOnlyBucket,  \* SERVER_ONLY_BUCKET_ID, never visible to a client
    Keys,
    Values,            \* JSON values other than null
    Null,              \* JSON null: the tombstone
    Absent,            \* None / no entry in a map
    NoTx,              \* tx_buffer == None
    RawNames,          \* label and member strings as callers pass them
    LegalNames,        \* the ones that are not empty and at most 256 bytes
    Trim,              \* str::trim, a function on RawNames
    FlagBits           \* the bits of a bucket's u32 of flags

-----------------------------------------------------------------------------
Slots == BucketIds \X Keys

Entry == [value : Values \cup {Null}, key_version : Nat]

\* RoomCommand::Set, and RoomCommand::Del as a Set of Null (tx_end treats both alike).
RoomCommand == [slot : Slots, value : Values \cup {Null}]

\* What load_room_data is given: bucket definitions, members and fragments.
BucketDef == [label : RawNames \cup {Absent}, flags : SUBSET FlagBits]
IsImage(img) ==
    /\ DOMAIN img.defs \subseteq BucketIds
    /\ \A b \in DOMAIN img.defs : img.defs[b] \in BucketDef
    /\ img.members \subseteq RawNames
    /\ img.fragments \in [Slots -> Values \cup {Null, Absent}]

ASSUME RoomAssumption ==
    /\ {PublicBucket, ServerOnlyBucket} \subseteq BucketIds
    /\ PublicBucket # ServerOnlyBucket
    /\ Null \notin Values
    /\ Absent \notin Values \cup {Null}
    /\ Absent \notin Entry
    /\ Absent \notin RawNames
    /\ LegalNames \subseteq RawNames
    /\ Trim \in [RawNames -> RawNames]

RoomState ==
    [entries       : [Slots -> Entry \cup {Absent}],
     buckets       : SUBSET BucketIds,
     room_counter  : Nat,
     tx_buffer     : Seq(RoomCommand) \cup {NoTx},
     loaded        : BOOLEAN,
     bucket_labels : [BucketIds -> RawNames \cup {Absent}],
     bucket_flags  : [BucketIds -> SUBSET FlagBits],
     members       : SUBSET RawNames]

\* create_room: a new room is loaded and empty.
EmptyRoom ==
    [entries       |-> [s \in Slots |-> Absent],
     buckets       |-> {},
     room_counter  |-> 0,
     tx_buffer     |-> NoTx,
     loaded        |-> TRUE,
     bucket_labels |-> [b \in BucketIds |-> Absent],
     bucket_flags  |-> [b \in BucketIds |-> {}],
     members       |-> {}]

-----------------------------------------------------------------------------
\* Writing outside a transaction: the room counter becomes the entry's version.
Put(room, s, v) ==
    [room EXCEPT !.room_counter = @ + 1,
                 !.buckets = @ \cup {s[1]},
                 !.entries = [@ EXCEPT ![s] =
                     [value |-> v, key_version |-> room.room_counter + 1]]]

\* Writing inside a transaction only records the command.
Buffer(room, s, v) ==
    [room EXCEPT !.tx_buffer = Append(@, [slot |-> s, value |-> v])]

\* The positions of a transaction that write slot s, and the last of them.
WritesTo(buf, s) == {i \in DOMAIN buf : buf[i].slot = s}
LastWrite_Slip(buf, s) ==   \* the first write wins
    CHOOSE i \in WritesTo(buf, s) : \A j \in WritesTo(buf, s) : i <= j
LastWrite(buf, s) ==
    CHOOSE i \in WritesTo(buf, s) : \A j \in WritesTo(buf, s) : j <= i

Commit_Slip(room) ==   \* the whole transaction gets one version
    LET buf == room.tx_buffer
    IN  [room EXCEPT
           !.tx_buffer = NoTx,
           !.room_counter = @ + 1,
           !.buckets = @ \cup {buf[i].slot[1] : i \in DOMAIN buf},
           !.entries = [s \in Slots |->
               IF WritesTo(buf, s) = {} THEN room.entries[s]
               ELSE [value       |-> buf[LastWrite(buf, s)].value,
                     key_version |-> room.room_counter + 1]]]

\* tx_end: the i-th command gets version room_counter + i; the last one on a slot stays.
Commit(room) ==
    LET buf == room.tx_buffer
    IN  [room EXCEPT
           !.tx_buffer = NoTx,
           !.room_counter = @ + Len(buf),
           !.buckets = @ \cup {buf[i].slot[1] : i \in DOMAIN buf},
           !.entries = [s \in Slots |->
               IF WritesTo(buf, s) = {} THEN room.entries[s]
               ELSE [value       |-> buf[LastWrite(buf, s)].value,
                     key_version |-> room.room_counter + LastWrite(buf, s)]]]

\* The same as tx_end writes it: one command after the other.
CommitLoop(room) ==
    LET buf == room.tx_buffer
        after[n \in 0..Len(buf)] ==   \* after the first n commands
            IF n = 0 THEN [room EXCEPT !.tx_buffer = NoTx]
            ELSE Put(after[n - 1], buf[n].slot, buf[n].value)
    IN  after[Len(buf)]

\* load_room_data: only defined buckets get their fragments, all with version 0;
\* room_counter and tx_buffer keep their values.
Load(room, img) ==
    [room EXCEPT
       !.loaded = TRUE,
       !.buckets = DOMAIN img.defs,
       !.members = img.members,
       !.bucket_labels = [b \in BucketIds |->
           IF b \in DOMAIN img.defs THEN img.defs[b].label ELSE Absent],
       !.bucket_flags = [b \in BucketIds |->
           IF b \in DOMAIN img.defs THEN img.defs[b].flags ELSE {}],
       !.entries = [s \in Slots |->
           IF s[1] \in DOMAIN img.defs /\ img.fragments[s] # Absent
           THEN [value |-> img.fragments[s], key_version |-> 0]
           ELSE Absent]]

Unload_Slip(room) ==    \* bucket_flags is not cleared
    [EmptyRoom EXCEPT !.loaded = FALSE,
                      !.room_counter = room.room_counter,
                      !.tx_buffer = room.tx_buffer,
                      !.bucket_flags = room.bucket_flags]
Unload_CounterSlip(room) ==   \* the counter starts over
    [EmptyRoom EXCEPT !.loaded = FALSE, !.tx_buffer = room.tx_buffer]

\* unload_room: everything but room_counter and tx_buffer is cleared.
Unload(room) ==
    [EmptyRoom EXCEPT !.loaded = FALSE,
                      !.room_counter = room.room_counter,
                      !.tx_buffer = room.tx_buffer]

-----------------------------------------------------------------------------
Visible_Slip(allowed) == allowed \cup {PublicBucket}   \* trusts the grant

\* What a client granted `allowed` may see.
Visible(allowed) == (allowed \cup {PublicBucket}) \ {ServerOnlyBucket}

LiveValue_Slip(room, s) ==   \* snapshots show tombstones
    IF room.entries[s] = Absent THEN Absent ELSE room.entries[s].value

\* The value of a slot as clients see it: a tombstone is no value.
LiveValue(room, s) ==
    IF room.entries[s] = Absent \/ room.entries[s].value = Null
    THEN Absent ELSE room.entries[s].value

room_snapshot(room, allowed) ==
    [room_counter |-> room.room_counter,
     fragments    |-> [s \in Slots |->
         IF s[1] \in Visible(allowed) THEN LiveValue(room, s) ELSE Absent]]

room_delta_Slip(room, since, allowed) ==   \* tombstones are left out
    [room_counter |-> room.room_counter,
     fragments    |-> [s \in Slots |->
         IF /\ since < room.room_counter
            /\ s[1] \in Visible(allowed)
            /\ room.entries[s] # Absent
            /\ room.entries[s].key_version > since
         THEN LiveValue(room, s) ELSE Absent]]

\* Only entries newer than `since`; a tombstone is sent as Null.
room_delta(room, since, allowed) ==
    [room_counter |-> room.room_counter,
     fragments    |-> [s \in Slots |->
         IF /\ since < room.room_counter
            /\ s[1] \in Visible(allowed)
            /\ room.entries[s] # Absent
            /\ room.entries[s].key_version > since
         THEN room.entries[s].value ELSE Absent]]
=============================================================================
