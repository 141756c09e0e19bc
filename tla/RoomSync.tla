------------------------------ MODULE RoomSync ------------------------------
(***************************************************************************)
(* One reader of one room beside the store: it takes a room_snapshot and   *)
(* later asks for a room_delta since the counter it last saw, the way the  *)
(* summary document describes recovery with last_seen_counter.  Any store  *)
(* operation may happen in between.  Loading and unloading the room leave  *)
(* its counter alone and replace or remove its data without giving it      *)
(* versions, so the reader, which goes on as before, does not learn of it. *)
(* (DeleteBucket, which removes entries in the same way, is a command of   *)
(* module Kernel and no operation of the store.)                           *)
(***************************************************************************)
EXTENDS RoomStore

CONSTANT NoView
ASSUME NoView \notin [room : RoomIds]

VARIABLE view   \* NoView, or the reader's copy of a room; `intact` (the reader
                \* does not know it) until the room is loaded or unloaded

syncVars == <<rooms, labels, next_room_id, view>>

View == [room : RoomIds, allowed : SUBSET BucketIds, since : Nat,
         fragments : [Slots -> Values \cup {Absent}], intact : BOOLEAN]

\* What the reader has after applying a delta: null removes the key.
Merged(fragments, delta) ==
    [s \in Slots |-> IF delta[s] = Absent THEN fragments[s]
                     ELSE IF delta[s] = Null THEN Absent
                     ELSE delta[s]]

SyncInit == Init /\ view = NoView

TakeSnapshot(r, allowed) ==
    /\ view' = [room      |-> r,
                allowed   |-> allowed,
                since     |-> room_snapshot(rooms[r], allowed).room_counter,
                fragments |-> room_snapshot(rooms[r], allowed).fragments,
                intact    |-> TRUE]
    /\ UNCHANGED vars

ApplyDelta ==
    /\ view # NoView
    /\ LET delta == room_delta(rooms[view.room], view.since, view.allowed)
       IN  view' = [view EXCEPT !.since = delta.room_counter,
                                !.fragments = Merged(@, delta.fragments)]
    /\ UNCHANGED vars

\* A deleted room has no delta.  A loaded or unloaded one has, and the reader
\* keeps its copy and its counter.
Replaced(r) ==
    /\ Replace(r)
    /\ view' = IF view = NoView \/ view.room # r THEN view
               ELSE IF r \in DOMAIN rooms' THEN [view EXCEPT !.intact = FALSE]
               ELSE NoView

SyncNext ==
    \/ create_room /\ UNCHANGED view
    \/ \E r \in DOMAIN rooms : Edit(r) /\ UNCHANGED view
    \/ \E r \in DOMAIN rooms : Replaced(r)
    \/ \E r \in DOMAIN rooms, allowed \in SUBSET BucketIds : TakeSnapshot(r, allowed)
    \/ ApplyDelta

SyncSpec == SyncInit /\ [][SyncNext]_syncVars

-----------------------------------------------------------------------------
SyncTypeOK ==
    /\ TypeOK
    /\ view \in View \cup {NoView}
    /\ view # NoView => view.room \in DOMAIN rooms

(***************************************************************************)
(* Snapshot plus delta is the present: whatever sequence of writes,        *)
(* deletions, transactions and aborts came in between, the delta since the *)
(* reader's counter brings its copy to exactly the current snapshot.  No   *)
(* write is skipped because its version is not above `since`, and a        *)
(* deleted key disappears.  If the room was loaded or unloaded in between, *)
(* this is only so of the keys written since it was last loaded: restored  *)
(* values have version 0 and removed ones none, so neither is in a delta,  *)
(* and the reader's copy of those keys may be wrong for good.              *)
(***************************************************************************)
DeltaCompletesView ==
    view # NoView =>
        LET room    == rooms[view.room]
            merged  == Merged(view.fragments,
                              room_delta(room, view.since, view.allowed).fragments)
            present == room_snapshot(room, view.allowed).fragments
        IN  \A s \in Slots :
              \/ view.intact
              \/ room.entries[s] # Absent /\ room.entries[s].key_version > 0
              => merged[s] = present[s]

(***************************************************************************)
(* A reader never holds data of the server-only bucket or of a bucket it   *)
(* was not granted, even when its grant names the server-only bucket.      *)
(***************************************************************************)
ViewStaysInGrant ==
    view # NoView => \A s \in Slots :
        view.fragments[s] # Absent =>
            /\ s[1] \in view.allowed \cup {PublicBucket}
            /\ s[1] # ServerOnlyBucket
=============================================================================
