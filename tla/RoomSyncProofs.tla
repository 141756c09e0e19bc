--------------------------- MODULE RoomSyncProofs ---------------------------
(***************************************************************************)
(* Snapshot plus delta is the present, for every room, grant and sequence  *)
(* of operations.  The invariant ties the reader's copy to the room: what  *)
(* has not been written since the reader's counter it already has, except  *)
(* that after a load or an unload of the room this is only said of keys    *)
(* that have a version of their own.                                       *)
(***************************************************************************)
EXTENDS RoomSync, RoomStoreProofs

Tracks(v, room) ==
    /\ v.since <= room.room_counter
    /\ \A s \in Slots :
          /\ s[1] \notin Visible(v.allowed) => v.fragments[s] = Absent
          /\ v.intact /\ s[1] \in Visible(v.allowed) /\ room.entries[s] = Absent
                => v.fragments[s] = Absent
          /\ s[1] \in Visible(v.allowed) /\ room.entries[s] # Absent
             /\ room.entries[s].key_version <= v.since
             /\ (v.intact \/ room.entries[s].key_version > 0)
                => v.fragments[s] = LiveValue(room, s)

SyncIInv ==
    /\ IInv
    /\ SyncTypeOK
    /\ view # NoView => Tracks(view, rooms[view.room])

-----------------------------------------------------------------------------
LEMMA EntryVersions ==
    ASSUME NEW room, RoomOK(room)
    PROVE  /\ room.room_counter \in Nat
           /\ \A s \in Slots : room.entries[s] # Absent =>
                 /\ room.entries[s].key_version \in Nat
                 /\ room.entries[s].key_version <= room.room_counter
                 /\ room.entries[s].value \in Values \cup {Null}
                 /\ room.entries[s].value # Absent
  BY RoomFields, RoomAssumption DEF RoomOK, RoomVersionsOK, Entry

LEMMA LiveValueType ==
    ASSUME NEW room, RoomOK(room), NEW s \in Slots
    PROVE  LiveValue(room, s) \in Values \cup {Absent}
  BY EntryVersions DEF LiveValue

LEMMA SnapshotTracks ==
    ASSUME NEW room, RoomOK(room), NEW allowed \in SUBSET BucketIds, NEW r \in RoomIds
    PROVE  LET v == [room |-> r, allowed |-> allowed,
                     since |-> room_snapshot(room, allowed).room_counter,
                     fragments |-> room_snapshot(room, allowed).fragments,
                     intact |-> TRUE]
           IN  v \in View /\ Tracks(v, room)
<1> DEFINE F == room_snapshot(room, allowed).fragments
           v == [room |-> r, allowed |-> allowed,
                 since |-> room_snapshot(room, allowed).room_counter, fragments |-> F,
                 intact |-> TRUE]
<1>1. room.room_counter \in Nat
  BY EntryVersions
<1>2. F = [s \in Slots |-> IF s[1] \in Visible(allowed) THEN LiveValue(room, s) ELSE Absent]
      /\ room_snapshot(room, allowed).room_counter = room.room_counter
  BY DEF room_snapshot
<1>3. F \in [Slots -> Values \cup {Absent}]
  BY <1>2, LiveValueType
<1>4. \A s \in Slots : F[s] = IF s[1] \in Visible(allowed) THEN LiveValue(room, s) ELSE Absent
  BY <1>2
<1> HIDE DEF F
<1>5. v \in View
  BY <1>1, <1>2, <1>3 DEF View
<1>6. Tracks(v, room)
  <2>1. v.since = room.room_counter /\ v.allowed = allowed /\ v.fragments = F
    BY <1>2
  <2>2. v.since <= room.room_counter
    BY <1>1, <2>1
  <2>3. \A s \in Slots : room.entries[s] = Absent => LiveValue(room, s) = Absent
    BY DEF LiveValue
  <2> HIDE DEF v
  <2> QED
    BY <1>4, <2>1, <2>2, <2>3, Zenon DEF Tracks
<1> QED
  BY <1>5, <1>6 DEF F

(* Merging the delta since v.since gives the current snapshot.              *)
LEMMA DeltaCompletes ==
    ASSUME NEW room, RoomOK(room), NEW v \in View, Tracks(v, room), NEW s \in Slots,
           v.intact \/ (room.entries[s] # Absent /\ room.entries[s].key_version > 0)
    PROVE  Merged(v.fragments, room_delta(room, v.since, v.allowed).fragments)[s]
             = room_snapshot(room, v.allowed).fragments[s]
<1> DEFINE D == room_delta(room, v.since, v.allowed).fragments
           S == room_snapshot(room, v.allowed).fragments
<1>1. S[s] = IF s[1] \in Visible(v.allowed) THEN LiveValue(room, s) ELSE Absent
  BY DEF room_snapshot
<1>2. D[s] = IF /\ v.since < room.room_counter
                                 /\ s[1] \in Visible(v.allowed)
                                 /\ room.entries[s] # Absent
                                 /\ room.entries[s].key_version > v.since
                              THEN room.entries[s].value ELSE Absent
  BY DEF room_delta
<1>3. v.since \in Nat
  BY DEF View
<1> HIDE DEF D, S
<1>4. (IF D[s] = Absent THEN v.fragments[s]
        ELSE IF D[s] = Null THEN Absent ELSE D[s]) = S[s]
  <2>1. CASE s[1] \notin Visible(v.allowed)
    BY <1>1, <1>2, <2>1 DEF Tracks
  <2>2. CASE s[1] \in Visible(v.allowed) /\ room.entries[s] = Absent
    BY <1>1, <1>2, <2>2 DEF Tracks, LiveValue
  <2>3. CASE /\ s[1] \in Visible(v.allowed) /\ room.entries[s] # Absent
             /\ room.entries[s].key_version <= v.since
    <3>1. D[s] = Absent
      BY <1>2, <1>3, <2>3, EntryVersions
    <3>2. v.fragments[s] = LiveValue(room, s)
      BY <2>3 DEF Tracks
    <3> QED
      BY <1>1, <2>3, <3>1, <3>2
  <2>4. CASE /\ s[1] \in Visible(v.allowed) /\ room.entries[s] # Absent
             /\ room.entries[s].key_version > v.since
    <3>1. v.since < room.room_counter
      BY <1>3, <2>4, EntryVersions
    <3>2. D[s] = room.entries[s].value /\ D[s] # Absent
      BY <1>2, <2>4, <3>1, EntryVersions
    <3> QED
      BY <1>1, <2>4, <3>2 DEF LiveValue
  <2> QED
    BY <1>3, <2>1, <2>2, <2>3, <2>4, EntryVersions
<1>5. Merged(v.fragments, D)[s] = S[s]
  BY <1>4 DEF Merged
<1> QED
  BY <1>5 DEF D, S

(* Applying the delta leaves the reader with as good a copy.                *)
LEMMA DeltaTracks ==
    ASSUME NEW room, RoomOK(room), NEW v \in View, Tracks(v, room)
    PROVE  LET w == [v EXCEPT !.since = room_delta(room, v.since, v.allowed).room_counter,
                              !.fragments = Merged(@,
                                  room_delta(room, v.since, v.allowed).fragments)]
           IN  w \in View /\ w.room = v.room /\ Tracks(w, room)
<1> DEFINE D == room_delta(room, v.since, v.allowed).fragments
           M == Merged(v.fragments, D)
           w == [v EXCEPT !.since = room_delta(room, v.since, v.allowed).room_counter,
                          !.fragments = Merged(@, D)]
<1>1. /\ w.room = v.room /\ w.allowed = v.allowed /\ w.intact = v.intact
      /\ w.since = room.room_counter /\ w.fragments = M
      /\ w = [room |-> v.room, allowed |-> v.allowed, since |-> room.room_counter,
              fragments |-> M, intact |-> v.intact]
  <2>1. room_delta(room, v.since, v.allowed).room_counter = room.room_counter
    BY DEF room_delta
  <2>2. v = [room |-> v.room, allowed |-> v.allowed, since |-> v.since,
             fragments |-> v.fragments, intact |-> v.intact]
    BY DEF View
  <2> HIDE DEF M
  <2>3. w = [v EXCEPT !.since = room.room_counter, !.fragments = M]
    BY <2>1 DEF M
  <2> HIDE DEF w
  <2> QED
    BY <2>2, <2>3
<1>2. /\ room.room_counter \in Nat
      /\ v.room \in RoomIds /\ v.allowed \in SUBSET BucketIds /\ v.intact \in BOOLEAN
      /\ v.fragments \in [Slots -> Values \cup {Absent}]
  BY EntryVersions DEF View
<1>3. \A s \in Slots :
         M[s] = IF D[s] = Absent THEN v.fragments[s] ELSE IF D[s] = Null THEN Absent ELSE D[s]
  BY DEF Merged
<1>4. \A s \in Slots : D[s] = IF /\ v.since < room.room_counter
                                 /\ s[1] \in Visible(v.allowed)
                                 /\ room.entries[s] # Absent
                                 /\ room.entries[s].key_version > v.since
                              THEN room.entries[s].value ELSE Absent
  BY DEF room_delta
<1>5. M = [s \in Slots |-> M[s]]
  BY DEF Merged
<1>6. \A s \in Slots :
         v.intact \/ (room.entries[s] # Absent /\ room.entries[s].key_version > 0)
            => M[s] = IF s[1] \in Visible(v.allowed) THEN LiveValue(room, s) ELSE Absent
  BY DeltaCompletes DEF room_snapshot
<1> HIDE DEF D, M, w
<1>7. \A s \in Slots : D[s] \in Values \cup {Null, Absent}
  BY <1>4, EntryVersions
<1>8. M \in [Slots -> Values \cup {Absent}]
  BY <1>2, <1>3, <1>5, <1>7
<1>9. w \in View
  BY <1>1, <1>2, <1>8 DEF View
<1>10. \A s \in Slots : s[1] \notin Visible(v.allowed) => M[s] = Absent
  BY <1>3, <1>4 DEF Tracks
<1>11. \A s \in Slots : room.entries[s] = Absent => LiveValue(room, s) = Absent
  BY DEF LiveValue
<1>12. Tracks(w, room)
  BY <1>1, <1>2, <1>6, <1>10, <1>11 DEF Tracks
<1> QED
  BY <1>1, <1>9, <1>12 DEF w, D

(* A load or an unload leaves the reader what it has, and no longer intact. *)
LEMMA ReplaceTracks ==
    ASSUME NEW old, NEW new, RoomOK(old), new.room_counter = old.room_counter,
           \A s \in Slots : new.entries[s] # Absent => new.entries[s].key_version = 0,
           NEW v \in View, Tracks(v, old)
    PROVE  LET w == [v EXCEPT !.intact = FALSE]
           IN  w \in View /\ w.room = v.room /\ Tracks(w, new)
<1> DEFINE w == [v EXCEPT !.intact = FALSE]
<1>1. /\ w \in View /\ w.room = v.room /\ w.allowed = v.allowed /\ w.since = v.since
      /\ w.fragments = v.fragments /\ w.intact = FALSE
  BY DEF View
<1> HIDE DEF w
<1>2. Tracks(w, new)
  BY <1>1 DEF Tracks
<1> QED
  BY <1>1, <1>2 DEF w

(* An edit in place keeps the tie: what it adds is newer than the reader.   *)
LEMMA EditTracks ==
    ASSUME NEW old, NEW new, RoomOK(old), RoomOK(new), InPlace(old, new),
           NEW v \in View, Tracks(v, old)
    PROVE  Tracks(v, new)
<1>1. v.since \in Nat
  BY DEF View
<1>2. v.since <= new.room_counter
  BY <1>1, EntryVersions DEF Tracks, InPlace
<1>3. ASSUME NEW s \in Slots, new.entries[s] # old.entries[s]
      PROVE  new.entries[s] # Absent /\ ~(new.entries[s].key_version <= v.since)
  BY <1>1, <1>3, EntryVersions DEF Tracks, InPlace
<1>4. \A s \in Slots : new.entries[s] = old.entries[s] => LiveValue(new, s) = LiveValue(old, s)
  BY DEF LiveValue
<1> QED
  BY <1>2, <1>3, <1>4 DEF Tracks

(* What load_room_data and unload_room leave behind.                        *)
LEMMA ReplacedRoom ==
    ASSUME NEW r \in DOMAIN rooms, RoomOK(rooms[r]), Replace(r), r \in DOMAIN rooms'
    PROVE  /\ rooms'[r].room_counter = rooms[r].room_counter
           /\ \A s \in Slots :
                 rooms'[r].entries[s] # Absent => rooms'[r].entries[s].key_version = 0
<1>0. rooms[r] \in RoomState
  BY DEF RoomOK
<1>1. r \notin DOMAIN rooms' \/ ~delete_room(r)
  BY DEF delete_room
<1>2. ASSUME NEW img, load_room_data(r, img)
      PROVE  /\ rooms'[r].room_counter = rooms[r].room_counter
             /\ \A s \in Slots :
                   rooms'[r].entries[s] # Absent => rooms'[r].entries[s].key_version = 0
  <2>1. rooms'[r] = Load(rooms[r], img)
    BY <1>2 DEF load_room_data, SetRoom
  <2> QED
    BY <1>0, <2>1 DEF Load
<1>3. CASE unload_room(r)
  <2>1. rooms'[r] = Unload(rooms[r])
    BY <1>3 DEF unload_room, SetRoom
  <2> QED
    BY <1>0, <2>1 DEF Unload, EmptyRoom
<1> QED
  BY <1>1, <1>2, <1>3 DEF Replace

-----------------------------------------------------------------------------
LEMMA SyncInitIInv == SyncInit => SyncIInv
<1> SUFFICES ASSUME SyncInit PROVE SyncIInv
  OBVIOUS
<1>1. IInv /\ view = NoView
  BY InitIInv DEF SyncInit
<1> QED
  BY <1>1 DEF SyncIInv, SyncTypeOK, IInv

LEMMA SyncNextKeepsIInv == SyncIInv /\ [SyncNext]_syncVars => SyncIInv'
<1> SUFFICES ASSUME SyncIInv, [SyncNext]_syncVars PROVE SyncIInv'
  OBVIOUS
<1>1. /\ IInv /\ TypeOK
      /\ view \in View \cup {NoView}
      /\ view # NoView => view \in View /\ view.room \in DOMAIN rooms
                          /\ Tracks(view, rooms[view.room])
  BY DEF SyncIInv, SyncTypeOK
<1>2. \A r \in DOMAIN rooms : RoomOK(rooms[r]) /\ r \in RoomIds
  BY <1>1 DEF IInv, TypeOK
<1>3. CASE create_room /\ UNCHANGED view
  <2>1. IInv'
    BY <1>1, <1>3, CreateKeepsIInv
  <2>2. \A r \in DOMAIN rooms : r \in DOMAIN rooms' /\ rooms'[r] = rooms[r]
    <3>1. \A r \in DOMAIN rooms : r # next_room_id
      BY <1>1 DEF IInv, TypeOK, RoomIds
    <3> QED
      BY <1>3, <3>1 DEF create_room
  <2> QED
    BY <1>1, <1>3, <2>1, <2>2 DEF SyncIInv, SyncTypeOK, IInv
<1>4. ASSUME NEW r \in DOMAIN rooms, Edit(r), UNCHANGED view
      PROVE  SyncIInv'
  <2>1. IInv' /\ EditsInPlace
    BY <1>1, <1>4, EditKeepsIInv
  <2>2. view # NoView => Tracks(view, rooms'[view.room]) /\ view.room \in DOMAIN rooms'
    <3>1. \A q \in DOMAIN rooms : RoomOK(rooms'[q]) /\ InPlace(rooms[q], rooms'[q])
      BY <2>1 DEF IInv, EditsInPlace
    <3> QED
      BY <1>1, <1>2, <2>1, <3>1, EditTracks DEF EditsInPlace
  <2> QED
    BY <1>1, <1>4, <2>1, <2>2 DEF SyncIInv, SyncTypeOK, IInv
<1>5. ASSUME NEW r \in DOMAIN rooms, Replaced(r)
      PROVE  SyncIInv'
  <2>1. Replace(r) /\ view' = IF view = NoView \/ view.room # r THEN view
                              ELSE IF r \in DOMAIN rooms' THEN [view EXCEPT !.intact = FALSE]
                              ELSE NoView
    BY <1>5 DEF Replaced
  <2>2. IInv'
    BY <1>1, <2>1, ReplaceKeepsIInv
  <2>3. \A q \in DOMAIN rooms : q # r => q \in DOMAIN rooms' /\ rooms'[q] = rooms[q]
    BY <2>1 DEF Replace, load_room_data, unload_room, delete_room, SetRoom
  <2>4. ASSUME view # NoView, view.room = r, r \in DOMAIN rooms'
        PROVE  view' \in View /\ view'.room = r /\ Tracks(view', rooms'[r])
    <3>1. /\ rooms'[r].room_counter = rooms[r].room_counter
          /\ \A s \in Slots : rooms'[r].entries[s] # Absent => rooms'[r].entries[s].key_version = 0
      BY <1>2, <2>1, <2>4, ReplacedRoom
    <3>2. view' = [view EXCEPT !.intact = FALSE]
      BY <2>1, <2>4
    <3>3. [view EXCEPT !.intact = FALSE] \in View
          /\ [view EXCEPT !.intact = FALSE].room = view.room
          /\ Tracks([view EXCEPT !.intact = FALSE], rooms'[r])
      BY <1>1, <1>2, <2>4, <3>1, ReplaceTracks
    <3> QED
      BY <2>4, <3>2, <3>3
  <2>5. CASE view = NoView \/ view.room # r
    BY <1>1, <2>1, <2>2, <2>3, <2>5 DEF SyncIInv, SyncTypeOK, IInv
  <2>6. CASE view # NoView /\ view.room = r /\ r \in DOMAIN rooms'
    BY <2>2, <2>4, <2>6 DEF SyncIInv, SyncTypeOK, IInv
  <2>7. CASE view # NoView /\ view.room = r /\ r \notin DOMAIN rooms'
    BY <2>1, <2>2, <2>7 DEF SyncIInv, SyncTypeOK, IInv
  <2> QED
    BY <2>5, <2>6, <2>7
<1>6. ASSUME NEW r \in DOMAIN rooms, NEW allowed \in SUBSET BucketIds,
             TakeSnapshot(r, allowed)
      PROVE  SyncIInv'
  <2>1. view' \in View /\ view'.room = r /\ Tracks(view', rooms[r])
    BY <1>2, <1>6, SnapshotTracks DEF TakeSnapshot
  <2>2. rooms' = rooms /\ labels' = labels /\ next_room_id' = next_room_id
    BY <1>6 DEF TakeSnapshot, vars
  <2> QED
    BY <1>1, <2>1, <2>2 DEF SyncIInv, SyncTypeOK, IInv, TypeOK, LabelsNameLiveRooms
<1>7. CASE ApplyDelta
  <2>1. /\ view # NoView /\ view \in View /\ view.room \in DOMAIN rooms
        /\ RoomOK(rooms[view.room]) /\ Tracks(view, rooms[view.room])
    BY <1>1, <1>2, <1>7 DEF ApplyDelta
  <2>2. view' \in View /\ view'.room = view.room /\ Tracks(view', rooms[view.room])
    BY <1>7, <2>1, DeltaTracks DEF ApplyDelta
  <2>3. rooms' = rooms /\ labels' = labels /\ next_room_id' = next_room_id
    BY <1>7 DEF ApplyDelta, vars
  <2> QED
    BY <1>1, <2>1, <2>2, <2>3 DEF SyncIInv, SyncTypeOK, IInv, TypeOK, LabelsNameLiveRooms
<1>8. CASE UNCHANGED syncVars
  BY <1>1, <1>8 DEF SyncIInv, SyncTypeOK, syncVars, IInv, TypeOK, LabelsNameLiveRooms
<1> QED
  BY <1>3, <1>4, <1>5, <1>6, <1>7, <1>8 DEF SyncNext

LEMMA SyncIInvAlways == SyncSpec => []SyncIInv
  BY SyncInitIInv, SyncNextKeepsIInv, PTL DEF SyncSpec

(* However the room was written in between, the delta since the reader's    *)
(* counter (room_delta, state/mod.rs) brings its copy to the current        *)
(* snapshot; after a load or an unload of the room, so far as its keys were *)
(* written since it was last loaded.                                        *)
THEOREM SnapshotPlusDeltaIsPresent == SyncSpec => []DeltaCompletesView
<1>1. SyncIInv => DeltaCompletesView
  <2> SUFFICES ASSUME SyncIInv, view # NoView, NEW s \in Slots,
                      \/ view.intact
                      \/ /\ rooms[view.room].entries[s] # Absent
                         /\ rooms[view.room].entries[s].key_version > 0
               PROVE  Merged(view.fragments,
                        room_delta(rooms[view.room], view.since, view.allowed).fragments)[s]
                      = room_snapshot(rooms[view.room], view.allowed).fragments[s]
    BY DEF DeltaCompletesView
  <2>1. view \in View /\ RoomOK(rooms[view.room]) /\ Tracks(view, rooms[view.room])
    BY DEF SyncIInv, SyncTypeOK, IInv
  <2> QED
    BY <2>1, DeltaCompletes
<1> QED
  BY <1>1, SyncIInvAlways, PTL

(* A reader never holds data outside its grant.                             *)
THEOREM GrantsHold == SyncSpec => []ViewStaysInGrant
<1>1. SyncIInv => ViewStaysInGrant
  BY DEF SyncIInv, ViewStaysInGrant, Tracks, Visible
<1> QED
  BY <1>1, SyncIInvAlways, PTL
(* The reader's copy is always of a room that exists.                       *)
THEOREM SyncTypeCorrect == SyncSpec => []SyncTypeOK
<1>1. SyncIInv => SyncTypeOK
  BY DEF SyncIInv
<1> QED
  BY <1>1, SyncIInvAlways, PTL

(* A reader only reads: beside it the store goes through the same states as *)
(* without it, so whatever is proved of Spec holds here.                    *)
THEOREM ReaderLeavesStoreAlone == SyncSpec => Spec
<1>1. SyncInit => Init
  BY DEF SyncInit
<1>2. [SyncNext]_syncVars => [Next]_vars
  BY DEF SyncNext, syncVars, vars, Replaced, TakeSnapshot, ApplyDelta, Next
<1> QED
  BY <1>1, <1>2, PTL DEF SyncSpec, Spec
=============================================================================
