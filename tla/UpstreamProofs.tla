---------------------------- MODULE UpstreamProofs ----------------------------
(***************************************************************************)
(* The gRPC interface of Upstream keeps the contract of Service, for every *)
(* number of rooms, buckets, keys, values and commands.                    *)
(*                                                                         *)
(* One task runs the commands that take several steps.  The invariant says *)
(* what the disk will hold of a room once that task is done (After), and   *)
(* that memory, cache, list of bucket ids and what a load has read so far  *)
(* all agree with it.                                                      *)
(***************************************************************************)
EXTENDS Upstream, KernelProofs

Running == task[Caller]

\* The command x has pc as its next step, for room r.
At(x, pcs, r) == x.pc \in pcs /\ x.cmd.room = r

\* What the database of room r, now c, holds once command x is done.
After(x, r, c) ==
    [shown   |-> IF At(x, {"fragment"}, r)
                 THEN [c.fragments EXCEPT ![x.cmd.slot] = Stored(x.cmd.value)]
                 ELSE c.fragments,
     records |-> IF At(x, {"record"}, r) THEN Applied(x.cmd, c.records) ELSE c.records,
     members |-> IF ~At(x, {"members"}, r) THEN c.members
                 ELSE IF x.cmd.op = "NewMember"
                 THEN c.members \cup ({x.cmd.member} \ {Empty})
                 ELSE c.members \ {x.cmd.member}]

Saved(r) == After(Running, r, DbOf(r))

\* The memory of a loaded room and what is saved of it.
Fits(room, k) ==
    /\ room.members = k.members
    /\ \A s \in Slots : room.entries[s] # Absent => k.shown[s] = Stored(room.entries[s].value)
    /\ \A b \in DOMAIN k.records :
          /\ b \in room.buckets
          /\ k.records[b].label \in {Absent, room.bucket_labels[b]}

\* The cached records f, and the list of ids, of a room with database c.
CacheFits(x, r, f, c) ==
    (IF At(x, {"list", "cache"}, r) THEN Applied(x.cmd, f) ELSE f) = c.records

ListFits(x, r, c) ==
    c.list # Absent => c.list = DOMAIN c.records \/ At(x, {"list"}, r)

\* What a load of a room with database c has read so far.
LoadFits(x, c) ==
    /\ x.pc = "load_records" => x.cmd.list = DOMAIN c.records
    /\ x.pc \in {"load_cache", "load_members", "load_fragments", "install"} =>
          x.local.defs = c.records
    /\ x.pc \in {"load_fragments", "install"} => x.local.members = c.members
    /\ x.pc = "install" => x.local.fragments = c.fragments

\* Nobody unloads or deletes the room of a command that holds the lock.
OwnerFits == Running.pc \in Owning => Loaded(Running.cmd.room)
RoomsFit  == \A r \in DOMAIN rooms : rooms[r].loaded => Fits(rooms[r], Saved(r))
CachesFit == \A r \in DOMAIN cache : CacheFits(Running, r, cache[r], DbOf(r))
ListsFit  == \A r \in Ids : ListFits(Running, r, DbOf(r))
LoadFit   == LoadFits(Running, DbOf(Running.cmd.room))

UInv == KInv /\ OwnerFits /\ RoomsFit /\ CachesFit /\ ListsFit /\ LoadFit

(* The abstract state, as ServiceSpec reads it off memory and disk, and     *)
(* what it takes to make each step of Service.                              *)
Seen == [r \in DOMAIN rooms |-> RoomSeen(rooms[r])]
Told == [r \in Ids |-> DataSaved(r)]

Shown(room)   == [s \in Slots |-> LiveValue(room, s)]
Labelled(room) == [b \in room.buckets |-> room.bucket_labels[b]]
LabelsOf(records) == [b \in DOMAIN records |-> records[b].label]

Blank == [shown |-> [s \in Slots |-> Absent], buckets |-> << >>, members |-> {}]

LEMMA Stutters ==
    ASSUME UNCHANGED <<next_room_id, labels, Seen, Told, Asked>>
    PROVE  [Contract!Next]_(Contract!vars)
  BY DEF Contract!vars, Seen, Told

LEMMA Creates ==
    ASSUME NEW n \in TrimmedNames, next_room_id \in Ids, next_room_id' = next_room_id + 1,
           Seen' = With(Seen, next_room_id, [loaded |-> TRUE, data |-> Blank]),
           labels' = IF n \in LegalNames \ DOMAIN labels
                     THEN With(labels, n, next_room_id) ELSE labels,
           UNCHANGED <<Told, Asked>>
    PROVE  [Contract!Next]_(Contract!vars)
<1>1. Contract!NewRoom(n)
  BY Zenon DEF Contract!NewRoom, Contract!Plus, Contract!Blank, Contract!Places, Blank, Slots,
         With, Seen, Told
<1> QED
  BY <1>1 DEF Contract!Next

LEMMA Deletes ==
    ASSUME NEW r \in Ids, r \in DOMAIN rooms,
           Seen' = [q \in DOMAIN Seen \ {r} |-> Seen[q]],
           labels' = [l \in DOMAIN labels \ {k \in DOMAIN labels : labels[k] = r} |-> labels[l]],
           UNCHANGED <<next_room_id, Told, Asked>>
    PROVE  [Contract!Next]_(Contract!vars)
<1>1. Contract!DeleteRoom(r)
  BY Zenon DEF Contract!DeleteRoom, Contract!Minus, Seen, Told
<1> QED
  BY <1>1 DEF Contract!Next

LEMMA Unloads ==
    ASSUME NEW r \in Ids, r \in DOMAIN rooms,
           Seen' = [Seen EXCEPT ![r] = [loaded |-> FALSE, data |-> Blank]],
           UNCHANGED <<next_room_id, labels, Told, Asked>>
    PROVE  [Contract!Next]_(Contract!vars)
<1>1. Contract!UnloadRoom(r)
  BY Zenon DEF Contract!UnloadRoom, Contract!Blank, Contract!Places, Blank, Slots, Seen, Told
<1> QED
  BY <1>1 DEF Contract!Next
LEMMA Loads ==
    ASSUME NEW r \in Ids, r \in DOMAIN rooms,
           Seen' = [Seen EXCEPT ![r] = [loaded |-> TRUE, data |->
              [shown   |-> [s \in Slots |-> IF s[1] \in DOMAIN Told[r].buckets
                                            THEN Told[r].shown[s] ELSE Absent],
               buckets |-> Told[r].buckets,
               members |-> Told[r].members]]],
           Told[r] = [shown |-> Told[r].shown, buckets |-> Told[r].buckets,
                      members |-> Told[r].members],
           UNCHANGED <<next_room_id, labels, Told, Asked>>
    PROVE  [Contract!Next]_(Contract!vars)
<1> DEFINE S == [s \in Slots |-> IF s[1] \in DOMAIN Told[r].buckets
                                 THEN Told[r].shown[s] ELSE Absent]
<1>1. [Told[r] EXCEPT !.shown = S]
         = [shown |-> S, buckets |-> Told[r].buckets, members |-> Told[r].members]
  <2> HIDE DEF S
  <2> QED
    OBVIOUS
<1>2. r \in DOMAIN Seen
  BY DEF Seen
<1>3. Contract!LoadRoom(r) <=>
         /\ r \in DOMAIN Seen
         /\ Seen' = [Seen EXCEPT ![r] = [loaded |-> TRUE, data |-> [Told[r] EXCEPT !.shown = S]]]
         /\ UNCHANGED <<next_room_id, labels, Told, Asked>>
  BY Zenon DEF Contract!LoadRoom, Contract!Places, Slots, Seen, Told
<1> HIDE DEF S
<1>4. Contract!LoadRoom(r)
  BY <1>1, <1>2, <1>3 DEF S
<1> QED
  BY <1>4 DEF Contract!Next

\* A room's data as callers see it, and what is saved of it, after a command.
Changed(r, seen, kept) ==
    /\ Seen' = [Seen EXCEPT ![r] = [loaded |-> TRUE, data |-> seen]]
    /\ Told' = [Told EXCEPT ![r] = kept]
    /\ Asked = None /\ UNCHANGED <<next_room_id, labels, Asked>>

LEMMA Changes ==
    ASSUME NEW r \in Ids, r \in DOMAIN rooms, rooms[r].loaded, NEW seen, NEW kept,
           Changed(r, seen, kept)
    PROVE  Contract!Change(r, seen, kept)
<1>1. /\ r \in DOMAIN Seen /\ Seen[r].loaded /\ Seen[r] = [loaded |-> TRUE, data |-> Seen[r].data]
  <2>1. rooms[r].loaded = TRUE
    OBVIOUS
  <2> QED
    BY <2>1 DEF Seen, RoomSeen
<1>2. [Seen[r] EXCEPT !.data = seen] = [loaded |-> TRUE, data |-> seen]
  <2> DEFINE x == Seen[r]
             y == [x EXCEPT !.data = seen]
  <2>1. x \in [loaded : {TRUE}, data : {x.data}]
    BY <1>1
  <2> HIDE DEF x
  <2>2. y \in [loaded : {TRUE}, data : {seen}]
    BY <2>1
  <2> HIDE DEF y
  <2>3. y = [loaded |-> TRUE, data |-> seen]
    BY <2>2
  <2> QED
    BY <2>3 DEF x, y
<1>3. [Seen EXCEPT ![r].data = seen] = [Seen EXCEPT ![r] = [Seen[r] EXCEPT !.data = seen]]
  BY DEF Seen
<1>4. Contract!Change(r, seen, kept) <=>
          /\ Asked = None
          /\ r \in DOMAIN Seen /\ Seen[r].loaded
          /\ Seen' = [Seen EXCEPT ![r].data = seen]
          /\ Told' = [Told EXCEPT ![r] = kept]
          /\ UNCHANGED <<next_room_id, labels, Asked>>
  BY Zenon DEF Contract!Change, Contract!Awake, Seen, Told
<1> QED
  BY <1>1, <1>2, <1>3, <1>4 DEF Changed

\* A record of data, field by field.
Data(shown, buckets, members) == [shown |-> shown, buckets |-> buckets, members |-> members]
IsData(d) == d = Data(d.shown, d.buckets, d.members)

LEMMA DataEdited ==
    ASSUME NEW d, IsData(d), NEW x
    PROVE  /\ [d EXCEPT !.shown = x] = Data(x, d.buckets, d.members)
           /\ [d EXCEPT !.buckets = x] = Data(d.shown, x, d.members)
           /\ [d EXCEPT !.members = x] = Data(d.shown, d.buckets, x)
<1>1. d \in [shown : {d.shown}, buckets : {d.buckets}, members : {d.members}]
  BY DEF Data, IsData
<1> QED
  BY <1>1 DEF Data

\* The data callers see of a room.
DataOf(room) == Data(Shown(room), Labelled(room), room.members)

LEMMA SeenIs ==
    ASSUME NEW r \in DOMAIN rooms
    PROVE  /\ Seen[r] = [loaded |-> rooms[r].loaded, data |-> DataOf(rooms[r])]
           /\ Seen[r].data = DataOf(rooms[r])
           /\ Seen[r].loaded = rooms[r].loaded
<1>1. RoomSeen(rooms[r]) = [loaded |-> rooms[r].loaded, data |-> DataOf(rooms[r])]
  BY DEF RoomSeen, DataOf, Data, Shown, Labelled
<1>2. Seen[r] = RoomSeen(rooms[r])
  BY DEF Seen
<1>3. RoomSeen(rooms[r]).loaded = rooms[r].loaded
  BY DEF RoomSeen
<1> QED
  BY <1>1, <1>2, <1>3

LEMMA MakesBucket ==
    ASSUME NEW r \in Ids, r \in DOMAIN rooms, rooms[r].loaded, NEW b \in BucketIds,
           NEW n \in TrimmedNames, NEW label, label = (IF n = Empty THEN Absent ELSE n),
           NEW k, IsData(k), Told[r] = k,
           Changed(r,
              Data(Shown(rooms[r]),
                   With(Labelled(rooms[r]), b,
                        IF label = Absent /\ b \in rooms[r].buckets
                        THEN rooms[r].bucket_labels[b] ELSE label),
                   rooms[r].members),
              Data(k.shown, With(k.buckets, b, label), k.members))
    PROVE  [Contract!Next]_(Contract!vars)
<1> DEFINE d == DataOf(rooms[r])
           L == IF label = Absent /\ b \in DOMAIN d.buckets THEN d.buckets[b] ELSE label
<1>1. /\ IsData(d) /\ d.shown = Shown(rooms[r])
      /\ d.buckets = Labelled(rooms[r]) /\ d.members = rooms[r].members
  BY DEF DataOf, Data, IsData
<1>2. L = IF label = Absent /\ b \in rooms[r].buckets
          THEN rooms[r].bucket_labels[b] ELSE label
  BY <1>1 DEF Labelled
<1>3. Seen[r].data = d
  BY SeenIs
<1> HIDE DEF d
<1>4. Changed(r, [d EXCEPT !.buckets = With(d.buckets, b, L)],
                 [k EXCEPT !.buckets = With(k.buckets, b, label)])
  <2>1. [d EXCEPT !.buckets = With(d.buckets, b, L)]
           = Data(d.shown, With(d.buckets, b, L), d.members)
    BY <1>1, DataEdited
  <2>2. [k EXCEPT !.buckets = With(k.buckets, b, label)]
           = Data(k.shown, With(k.buckets, b, label), k.members)
    BY DataEdited
  <2> QED
    BY <1>1, <1>2, <2>1, <2>2
<1>5. Contract!Change(r, [d EXCEPT !.buckets = With(d.buckets, b, L)],
                         [k EXCEPT !.buckets = With(k.buckets, b, label)])
  <2> HIDE DEF L
  <2> QED
    BY <1>4, Changes
<1>6. Contract!NewBucket(r, b, n)
  BY <1>3, <1>5, Zenon DEF Contract!NewBucket, Contract!Given, Contract!Plus, With, Seen, Told
<1> QED
  BY <1>6 DEF Contract!Next

LEMMA RemovesBucket ==
    ASSUME NEW r \in Ids, r \in DOMAIN rooms, rooms[r].loaded, NEW b \in BucketIds,
           NEW k, IsData(k), Told[r] = k,
           Changed(r,
              Data([s \in Slots |-> IF s[1] = b THEN Absent ELSE Shown(rooms[r])[s]],
                   Without(Labelled(rooms[r]), b), rooms[r].members),
              Data(k.shown, Without(k.buckets, b), k.members))
    PROVE  [Contract!Next]_(Contract!vars)
<1> DEFINE d == DataOf(rooms[r])
           S == [s \in Slots |-> IF s[1] = b THEN Absent ELSE d.shown[s]]
<1>1. /\ IsData(d) /\ d.shown = Shown(rooms[r])
      /\ d.buckets = Labelled(rooms[r]) /\ d.members = rooms[r].members
  BY DEF DataOf, Data, IsData
<1>2. S = [s \in Slots |-> IF s[1] = b THEN Absent ELSE Shown(rooms[r])[s]]
  BY <1>1
<1>3. Seen[r].data = d
  BY SeenIs
<1> HIDE DEF d, S
<1>4. Changed(r, [d EXCEPT !.buckets = Without(d.buckets, b), !.shown = S],
                 [k EXCEPT !.buckets = Without(k.buckets, b)])
  <2>1. [d EXCEPT !.buckets = Without(d.buckets, b), !.shown = S]
           = Data(S, Without(d.buckets, b), d.members)
    <3> DEFINE x == Without(d.buckets, b)
               e == [d EXCEPT !.buckets = x, !.shown = S]
    <3> HIDE DEF x
    <3>1. d \in [shown : {d.shown}, buckets : {d.buckets}, members : {d.members}]
      BY <1>1 DEF Data, IsData
    <3>2. e \in [shown : {S}, buckets : {x}, members : {d.members}]
      BY <3>1
    <3> HIDE DEF e
    <3>3. e = Data(S, x, d.members)
      BY <3>2 DEF Data
    <3> QED
      BY <3>3 DEF e, x
  <2>2. [k EXCEPT !.buckets = Without(k.buckets, b)]
           = Data(k.shown, Without(k.buckets, b), k.members)
    BY DataEdited
  <2> QED
    BY <1>1, <1>2, <2>1, <2>2
<1>5. Contract!Change(r, [d EXCEPT !.buckets = Without(d.buckets, b), !.shown = S],
                         [k EXCEPT !.buckets = Without(k.buckets, b)])
  BY <1>4, Changes
<1>6. Contract!DeleteBucket(r, b)
  BY <1>3, <1>5, Zenon
  DEF Contract!DeleteBucket, Contract!Minus, Contract!Places, Slots, Without, S, Seen, Told
<1> QED
  BY <1>6 DEF Contract!Next

LEMMA ChangesMembers ==
    ASSUME NEW r \in Ids, r \in DOMAIN rooms, rooms[r].loaded, NEW n \in TrimmedNames,
           NEW k, IsData(k), Told[r] = k,
           NEW M, NEW N,
           Changed(r, Data(Shown(rooms[r]), Labelled(rooms[r]), M),
                      Data(k.shown, k.buckets, N)),
           \/ M = rooms[r].members \cup ({n} \ {Empty}) /\ N = k.members \cup ({n} \ {Empty})
           \/ M = rooms[r].members \ {n} /\ N = k.members \ {n}
    PROVE  [Contract!Next]_(Contract!vars)
<1> DEFINE d == DataOf(rooms[r])
<1>1. /\ IsData(d) /\ d.shown = Shown(rooms[r])
      /\ d.buckets = Labelled(rooms[r]) /\ d.members = rooms[r].members
  BY DEF DataOf, Data, IsData
<1>2. Seen[r].data = d
  BY SeenIs
<1> HIDE DEF d
<1>3. Changed(r, [d EXCEPT !.members = M], [k EXCEPT !.members = N])
  <2>1. [d EXCEPT !.members = M] = Data(d.shown, d.buckets, M)
    BY <1>1, DataEdited
  <2>2. [k EXCEPT !.members = N] = Data(k.shown, k.buckets, N)
    BY DataEdited
  <2> QED
    BY <1>1, <2>1, <2>2
<1>4. Contract!Change(r, [d EXCEPT !.members = M], [k EXCEPT !.members = N])
  BY <1>3, Changes
<1>5. CASE M = rooms[r].members \cup ({n} \ {Empty}) /\ N = k.members \cup ({n} \ {Empty})
  <2>1. Contract!NewMember(r, n)
    BY <1>1, <1>2, <1>4, <1>5, Zenon DEF Contract!NewMember, Seen, Told
  <2> QED
    BY <2>1 DEF Contract!Next
<1>6. CASE M = rooms[r].members \ {n} /\ N = k.members \ {n}
  <2>1. Contract!DeleteMember(r, n)
    BY <1>1, <1>2, <1>4, <1>6, Zenon DEF Contract!DeleteMember, Seen, Told
  <2> QED
    BY <2>1 DEF Contract!Next
<1> QED
  BY <1>5, <1>6
LEMMA Accepts ==
    ASSUME NEW r \in Ids, r \in DOMAIN rooms, rooms[r].loaded, NEW s \in Slots,
           NEW v \in Values \cup {Absent}, Asked = None,
           Asked' = [room |-> r, place |-> s, value |-> v],
           UNCHANGED <<next_room_id, labels, Seen, Told>>
    PROVE  [Contract!Next]_(Contract!vars)
<1>1. r \in DOMAIN Seen /\ Seen[r].loaded
  BY SeenIs DEF Seen
<1>2. Contract!AcceptWrite(r, s, v) <=>
         /\ Asked = None /\ r \in DOMAIN Seen /\ Seen[r].loaded
         /\ Asked' = [room |-> r, place |-> s, value |-> v]
         /\ UNCHANGED <<next_room_id, labels, Seen, Told>>
  BY Zenon DEF Contract!AcceptWrite, Contract!Awake, Seen, Told
<1>3. s \in Contract!Places
  BY DEF Contract!Places, Slots
<1> QED
  BY <1>1, <1>2, <1>3 DEF Contract!Next

LEMMA WrittenIs ==
    ASSUME NEW d, IsData(d), NEW s, NEW v
    PROVE  Contract!Written(d, s, v) =
             Data([d.shown EXCEPT ![s] = v],
                  IF s[1] \in DOMAIN d.buckets THEN d.buckets ELSE With(d.buckets, s[1], Absent),
                  d.members)
<1> DEFINE x == [d.shown EXCEPT ![s] = v]
           y == IF s[1] \in DOMAIN d.buckets THEN d.buckets
                ELSE With(d.buckets, s[1], Absent)
           e == [d EXCEPT !.shown = x, !.buckets = y]
<1>1. Contract!Written(d, s, v) = e
  <2>1. y = IF s[1] \in DOMAIN d.buckets THEN d.buckets
            ELSE Contract!Plus(d.buckets, s[1], Absent)
    BY DEF Contract!Plus, With
  <2> HIDE DEF y
  <2> QED
    BY <2>1, Zenon DEF Contract!Written
<1> HIDE DEF x, y
<1>2. d \in [shown : {d.shown}, buckets : {d.buckets}, members : {d.members}]
  BY DEF Data, IsData
<1>3. e \in [shown : {x}, buckets : {y}, members : {d.members}]
  BY <1>2
<1> HIDE DEF e
<1>4. e = Data(x, y, d.members)
  BY <1>3 DEF Data
<1> QED
  BY <1>1, <1>4 DEF x, y

LEMMA Puts ==
    ASSUME NEW r \in Ids, NEW s \in Slots, NEW v,
           Asked = [room |-> r, place |-> s, value |-> v], Asked # None, Asked' = None,
           NEW k, IsData(k), Told[r] = k,
           Told' = [Told EXCEPT ![r] = Data([k.shown EXCEPT ![s] = v], k.buckets, k.members)],
           Seen' = IF Loaded(r)
                   THEN [Seen EXCEPT ![r] = [loaded |-> TRUE, data |-> Data(
                           [Shown(rooms[r]) EXCEPT ![s] = v],
                           IF s[1] \in rooms[r].buckets THEN Labelled(rooms[r])
                           ELSE With(Labelled(rooms[r]), s[1], Absent),
                           rooms[r].members)]]
                   ELSE Seen,
           UNCHANGED <<next_room_id, labels>>
    PROVE  [Contract!Next]_(Contract!vars)
<1> DEFINE d == DataOf(rooms[r])
           x == [d.shown EXCEPT ![s] = v]
           y == IF s[1] \in DOMAIN d.buckets THEN d.buckets ELSE With(d.buckets, s[1], Absent)
           z == [k.shown EXCEPT ![s] = v]
<1>1. /\ IsData(d) /\ d.shown = Shown(rooms[r])
      /\ d.buckets = Labelled(rooms[r]) /\ d.members = rooms[r].members
  BY DEF DataOf, Data, IsData
<1>2. y = IF s[1] \in rooms[r].buckets THEN Labelled(rooms[r])
          ELSE With(Labelled(rooms[r]), s[1], Absent)
  BY <1>1 DEF Labelled
<1>3. /\ Loaded(r) => Seen[r] = [loaded |-> TRUE, data |-> d] /\ Seen[r].data = d
      /\ r \in DOMAIN Seen /\ Seen[r].loaded <=> Loaded(r)
  <2>1. CASE r \in DOMAIN rooms
    <3>1. CASE rooms[r].loaded
      <4>1. rooms[r].loaded = TRUE
        BY <3>1
      <4>2. Seen[r] = [loaded |-> rooms[r].loaded, data |-> d] /\ Seen[r].data = d
        BY <2>1, SeenIs
      <4> QED
        BY <2>1, <4>1, <4>2 DEF Loaded, Seen
    <3>2. CASE ~rooms[r].loaded
      <4>1. Seen[r].loaded = rooms[r].loaded
        BY <2>1, SeenIs
      <4> QED
        BY <3>2, <4>1 DEF Loaded
    <3> QED
      BY <3>1, <3>2
  <2>2. CASE r \notin DOMAIN rooms
    BY <2>2 DEF Loaded, Seen
  <2> QED
    BY <2>1, <2>2
<1>4. /\ Loaded(r) => Seen' = [Seen EXCEPT ![r] = [loaded |-> TRUE, data |-> Data(x, y, d.members)]]
      /\ ~Loaded(r) => Seen' = Seen
  BY <1>1, <1>2
<1> HIDE DEF d
<1>5. Told' = [Told EXCEPT ![r].shown = z]
  <2>1. [k EXCEPT !.shown = z] = Data(z, k.buckets, k.members)
    BY DataEdited
  <2>2. [Told EXCEPT ![r].shown = z] = [Told EXCEPT ![r] = [k EXCEPT !.shown = z]]
    OBVIOUS
  <2> QED
    BY <2>1, <2>2
<1>6. Loaded(r) => Seen' = [Seen EXCEPT ![r].data = Contract!Written(@, s, v)]
  <2> SUFFICES ASSUME Loaded(r)
               PROVE  Seen' = [Seen EXCEPT ![r].data = Contract!Written(@, s, v)]
    OBVIOUS
  <2>1. r \in DOMAIN Seen /\ Seen[r] = [loaded |-> TRUE, data |-> d]
    BY <1>3
  <2>2. Contract!Written(d, s, v) = Data(x, y, d.members)
    BY <1>1, WrittenIs
  <2> DEFINE g == Seen[r]
             w == Contract!Written(d, s, v)
             h == [g EXCEPT !.data = w]
  <2>3. g \in [loaded : {TRUE}, data : {d}] /\ g.data = d
    BY <2>1
  <2> HIDE DEF g, w
  <2>4. h \in [loaded : {TRUE}, data : {w}]
    BY <2>3
  <2> HIDE DEF h
  <2>5. h = [loaded |-> TRUE, data |-> w]
    BY <2>4
  <2>6. [Seen EXCEPT ![r].data = Contract!Written(@, s, v)]
           = [Seen EXCEPT ![r] = [g EXCEPT !.data = Contract!Written(g.data, s, v)]]
    BY DEF g
  <2> HIDE DEF x, y
  <2> QED
    BY <1>4, <2>2, <2>3, <2>5, <2>6 DEF w, h
<1>7. Contract!WriteFragment <=>
         /\ Asked # None
         /\ Told' = [Told EXCEPT ![Asked.room].shown = [@ EXCEPT ![Asked.place] = Asked.value]]
         /\ Seen' = IF Asked.room \in DOMAIN Seen /\ Seen[Asked.room].loaded
                    THEN [Seen EXCEPT ![Asked.room].data =
                             Contract!Written(@, Asked.place, Asked.value)]
                    ELSE Seen
         /\ Asked' = None
         /\ UNCHANGED <<next_room_id, labels>>
  BY Zenon DEF Contract!WriteFragment, Contract!Awake, Seen, Told
<1>8. Contract!WriteFragment
  <2>1. Asked.room = r /\ Asked.place = s /\ Asked.value = v
    OBVIOUS
  <2>2. Told' = [Told EXCEPT ![r].shown = [@ EXCEPT ![s] = v]]
    BY <1>5
  <2> HIDE DEF x, y, z
  <2> QED
    BY <1>3, <1>4, <1>6, <1>7, <2>1, <2>2, Zenon
<1> QED
  BY <1>8 DEF Contract!Next

(* The one task, and what is saved.                                         *)
LEMMA OneTask == Tasks = {Caller}
<1>1. PICK t \in Tasks : Tasks = {t}
  BY UpstreamAssumption
<1>2. Caller \in Tasks
  BY <1>1 DEF Caller
<1> QED
  BY <1>1, <1>2

LEMMA RunningIs ==
    ASSUME KInv
    PROVE  /\ Running = [pc |-> Running.pc, cmd |-> Running.cmd, local |-> Running.local]
           /\ TaskOK(Running, next_room_id, DOMAIN db)
           /\ state_lock = Free <=> Running.pc \notin Owning
<1>1. Caller \in Tasks
  BY OneTask
<1>2. TaskOK(Running, next_room_id, DOMAIN db)
  BY <1>1 DEF KInv, TasksOK, Running
<1>3. state_lock = Free <=> Running.pc \notin Owning
  BY OneTask, KernelAssumption DEF KInv, LockOK, Running
<1> QED
  BY <1>2, <1>3 DEF TaskOK

LEMMA RunningMoves ==
    ASSUME NEW t \in Tasks, NEW x, Move(t, x)
    PROVE  t = Caller /\ Running = task[t] /\ Running' = x
  BY OneTask DEF Move, Running

LEMMA AfterIs ==
    ASSUME NEW x, NEW r, NEW c
    PROVE  /\ ~At(x, {"fragment"}, r) => After(x, r, c).shown = c.fragments
           /\ ~At(x, {"record"}, r) => After(x, r, c).records = c.records
           /\ ~At(x, {"members"}, r) => After(x, r, c).members = c.members
           /\ After(x, r, c) = [shown   |-> After(x, r, c).shown,
                                records |-> After(x, r, c).records,
                                members |-> After(x, r, c).members]
  BY DEF After

\* The room's data, as far as it is saved.
SavedData(k) == Data(k.shown, LabelsOf(k.records), k.members)

LEMMA ToldIs == UInv => \A r \in Ids : Told[r] = SavedData(Saved(r))
<1> SUFFICES ASSUME UInv, NEW r \in Ids PROVE Told[r] = SavedData(Saved(r))
  OBVIOUS
<1>1. Told[r] = DataSaved(r)
  BY DEF Told
<1>2. ASSUME At(Running, {"members"}, r) PROVE Saved(r).members = rooms[r].members
  BY <1>2 DEF UInv, OwnerFits, RoomsFit, At, Owning, Loaded, Fits
<1>3. Saved(r).members = IF Running.pc = "members" /\ Running.cmd.room = r
                         THEN rooms[r].members ELSE DbOf(r).members
  BY <1>2, AfterIs DEF Saved, At
<1>4. /\ Saved(r).shown = IF Running.pc = "fragment" /\ Running.cmd.room = r
                          THEN [DbOf(r).fragments EXCEPT ![Running.cmd.slot] = Stored(Running.cmd.value)]
                          ELSE DbOf(r).fragments
      /\ Saved(r).records = IF Running.pc = "record" /\ Running.cmd.room = r
                            THEN Applied(Running.cmd, DbOf(r).records) ELSE DbOf(r).records
  BY DEF Saved, After, At
<1>5. DataSaved(r) = Data(Saved(r).shown, LabelsOf(Saved(r).records), Saved(r).members)
  BY <1>3, <1>4, Zenon DEF DataSaved, Running, Data, LabelsOf
<1> QED
  BY <1>1, <1>5 DEF SavedData

LEMMA ToldNext == UInv' => \A r \in Ids : Told'[r] = SavedData(Saved(r)')
<1>1. UInv' => (\A r \in Ids : Told[r] = SavedData(Saved(r)))'
  BY ToldIs, PTL
<1> QED
  BY <1>1

LEMMA SavedFields ==
    ASSUME NEW k
    PROVE  /\ IsData(SavedData(k)) /\ SavedData(k).shown = k.shown
           /\ SavedData(k).buckets = LabelsOf(k.records) /\ SavedData(k).members = k.members
  BY DEF SavedData, Data, IsData

LEMMA ToldSame ==
    ASSUME UInv, UInv', \A r \in Ids : Saved(r)' = Saved(r)
    PROVE  Told' = Told
<1>1. \A r \in Ids : Told'[r] = Told[r]
  BY ToldIs, ToldNext
<1> QED
  BY <1>1 DEF Told

LEMMA ToldChanged ==
    ASSUME UInv, UInv', NEW r \in Ids, \A q \in Ids \ {r} : Saved(q)' = Saved(q)
    PROVE  Told' = [Told EXCEPT ![r] = SavedData(Saved(r)')]
<1>1. \A q \in Ids : Told'[q] = IF q = r THEN SavedData(Saved(r)') ELSE Told[q]
  BY ToldIs, ToldNext
<1> QED
  BY <1>1 DEF Told

LEMMA SeenChanged ==
    ASSUME NEW r \in DOMAIN rooms, NEW room, SetRoom(r, room)
    PROVE  /\ Seen' = [Seen EXCEPT ![r] = [loaded |-> room.loaded, data |-> DataOf(room)]]
           /\ UNCHANGED <<next_room_id, labels>>
<1>1. /\ DOMAIN rooms' = DOMAIN rooms /\ UNCHANGED <<next_room_id, labels>>
      /\ \A q \in DOMAIN rooms' : rooms'[q] = IF q = r THEN room ELSE rooms[q]
  BY DEF SetRoom
<1>2. RoomSeen(room) = [loaded |-> room.loaded, data |-> DataOf(room)]
  BY DEF RoomSeen, DataOf, Data, Shown, Labelled
<1>3. Seen' = [q \in DOMAIN rooms |-> IF q = r THEN RoomSeen(room) ELSE RoomSeen(rooms[q])]
  BY <1>1 DEF Seen
<1> QED
  BY <1>1, <1>2, <1>3 DEF Seen
-----------------------------------------------------------------------------
(* Steps nobody sees: memory stays, and what will have been saved too.      *)
Pending == {"fragment", "record", "members"}

LEMMA AfterSame ==
    ASSUME NEW x, NEW y, NEW r, NEW c, NEW d, ~At(x, Pending, r), ~At(y, Pending, r),
           d.fragments = c.fragments, d.records = c.records, d.members = c.members
    PROVE  After(y, r, d) = After(x, r, c)
<1>1. /\ ~At(x, {"fragment"}, r) /\ ~At(x, {"record"}, r) /\ ~At(x, {"members"}, r)
      /\ ~At(y, {"fragment"}, r) /\ ~At(y, {"record"}, r) /\ ~At(y, {"members"}, r)
  BY DEF At, Pending
<1> QED
  BY <1>1 DEF After

LEMMA DbWritten ==
    ASSUME NEW r, NEW c, WriteDb(r, c)
    PROVE  \A q : DbOf(q)' = IF q = r THEN c ELSE DbOf(q)
  BY DEF WriteDb, With, DbOf

LEMMA Unseen ==
    ASSUME UInv, KInv', UNCHANGED vars, UNCHANGED Asked,
           \A r \in Ids : Saved(r)' = Saved(r),
           Running'.pc \in Owning => Running.pc \in Owning /\ Running'.cmd = Running.cmd,
           CachesFit', ListsFit', LoadFit'
    PROVE  UInv' /\ [Contract!Next]_(Contract!vars)
<1>1. rooms' = rooms /\ labels' = labels /\ next_room_id' = next_room_id
  BY DEF vars
<1>2. OwnerFits'
  BY <1>1 DEF UInv, OwnerFits, Loaded
<1>3. \A r \in DOMAIN rooms : r \in Ids
  BY LiveRooms DEF UInv, KInv
<1>4. RoomsFit'
  BY <1>1, <1>3 DEF UInv, RoomsFit
<1>5. UInv'
  BY <1>2, <1>4 DEF UInv
<1>6. Told' = Told
  BY <1>5, ToldSame
<1>7. Seen' = Seen
  BY <1>1 DEF Seen
<1> QED
  BY <1>1, <1>5, <1>6, <1>7, Stutters

LEMMA AskedIs ==
    /\ Running.pc # "apply" => Asked = None
    /\ Running.pc = "apply" =>
          Asked = [room |-> Running.cmd.room, place |-> Running.cmd.slot,
                   value |-> Stored(Running.cmd.value)]
  BY DEF Asked, Running

LEMMA AskedNext == Running'.pc # "apply" => Asked' = None
<1>1. (Running.pc # "apply" => Asked = None)'
  BY AskedIs, PTL
<1> QED
  BY <1>1

(* The running command puts something into its room's database.             *)
LEMMA Persists ==
    ASSUME UInv, KInv', UNCHANGED vars, cache' = cache,
           NEW t \in Tasks, NEW x, Move(t, x),
           Running.pc \notin Loading \cup {"apply"}, x.pc \notin Loading \cup {"apply"},
           x.pc = "idle" \/ x.cmd = Running.cmd,
           x.pc \in Owning => Running.pc \in Owning,
           NEW c, WriteDb(Running.cmd.room, c),
           After(x, Running.cmd.room, c) = Saved(Running.cmd.room),
           ListFits(x, Running.cmd.room, c),
           \A f : CacheFits(Running, Running.cmd.room, f, DbOf(Running.cmd.room)) =>
                     CacheFits(x, Running.cmd.room, f, c)
    PROVE  UInv' /\ [Contract!Next]_(Contract!vars)
<1> DEFINE r == Running.cmd.room
<1>1. Running' = x
  BY RunningMoves
<1>2. \A q : DbOf(q)' = IF q = r THEN c ELSE DbOf(q)
  BY DbWritten
<1>3. \A q, pcs : q # r /\ "idle" \notin pcs => ~At(Running, pcs, q) /\ ~At(x, pcs, q)
  BY DEF At
<1>4. \A q \in Ids : Saved(q)' = Saved(q)
  <2> SUFFICES ASSUME NEW q \in Ids PROVE After(x, q, DbOf(q)') = After(Running, q, DbOf(q))
    BY <1>1 DEF Saved
  <2>1. CASE q = r
    BY <1>2, <2>1 DEF Saved
  <2>2. CASE q # r
    BY <1>2, <1>3, <2>2, AfterSame DEF Pending
  <2> QED
    BY <2>1, <2>2
<1>5. CachesFit'
  <2> SUFFICES ASSUME NEW q \in DOMAIN cache PROVE CacheFits(x, q, cache[q], DbOf(q)')
    BY <1>1 DEF CachesFit
  <2>0. CacheFits(Running, q, cache[q], DbOf(q))
    BY DEF UInv, CachesFit
  <2>1. CASE q = r
    BY <1>2, <2>0, <2>1
  <2>2. CASE q # r
    BY <1>2, <1>3, <2>0, <2>2 DEF CacheFits
  <2> QED
    BY <2>1, <2>2
<1>6. ListsFit'
  <2> SUFFICES ASSUME NEW q \in Ids PROVE ListFits(x, q, DbOf(q)')
    BY <1>1 DEF ListsFit
  <2>0. ListFits(Running, q, DbOf(q))
    BY DEF UInv, ListsFit
  <2>1. CASE q = r
    BY <1>2, <2>1
  <2>2. CASE q # r
    BY <1>2, <1>3, <2>0, <2>2 DEF ListFits
  <2> QED
    BY <2>1, <2>2
<1>7. LoadFit'
  BY <1>1 DEF LoadFit, LoadFits, Loading
<1>8. UNCHANGED Asked
  BY <1>1, AskedIs, AskedNext
<1>9. x.pc \in Owning => x.cmd = Running.cmd
  BY DEF Owning
<1> QED
  BY <1>1, <1>4, <1>5, <1>6, <1>7, <1>8, <1>9, Unseen

(* Steps of writes and loads that leave the databases alone, between the    *)
(* moments a write is put into memory and into the database.                *)
LEMMA Reads ==
    ASSUME UInv, KInv', UNCHANGED vars, \A q : DbOf(q)' = DbOf(q),
           NEW t \in Tasks, NEW x, Move(t, x),
           Running.pc \notin Owning \cup {"apply", "fragment"},
           x.pc \notin Owning \cup {"apply", "fragment"},
           LoadFits(x, DbOf(x.cmd.room)),
           \A q \in DOMAIN cache' : (q \in DOMAIN cache /\ cache'[q] = cache[q])
                                    \/ cache'[q] = DbOf(q).records
    PROVE  UInv' /\ [Contract!Next]_(Contract!vars)
<1>1. Running' = x
  BY RunningMoves
<1>2. \A q : /\ ~At(Running, Pending, q) /\ ~At(x, Pending, q)
             /\ ~At(Running, {"list", "cache"}, q) /\ ~At(x, {"list", "cache"}, q)
             /\ ~At(Running, {"list"}, q) /\ ~At(x, {"list"}, q)
  BY DEF At, Pending, Owning
<1>3. \A q \in Ids : Saved(q)' = Saved(q)
  <2> SUFFICES ASSUME NEW q \in Ids PROVE After(x, q, DbOf(q)) = After(Running, q, DbOf(q))
    BY <1>1 DEF Saved
  <2> QED
    BY <1>2, AfterSame
<1>4. CachesFit'
  <2> SUFFICES ASSUME NEW q \in DOMAIN cache' PROVE CacheFits(x, q, cache'[q], DbOf(q))
    BY <1>1 DEF CachesFit
  <2>1. q \in DOMAIN cache => CacheFits(Running, q, cache[q], DbOf(q))
    BY DEF UInv, CachesFit
  <2> QED
    BY <1>2, <2>1 DEF CacheFits
<1>5. ListsFit'
  <2> SUFFICES ASSUME NEW q \in Ids PROVE ListFits(x, q, DbOf(q))
    BY <1>1 DEF ListsFit
  <2>1. ListFits(Running, q, DbOf(q))
    BY DEF UInv, ListsFit
  <2> QED
    BY <1>2, <2>1 DEF ListFits
<1>6. LoadFit'
  <2>1. LoadFits(Running', DbOf(Running.cmd.room)')
    BY <1>1
  <2> QED
    BY <2>1 DEF LoadFit
<1>7. UNCHANGED Asked
  BY <1>1, AskedIs, AskedNext
<1> QED
  BY <1>1, <1>3, <1>4, <1>5, <1>6, <1>7, Unseen
-----------------------------------------------------------------------------
(* The steps of commands on buckets and members after their first.          *)
LEMMA RecordPutUnseen ==
    ASSUME UInv, KInv', NEW t \in Tasks, PutRecord(t)
    PROVE  UInv' /\ [Contract!Next]_(Contract!vars)
<1> DEFINE cmd == Running.cmd
           old == DbOf(cmd.room)
           R   == Applied(cmd, old.records)
           c   == [old EXCEPT !.records = R]
           x   == [pc |-> "list", cmd |-> cmd, local |-> Running.local]
<1>0. task[t] = Running
  BY OneTask DEF Running
<1>1. /\ Running.pc = "record" /\ WriteDb(cmd.room, c) /\ Goto(t, "list")
      /\ UNCHANGED vars /\ cache' = cache
  BY <1>0, Zenon DEF PutRecord
<1>2. Move(t, x)
  BY <1>0, <1>1, Moves DEF UInv, KInv
<1>3. /\ c.fragments = old.fragments /\ c.records = R /\ c.members = old.members
  <2>1. old \in Content
    BY DiskContent DEF UInv, KInv
  <2> HIDE DEF R, old
  <2> QED
    BY <2>1 DEF Content
<1>4. /\ x.pc \notin Loading \cup {"apply"} /\ x.cmd = cmd
      /\ Running.pc \notin Loading \cup {"apply"} /\ Running.pc \in Owning
  BY <1>1 DEF Owning, Loading
<1>5. /\ At(x, {"list"}, cmd.room) /\ At(x, {"list", "cache"}, cmd.room)
      /\ ~At(x, {"fragment"}, cmd.room) /\ ~At(x, {"record"}, cmd.room)
      /\ ~At(x, {"members"}, cmd.room)
      /\ At(Running, {"record"}, cmd.room) /\ ~At(Running, {"fragment"}, cmd.room)
      /\ ~At(Running, {"members"}, cmd.room) /\ ~At(Running, {"list", "cache"}, cmd.room)
  BY <1>1 DEF At
<1> HIDE DEF c, x
<1>6. After(x, cmd.room, c) = Saved(cmd.room)
  <2> HIDE DEF cmd
  <2> QED
    BY <1>3, <1>5 DEF After, Saved, cmd
<1>7. ListFits(x, cmd.room, c)
  BY <1>5 DEF ListFits
<1>8. ASSUME NEW f, CacheFits(Running, cmd.room, f, old)
      PROVE  CacheFits(x, cmd.room, f, c)
  <2>1. f = old.records
    BY <1>5, <1>8 DEF CacheFits
  <2> QED
    BY <1>3, <1>4, <1>5, <2>1 DEF CacheFits
<1> QED
  BY <1>1, <1>2, <1>4, <1>6, <1>7, <1>8, Persists

LEMMA ListPutUnseen ==
    ASSUME UInv, KInv', NEW t \in Tasks, PutList(t)
    PROVE  UInv' /\ [Contract!Next]_(Contract!vars)
<1> DEFINE cmd == Running.cmd
           old == DbOf(cmd.room)
           L   == DOMAIN old.records
           c   == [old EXCEPT !.list = L]
           x   == [pc |-> "cache", cmd |-> cmd, local |-> Running.local]
<1>0. task[t] = Running
  BY OneTask DEF Running
<1>1. /\ Running.pc = "list" /\ WriteDb(cmd.room, c) /\ Goto(t, "cache")
      /\ UNCHANGED vars /\ cache' = cache
  BY <1>0, Zenon DEF PutList
<1>2. Move(t, x)
  BY <1>0, <1>1, Moves DEF UInv, KInv
<1>3. /\ c.fragments = old.fragments /\ c.records = old.records /\ c.members = old.members
      /\ c.list = L
  <2>1. old \in Content
    BY DiskContent DEF UInv, KInv
  <2> HIDE DEF L, old
  <2> QED
    BY <2>1 DEF Content
<1>4. /\ x.pc \notin Loading \cup {"apply"} /\ x.cmd = cmd
      /\ Running.pc \notin Loading \cup {"apply"} /\ Running.pc \in Owning
  BY <1>1 DEF Owning, Loading
<1>5. /\ ~At(x, Pending, cmd.room) /\ ~At(Running, Pending, cmd.room)
      /\ At(x, {"list", "cache"}, cmd.room) /\ At(Running, {"list", "cache"}, cmd.room)
  BY <1>1 DEF At, Pending
<1> HIDE DEF c, x
<1>6. After(x, cmd.room, c) = Saved(cmd.room)
  BY <1>3, <1>5, AfterSame DEF Saved
<1>7. ListFits(x, cmd.room, c)
  BY <1>3 DEF ListFits
<1>8. \A f : CacheFits(Running, cmd.room, f, old) => CacheFits(x, cmd.room, f, c)
  BY <1>3, <1>4, <1>5 DEF CacheFits
<1> QED
  BY <1>1, <1>2, <1>4, <1>6, <1>7, <1>8, Persists

LEMMA MembersPutUnseen ==
    ASSUME UInv, KInv', NEW t \in Tasks, PutMembers(t)
    PROVE  UInv' /\ [Contract!Next]_(Contract!vars)
<1> DEFINE cmd == Running.cmd
           old == DbOf(cmd.room)
           M   == IF cmd.op = "NewMember" THEN old.members \cup ({cmd.member} \ {Empty})
                  ELSE old.members \ {cmd.member}
           c   == [old EXCEPT !.members = M]
<1>0. task[t] = Running
  BY OneTask DEF Running
<1>1. /\ Running.pc = "members" /\ WriteDb(cmd.room, c) /\ Done(t)
      /\ UNCHANGED vars /\ cache' = cache
  BY <1>0, Zenon DEF PutMembers
<1>2. Move(t, Idle) /\ Idle.pc = "idle"
  BY <1>1, Moves DEF UInv, KInv, Idle
<1>3. /\ c.fragments = old.fragments /\ c.records = old.records /\ c.members = M
      /\ c.list = old.list
  <2>1. old \in Content
    BY DiskContent DEF UInv, KInv
  <2> HIDE DEF M, old
  <2> QED
    BY <2>1 DEF Content
<1>4. /\ Idle.pc \notin Loading \cup Owning \cup {"apply"}
      /\ Running.pc \notin Loading \cup {"apply"} /\ Running.pc \in Owning
  BY <1>1, <1>2 DEF Owning, Loading
<1>5. /\ ~At(Idle, {"fragment"}, cmd.room) /\ ~At(Idle, {"record"}, cmd.room)
      /\ ~At(Idle, {"members"}, cmd.room) /\ ~At(Idle, {"list", "cache"}, cmd.room)
      /\ ~At(Running, {"record"}, cmd.room) /\ ~At(Running, {"fragment"}, cmd.room)
      /\ At(Running, {"members"}, cmd.room) /\ ~At(Running, {"list", "cache"}, cmd.room)
      /\ ~At(Running, {"list"}, cmd.room)
  BY <1>1, <1>2 DEF At
<1> HIDE DEF c
<1>6. After(Idle, cmd.room, c) = Saved(cmd.room)
  BY <1>3, <1>5 DEF After, Saved
<1>7. ListFits(Idle, cmd.room, c)
  <2>1. cmd.room \in Ids
    <3>1. TaskOK(Running, next_room_id, DOMAIN db)
      BY RunningIs DEF UInv
    <3> QED
      BY <1>1, <3>1 DEF TaskOK
  <2>2. ListFits(Running, cmd.room, old)
    BY <2>1 DEF UInv, ListsFit
  <2> QED
    BY <1>3, <1>5, <2>2 DEF ListFits
<1>8. \A f : CacheFits(Running, cmd.room, f, old) => CacheFits(Idle, cmd.room, f, c)
  BY <1>3, <1>5 DEF CacheFits
<1> QED
  BY <1>1, <1>2, <1>4, <1>6, <1>7, <1>8, Persists

LEMMA FragmentPutUnseen ==
    ASSUME UInv, KInv', NEW t \in Tasks, PutFragment(t)
    PROVE  UInv' /\ [Contract!Next]_(Contract!vars)
<1> DEFINE cmd == Running.cmd
           old == DbOf(cmd.room)
           F   == [old.fragments EXCEPT ![cmd.slot] = Stored(cmd.value)]
           c   == [old EXCEPT !.fragments = F]
           x   == [pc |-> "counter", cmd |-> cmd, local |-> Running.local]
<1>0. task[t] = Running
  BY OneTask DEF Running
<1>1. /\ Running.pc = "fragment" /\ WriteDb(cmd.room, c) /\ Goto(t, "counter")
      /\ UNCHANGED vars /\ cache' = cache
  BY <1>0, Zenon DEF PutFragment
<1>2. Move(t, x)
  BY <1>0, <1>1, Moves DEF UInv, KInv
<1>3. /\ c.fragments = F /\ c.records = old.records /\ c.members = old.members
      /\ c.list = old.list
  <2>1. old \in Content
    BY DiskContent DEF UInv, KInv
  <2> HIDE DEF F, old
  <2> QED
    BY <2>1 DEF Content
<1>4. /\ x.pc \notin Loading \cup Owning \cup {"apply"} /\ x.cmd = cmd
      /\ Running.pc \notin Loading \cup {"apply"}
  BY <1>1 DEF Owning, Loading
<1>5. /\ ~At(x, {"fragment"}, cmd.room) /\ ~At(x, {"record"}, cmd.room)
      /\ ~At(x, {"members"}, cmd.room) /\ ~At(x, {"list", "cache"}, cmd.room)
      /\ ~At(Running, {"record"}, cmd.room) /\ At(Running, {"fragment"}, cmd.room)
      /\ ~At(Running, {"members"}, cmd.room) /\ ~At(Running, {"list", "cache"}, cmd.room)
      /\ ~At(Running, {"list"}, cmd.room)
  BY <1>1 DEF At
<1> HIDE DEF c, x
<1>6. After(x, cmd.room, c) = Saved(cmd.room)
  BY <1>3, <1>5 DEF After, Saved
<1>7. ListFits(x, cmd.room, c)
  <2>1. cmd.room \in Ids
    <3>1. TaskOK(Running, next_room_id, DOMAIN db)
      BY RunningIs DEF UInv
    <3> QED
      BY <1>1, <3>1 DEF TaskOK
  <2>2. ListFits(Running, cmd.room, old)
    BY <2>1 DEF UInv, ListsFit
  <2> QED
    BY <1>3, <1>5, <2>2 DEF ListFits
<1>8. \A f : CacheFits(Running, cmd.room, f, old) => CacheFits(x, cmd.room, f, c)
  BY <1>3, <1>5 DEF CacheFits
<1> QED
  BY <1>1, <1>2, <1>4, <1>6, <1>7, <1>8, Persists

LEMMA CacheUpdateUnseen ==
    ASSUME UInv, KInv', NEW t \in Tasks, UpdateCache(t)
    PROVE  UInv' /\ [Contract!Next]_(Contract!vars)
<1> DEFINE cmd == Running.cmd
<1>0. task[t] = Running
  BY OneTask DEF Running
<1>1. /\ Running.pc = "cache" /\ Done(t) /\ UNCHANGED vars /\ db' = db
      /\ cache' = IF cmd.room \in DOMAIN cache
                  THEN [cache EXCEPT ![cmd.room] = Applied(cmd, cache[cmd.room])] ELSE cache
  BY <1>0, Zenon DEF UpdateCache
<1>2. Running' = Idle /\ Idle.pc = "idle"
  BY <1>1, Moves, RunningMoves DEF UInv, KInv, Idle
<1>3. \A q : DbOf(q)' = DbOf(q)
  BY <1>1 DEF DbOf
<1>4. \A q : /\ ~At(Running, Pending, q) /\ ~At(Idle, Pending, q)
             /\ ~At(Idle, {"list", "cache"}, q) /\ ~At(Idle, {"list"}, q)
             /\ At(Running, {"list", "cache"}, q) <=> q = cmd.room
             /\ ~At(Running, {"list"}, q)
  BY <1>1, <1>2 DEF At, Pending
<1>5. \A q \in Ids : Saved(q)' = Saved(q)
  <2> SUFFICES ASSUME NEW q \in Ids PROVE After(Idle, q, DbOf(q)) = After(Running, q, DbOf(q))
    BY <1>2, <1>3 DEF Saved
  <2> QED
    BY <1>4, AfterSame
<1>6. CachesFit'
  <2> SUFFICES ASSUME NEW q \in DOMAIN cache' PROVE CacheFits(Idle, q, cache'[q], DbOf(q))
    BY <1>2, <1>3 DEF CachesFit
  <2>1. q \in DOMAIN cache /\ CacheFits(Running, q, cache[q], DbOf(q))
    BY <1>1 DEF UInv, CachesFit
  <2>2. CASE q = cmd.room
    BY <1>1, <1>4, <2>1, <2>2 DEF CacheFits
  <2>3. CASE q # cmd.room
    BY <1>1, <1>4, <2>1, <2>3 DEF CacheFits
  <2> QED
    BY <2>2, <2>3
<1>7. ListsFit'
  <2> SUFFICES ASSUME NEW q \in Ids PROVE ListFits(Idle, q, DbOf(q))
    BY <1>2, <1>3 DEF ListsFit
  <2>1. ListFits(Running, q, DbOf(q))
    BY DEF UInv, ListsFit
  <2> QED
    BY <1>4, <2>1 DEF ListFits
<1>8. LoadFit'
  BY <1>2 DEF LoadFit, LoadFits
<1>9. UNCHANGED Asked
  BY <1>1, <1>2, AskedIs, AskedNext
<1>10. Running'.pc \notin Owning
  BY <1>2 DEF Owning
<1> QED
  BY <1>1, <1>5, <1>6, <1>7, <1>8, <1>9, <1>10, Unseen

LEMMA EvictUnseen ==
    ASSUME UInv, KInv', NEW r \in DOMAIN cache, Evict(r)
    PROVE  UInv' /\ [Contract!Next]_(Contract!vars)
<1>1. /\ cache' = [q \in DOMAIN cache \ {r} |-> cache[q]] /\ db' = db
      /\ UNCHANGED vars /\ task' = task
  BY DEF Evict, Without
<1>2. /\ Running' = Running /\ Asked' = Asked /\ \A q : DbOf(q)' = DbOf(q)
  BY <1>1 DEF Running, Asked, DbOf
<1>3. \A q \in Ids : Saved(q)' = Saved(q)
  BY <1>2 DEF Saved
<1>4. CachesFit' /\ ListsFit' /\ LoadFit'
  <2>1. CachesFit'
    BY <1>1, <1>2 DEF UInv, CachesFit
  <2>2. ListsFit'
    BY <1>2 DEF UInv, ListsFit
  <2>3. DbOf(Running.cmd.room)' = DbOf(Running.cmd.room)
    BY <1>1, <1>2 DEF DbOf
  <2>4. LoadFit'
    BY <1>2, <2>3 DEF UInv, LoadFit
  <2> QED
    BY <2>1, <2>2, <2>4
<1> QED
  BY <1>1, <1>2, <1>3, <1>4, Unseen

-----------------------------------------------------------------------------
(* What reads only.                                                         *)
LEMMA CounterReadUnseen ==
    ASSUME UInv, KInv', NEW t \in Tasks, ReadCounter(t)
    PROVE  UInv' /\ [Contract!Next]_(Contract!vars)
<1>0. task[t] = Running
  BY OneTask DEF Running
<1> DEFINE n == IF Running.cmd.room \in DOMAIN rooms
                THEN rooms[Running.cmd.room].room_counter ELSE 0
           loc == [Running.local EXCEPT !.counter = n]
           x == [pc |-> "broadcast", cmd |-> Running.cmd, local |-> loc]
<1>1. /\ Running.pc = "counter" /\ Keep(t, "broadcast", loc) /\ UNCHANGED vars
      /\ db' = db /\ cache' = cache
  BY <1>0, Zenon DEF ReadCounter, diskVars
<1> HIDE DEF loc
<1>2. Move(t, x)
  BY <1>0, <1>1, Moves DEF UInv, KInv
<1>3. /\ Running.pc \notin Owning \cup {"apply", "fragment"}
      /\ x.pc \notin Owning \cup {"apply", "fragment"}
      /\ LoadFits(x, DbOf(x.cmd.room))
  BY <1>1 DEF Owning, LoadFits
<1>4. \A q : DbOf(q)' = DbOf(q)
  BY <1>1 DEF DbOf
<1> HIDE DEF x
<1> QED
  BY <1>1, <1>2, <1>3, <1>4, Reads

LEMMA BroadcastUnseen ==
    ASSUME UInv, KInv', NEW t \in Tasks, BroadcastWrite(t)
    PROVE  UInv' /\ [Contract!Next]_(Contract!vars)
<1>0. task[t] = Running
  BY OneTask DEF Running
<1>1. /\ Running.pc = "broadcast" /\ Done(t) /\ UNCHANGED vars
      /\ db' = db /\ cache' = cache
  BY <1>0, Zenon DEF BroadcastWrite, diskVars
<1>2. Move(t, Idle)
  BY <1>1, Moves DEF UInv, KInv
<1>3. /\ Running.pc \notin Owning \cup {"apply", "fragment"}
      /\ Idle.pc \notin Owning \cup {"apply", "fragment"}
      /\ LoadFits(Idle, DbOf(Idle.cmd.room))
  BY <1>1 DEF Owning, LoadFits, Idle
<1>4. \A q : DbOf(q)' = DbOf(q)
  BY <1>1 DEF DbOf
<1> QED
  BY <1>1, <1>2, <1>3, <1>4, Reads

LEMMA LoadStartUnseen ==
    ASSUME UInv, KInv', NEW t \in Tasks, NEW r \in Ids, StartLoad(t, r)
    PROVE  UInv' /\ [Contract!Next]_(Contract!vars)
<1> DEFINE cmd == [op |-> "LoadRoom", room |-> r]
           img == [Image EXCEPT !.defs = cache[r]]
<1>0. task[t] = Running
  BY OneTask DEF Running
<1>1. /\ WriteDb(r, DbOf(r)) /\ UNCHANGED vars /\ cache' = cache /\ Running.pc = "idle"
      /\ \/ r \in DOMAIN cache /\ Begin(t, "load_members", cmd, img)
         \/ r \notin DOMAIN cache /\ Begin(t, "load_list", cmd, Image)
  BY <1>0, Zenon DEF StartLoad, Begin
<1>2. \A q : DbOf(q)' = DbOf(q)
  BY <1>1, DbWritten
<1>3. Running.pc \notin Owning \cup {"apply", "fragment"}
  BY <1>1 DEF Owning
<1>4. CASE r \in DOMAIN cache /\ Begin(t, "load_members", cmd, img)
  <2> DEFINE x == [pc |-> "load_members", cmd |-> cmd, local |-> img]
  <2>1. Move(t, x)
    <3> HIDE DEF cmd, img
    <3> QED
      BY <1>4, Moves DEF UInv, KInv
  <2>2. img.defs = cache[r]
    <3>1. Image \in Loadable
      BY ImageOK, EmptyDbOK, ContentEdited
    <3> HIDE DEF cmd
    <3> QED
      BY <3>1 DEF Loadable
  <2>3. cache[r] = DbOf(r).records
    BY <1>1, <1>4 DEF UInv, CachesFit, CacheFits, At
  <2>4. x.pc \notin Owning \cup {"apply", "fragment"} /\ LoadFits(x, DbOf(x.cmd.room))
    <3> HIDE DEF img
    <3> QED
      BY <2>2, <2>3 DEF Owning, LoadFits
  <2> HIDE DEF x
  <2> QED
    BY <1>1, <1>2, <1>3, <2>1, <2>4, Reads
<1>5. CASE r \notin DOMAIN cache /\ Begin(t, "load_list", cmd, Image)
  <2> DEFINE x == [pc |-> "load_list", cmd |-> cmd, local |-> Image]
  <2>1. Move(t, x)
    <3> HIDE DEF cmd
    <3> QED
      BY <1>5, Moves DEF UInv, KInv
  <2>2. x.pc \notin Owning \cup {"apply", "fragment"} /\ LoadFits(x, DbOf(x.cmd.room))
    BY DEF Owning, LoadFits
  <2> HIDE DEF x
  <2> QED
    BY <1>1, <1>2, <1>3, <2>1, <2>2, Reads
<1> QED
  BY <1>1, <1>4, <1>5

LEMMA ListReadUnseen ==
    ASSUME UInv, KInv', NEW t \in Tasks, LoadList(t)
    PROVE  UInv' /\ [Contract!Next]_(Contract!vars)
<1> DEFINE old == DbOf(Running.cmd.room)
           loc == [Running.local EXCEPT !.defs = old.records]
           cmd == [op |-> "LoadRoom", room |-> Running.cmd.room, list |-> old.list]
           x   == [pc |-> "load_cache", cmd |-> Running.cmd, local |-> loc]
           y   == [pc |-> "load_records", cmd |-> cmd, local |-> Running.local]
<1>0. task[t] = Running
  BY OneTask DEF Running
<1>1. /\ Running.pc = "load_list" /\ UNCHANGED vars /\ db' = db /\ cache' = cache
      /\ \/ old.list = Absent /\ Keep(t, "load_cache", loc)
         \/ /\ old.list # Absent
            /\ task' = [task EXCEPT ![t] = [@ EXCEPT !.pc = "load_records", !.cmd = cmd]]
  BY <1>0, Zenon DEF LoadList, diskVars
<1>2. /\ Running.pc \in Loading /\ Running.pc \notin Owning \cup {"apply", "fragment"}
      /\ \A q : DbOf(q)' = DbOf(q)
  BY <1>1 DEF Loading, Owning, DbOf
<1>3. CASE old.list = Absent
  <2>1. Move(t, x)
    <3> HIDE DEF loc
    <3> QED
      BY <1>0, <1>1, <1>3, Moves DEF UInv, KInv
  <2>2. Running.local \in Loadable
    BY <1>0, <1>2, Loader DEF UInv
  <2>3. loc.defs = old.records
    <3> HIDE DEF old
    <3> QED
      BY <2>2 DEF Loadable
  <2>4. x.pc \notin Owning \cup {"apply", "fragment"} /\ LoadFits(x, DbOf(x.cmd.room))
    <3> HIDE DEF loc
    <3> QED
      BY <2>3 DEF Owning, LoadFits
  <2> HIDE DEF x
  <2> QED
    BY <1>1, <1>2, <2>1, <2>4, Reads
<1>4. CASE old.list # Absent
  <2>1. Running' = [Running EXCEPT !.pc = "load_records", !.cmd = cmd]
    <3> HIDE DEF cmd
    <3> QED
      BY <1>1, <1>4, OneTask DEF UInv, KInv, TasksOK, Running
  <2>2. [Running EXCEPT !.pc = "load_records", !.cmd = cmd] = y
    <3> DEFINE z == Running
               w == [z EXCEPT !.pc = "load_records", !.cmd = cmd]
    <3>1. z \in [pc : {z.pc}, cmd : {z.cmd}, local : {z.local}]
      BY RunningIs DEF UInv
    <3> HIDE DEF z, cmd
    <3>2. /\ w.pc = "load_records" /\ w.local = z.local /\ w.cmd = cmd
          /\ w \in [pc : {"load_records"}, cmd : {cmd}, local : {z.local}]
      BY <3>1
    <3> HIDE DEF w
    <3>3. w = [pc |-> "load_records", cmd |-> cmd, local |-> z.local]
      BY <3>2
    <3> QED
      BY <3>3 DEF z, w
  <2>3. Move(t, y)
    <3>1. Running' = y
      BY <2>1, <2>2
    <3>2. Tasks = {t} /\ t = Caller
      BY OneTask
    <3>3. task' = [u \in Tasks |-> task'[u]]
      <4> DEFINE g == [task[t] EXCEPT !.pc = "load_records", !.cmd = cmd]
      <4>1. task' = [task EXCEPT ![t] = g] /\ task = [u \in Tasks |-> task[u]]
        BY <1>1, <1>4 DEF UInv, KInv, TasksOK
      <4> HIDE DEF g
      <4> QED
        BY <4>1
    <3> HIDE DEF y
    <3> QED
      BY <3>1, <3>2, <3>3 DEF Move, Running
  <2>4. old.list = DOMAIN old.records
    <3>1. Running.cmd.room \in Ids
      BY <1>1, RunningIs DEF UInv, TaskOK
    <3>2. ListFits(Running, Running.cmd.room, old)
      BY <3>1 DEF UInv, ListsFit
    <3> QED
      BY <1>1, <1>4, <3>2 DEF ListFits, At
  <2>5. y.pc \notin Owning \cup {"apply", "fragment"} /\ LoadFits(y, DbOf(y.cmd.room))
    BY <2>4 DEF Owning, LoadFits
  <2> HIDE DEF y
  <2> QED
    BY <1>1, <1>2, <2>3, <2>5, Reads
<1> QED
  BY <1>3, <1>4

LEMMA RecordsReadUnseen ==
    ASSUME UInv, KInv', NEW t \in Tasks, LoadRecords(t)
    PROVE  UInv' /\ [Contract!Next]_(Contract!vars)
<1> DEFINE old == DbOf(Running.cmd.room)
           D == Running.cmd.list \cap DOMAIN old.records
           f == [b \in D |-> old.records[b]]
           loc == [Running.local EXCEPT !.defs = f]
           x   == [pc |-> "load_cache", cmd |-> Running.cmd, local |-> loc]
<1>0. task[t] = Running
  BY OneTask DEF Running
<1>1. /\ Running.pc = "load_records" /\ UNCHANGED vars /\ db' = db /\ cache' = cache
      /\ Keep(t, "load_cache", loc)
  BY <1>0, Zenon DEF LoadRecords, diskVars
<1>2. /\ Running.pc \in Loading /\ Running.pc \notin Owning \cup {"apply", "fragment"}
      /\ \A q : DbOf(q)' = DbOf(q)
  BY <1>1 DEF Loading, Owning, DbOf
<1>3. Running.local \in Loadable /\ old.records \in Records
  BY <1>0, <1>2, Loader DEF UInv
<1>4. Running.cmd.list = DOMAIN old.records
  BY <1>1 DEF UInv, LoadFit, LoadFits
<1>5. f = old.records
  <2>1. old.records \in [DOMAIN old.records -> BucketDef]
    BY <1>3, RecordsAre
  <2> HIDE DEF old
  <2> QED
    BY <1>4, <2>1
<1> HIDE DEF f
<1>6. loc.defs = f
  BY <1>3 DEF Loadable
<1> HIDE DEF loc
<1>7. Move(t, x)
  BY <1>0, <1>1, Moves DEF UInv, KInv
<1>8. x.pc \notin Owning \cup {"apply", "fragment"} /\ LoadFits(x, DbOf(x.cmd.room))
  BY <1>5, <1>6 DEF Owning, LoadFits
<1> HIDE DEF x
<1> QED
  BY <1>1, <1>2, <1>7, <1>8, Reads

LEMMA CacheLoadedUnseen ==
    ASSUME UInv, KInv', NEW t \in Tasks, LoadCache(t)
    PROVE  UInv' /\ [Contract!Next]_(Contract!vars)
<1> DEFINE x == [pc |-> "load_members", cmd |-> Running.cmd, local |-> Running.local]
<1>0. task[t] = Running
  BY OneTask DEF Running
<1>1. /\ Running.pc = "load_cache" /\ UNCHANGED vars /\ db' = db
      /\ cache' = With(cache, Running.cmd.room, Running.local.defs)
      /\ Goto(t, "load_members")
  BY <1>0, Zenon DEF LoadCache
<1>2. /\ Running.pc \notin Owning \cup {"apply", "fragment"}
      /\ \A q : DbOf(q)' = DbOf(q)
  BY <1>1 DEF Owning, DbOf
<1>3. Running.local.defs = DbOf(Running.cmd.room).records
  BY <1>1 DEF UInv, LoadFit, LoadFits
<1>4. Move(t, x)
  BY <1>0, <1>1, Moves DEF UInv, KInv
<1>5. x.pc \notin Owning \cup {"apply", "fragment"} /\ LoadFits(x, DbOf(x.cmd.room))
  BY <1>3 DEF Owning, LoadFits
<1>6. \A q \in DOMAIN cache' : (q \in DOMAIN cache /\ cache'[q] = cache[q])
                               \/ cache'[q] = DbOf(q).records
  BY <1>1, <1>3 DEF With
<1> HIDE DEF x
<1> QED
  BY <1>1, <1>2, <1>4, <1>5, <1>6, Reads

LEMMA MembersReadUnseen ==
    ASSUME UInv, KInv', NEW t \in Tasks, LoadMembers(t)
    PROVE  UInv' /\ [Contract!Next]_(Contract!vars)
<1> DEFINE M == DbOf(Running.cmd.room).members
           loc == [Running.local EXCEPT !.members = M]
           x   == [pc |-> "load_fragments", cmd |-> Running.cmd, local |-> loc]
<1>0. task[t] = Running
  BY OneTask DEF Running
<1>1. /\ Running.pc = "load_members" /\ UNCHANGED vars /\ db' = db /\ cache' = cache
      /\ Keep(t, "load_fragments", loc)
  BY <1>0, Zenon DEF LoadMembers, diskVars
<1>2. /\ Running.pc \in Loading /\ Running.pc \notin Owning \cup {"apply", "fragment"}
      /\ \A q : DbOf(q)' = DbOf(q)
  BY <1>1 DEF Loading, Owning, DbOf
<1>3. Running.local \in Loadable
  BY <1>0, <1>2, Loader DEF UInv
<1>4. Running.local.defs = DbOf(Running.cmd.room).records
  BY <1>1 DEF UInv, LoadFit, LoadFits
<1>5. loc.defs = Running.local.defs /\ loc.members = M
  <2> HIDE DEF M
  <2> QED
    BY <1>3 DEF Loadable
<1> HIDE DEF loc
<1>6. Move(t, x)
  BY <1>0, <1>1, Moves DEF UInv, KInv
<1>7. x.pc \notin Owning \cup {"apply", "fragment"} /\ LoadFits(x, DbOf(x.cmd.room))
  BY <1>4, <1>5 DEF Owning, LoadFits
<1> HIDE DEF x
<1> QED
  BY <1>1, <1>2, <1>6, <1>7, Reads

LEMMA FragmentsReadUnseen ==
    ASSUME UInv, KInv', NEW t \in Tasks, LoadFragments(t)
    PROVE  UInv' /\ [Contract!Next]_(Contract!vars)
<1> DEFINE F == DbOf(Running.cmd.room).fragments
           loc == [Running.local EXCEPT !.fragments = F]
           x   == [pc |-> "install", cmd |-> Running.cmd, local |-> loc]
<1>0. task[t] = Running
  BY OneTask DEF Running
<1>1. /\ Running.pc = "load_fragments" /\ UNCHANGED vars /\ db' = db /\ cache' = cache
      /\ Keep(t, "install", loc)
  BY <1>0, Zenon DEF LoadFragments, diskVars
<1>2. /\ Running.pc \in Loading /\ Running.pc \notin Owning \cup {"apply", "fragment"}
      /\ \A q : DbOf(q)' = DbOf(q)
  BY <1>1 DEF Loading, Owning, DbOf
<1>3. Running.local \in Loadable
  BY <1>0, <1>2, Loader DEF UInv
<1>4. /\ Running.local.defs = DbOf(Running.cmd.room).records
      /\ Running.local.members = DbOf(Running.cmd.room).members
  BY <1>1 DEF UInv, LoadFit, LoadFits
<1>5. /\ loc.defs = Running.local.defs /\ loc.members = Running.local.members
      /\ loc.fragments = F
  <2> HIDE DEF F
  <2> QED
    BY <1>3 DEF Loadable
<1> HIDE DEF loc
<1>6. Move(t, x)
  BY <1>0, <1>1, Moves DEF UInv, KInv
<1>7. x.pc \notin Owning \cup {"apply", "fragment"} /\ LoadFits(x, DbOf(x.cmd.room))
  BY <1>4, <1>5 DEF Owning, LoadFits
<1> HIDE DEF x
<1> QED
  BY <1>1, <1>2, <1>6, <1>7, Reads
-----------------------------------------------------------------------------
(* Rooms come and go while a command may be on its way.                     *)
LEMMA Aside ==
    ASSUME UInv, KInv', cache' = cache, task' = task, state_lock = Free,
           \A q : DbOf(q)' = DbOf(q), RoomsFit'
    PROVE  UInv' /\ Told' = Told /\ Asked' = Asked
<1>1. Running' = Running /\ Asked' = Asked /\ \A q \in Ids : Saved(q)' = Saved(q)
  BY DEF Running, Asked, Saved
<1>2. OwnerFits'
  BY <1>1, RunningIs DEF UInv, OwnerFits
<1>3. CachesFit' /\ ListsFit'
  BY <1>1 DEF UInv, CachesFit, ListsFit
<1>4. LoadFit'
  <2>1. LoadFits(Running', DbOf(Running.cmd.room)')
    BY <1>1 DEF UInv, LoadFit, Running
  <2> QED
    BY <2>1 DEF LoadFit
<1>5. UInv'
  BY <1>2, <1>3, <1>4 DEF UInv
<1> QED
  BY <1>1, <1>5, ToldSame

LEMMA NoDataIsBlank ==
    ASSUME NEW room, room.buckets = {}, room.members = {},
           \A s \in Slots : room.entries[s] = Absent
    PROVE  DataOf(room) = Blank
<1>1. Shown(room) = [s \in Slots |-> Absent]
  BY DEF Shown, LiveValue
<1>2. Labelled(room) = << >>
  <2>1. DOMAIN Labelled(room) = {} /\ Labelled(room) = [b \in {} |-> Labelled(room)[b]]
    BY DEF Labelled
  <2> QED
    BY <2>1
<1> QED
  BY <1>1, <1>2 DEF DataOf, Data, Blank

LEMMA RoomUnloads ==
    ASSUME UInv, KInv', NEW r \in DOMAIN rooms, UnloadRoom(r)
    PROVE  UInv' /\ [Contract!Next]_(Contract!vars)
<1> DEFINE room == Unload(rooms[r])
<1>1. /\ state_lock = Free /\ SetRoom(r, room)
      /\ db' = db /\ cache' = cache /\ task' = task
  BY DEF UnloadRoom, unload_room, diskVars
<1>2. /\ room.loaded = FALSE /\ room.buckets = {} /\ room.members = {}
      /\ \A s \in Slots : room.entries[s] = Absent
  <2>1. /\ EmptyRoom.buckets = {} /\ EmptyRoom.members = {}
        /\ \A s \in Slots : EmptyRoom.entries[s] = Absent
    BY DEF EmptyRoom
  <2>2. /\ room.loaded = FALSE /\ room.buckets = EmptyRoom.buckets
        /\ room.members = EmptyRoom.members /\ room.entries = EmptyRoom.entries
    BY EmptyRoomOK DEF Unload, RoomState
  <2> QED
    BY <2>1, <2>2
<1> HIDE DEF room
<1>3. DataOf(room) = Blank
  BY <1>2, NoDataIsBlank
<1>4. /\ Seen' = [Seen EXCEPT ![r] = [loaded |-> FALSE, data |-> Blank]]
      /\ UNCHANGED <<next_room_id, labels>>
  BY <1>1, <1>2, <1>3, SeenChanged
<1>5. RoomsFit'
  <2>1. \A q : Saved(q)' = Saved(q)
    BY <1>1 DEF Saved, DbOf, Running
  <2>2. /\ DOMAIN rooms' = DOMAIN rooms /\ rooms'[r].loaded = FALSE
        /\ \A q \in DOMAIN rooms : q # r => rooms'[q] = rooms[q]
    BY <1>1, <1>2 DEF SetRoom
  <2> QED
    BY <2>1, <2>2 DEF UInv, RoomsFit
<1>6. \A q : DbOf(q)' = DbOf(q)
  BY <1>1 DEF DbOf
<1>7. r \in Ids
  BY LiveRooms DEF UInv, KInv
<1> QED
  BY <1>1, <1>4, <1>5, <1>6, <1>7, Aside, Unloads

LEMMA RoomGoes ==
    ASSUME UInv, KInv', NEW r \in DOMAIN rooms, DeleteRoom(r)
    PROVE  UInv' /\ [Contract!Next]_(Contract!vars)
<1>1. /\ state_lock = Free /\ db' = db /\ cache' = cache /\ task' = task
      /\ rooms' = [q \in DOMAIN rooms \ {r} |-> rooms[q]]
      /\ labels' = [l \in {k \in DOMAIN labels : labels[k] # r} |-> labels[l]]
      /\ next_room_id' = next_room_id
  BY DEF DeleteRoom, delete_room, diskVars
<1>2. Seen' = [q \in DOMAIN Seen \ {r} |-> Seen[q]]
  BY <1>1 DEF Seen
<1>3. labels' = [l \in DOMAIN labels \ {k \in DOMAIN labels : labels[k] = r} |-> labels[l]]
  BY <1>1
<1>4. \A q : DbOf(q)' = DbOf(q)
  BY <1>1 DEF DbOf
<1>5. RoomsFit'
  <2>1. \A q : Saved(q)' = Saved(q)
    BY <1>1 DEF Saved, DbOf, Running
  <2> QED
    BY <1>1, <2>1 DEF UInv, RoomsFit
<1>6. r \in Ids
  BY LiveRooms DEF UInv, KInv
<1> QED
  BY <1>1, <1>2, <1>3, <1>4, <1>5, <1>6, Aside, Deletes

(* The id is fresh: nothing is on disk under it, and no command is at work  *)
(* on it except loads.                                                      *)
LEMMA FreshRoom ==
    ASSUME UInv, next_room_id \in Ids
    PROVE  /\ DbOf(next_room_id) = EmptyDb
           /\ Saved(next_room_id).members = {}
           /\ DOMAIN Saved(next_room_id).records = {}
<1> DEFINE n == next_room_id
<1>1. DbOf(n) = EmptyDb
  <2>1. n \in Nat
    BY StoreAssumption DEF Ids
  <2> QED
    BY <2>1 DEF UInv, KInv, FreshIdsHoldNoData, DbOf
<1>2. TaskOK(Running, n, DOMAIN db)
  BY RunningIs DEF UInv
<1>3. ~At(Running, Pending, n)
  <2>1. ~(n < n)
    BY StoreAssumption DEF Ids
  <2> QED
    BY <1>2, <2>1 DEF TaskOK, At, Pending, Owning, Writing
<1>4. EmptyDb.members = {} /\ DOMAIN EmptyDb.records = {}
  BY DEF EmptyDb
<1>5. Saved(n).members = EmptyDb.members /\ Saved(n).records = EmptyDb.records
  <2>1. ~At(Running, {"record"}, n) /\ ~At(Running, {"members"}, n)
    BY <1>3 DEF At, Pending
  <2> QED
    BY <1>1, <2>1, AfterIs DEF Saved
<1> QED
  BY <1>1, <1>4, <1>5

LEMMA RoomComes ==
    ASSUME UInv, KInv', NEW raw \in RawNames, NewRoom(raw)
    PROVE  UInv' /\ [Contract!Next]_(Contract!vars)
<1> DEFINE n == next_room_id
<1>0. ~(faults < MaxFaults)
  <2>1. faults \in 0..MaxFaults /\ MaxFaults = 0
    BY UpstreamAssumption DEF UInv, KInv, LedgerOK
  <2> QED
    BY <2>1
<1>1. /\ state_lock = Free /\ cache' = cache /\ task' = task
      /\ next_room_id' = n + 1 /\ n <= MaxRoomId
      /\ rooms' = With(rooms, n, EmptyRoom)
      /\ labels' = IF Trim[raw] \in LegalNames \ DOMAIN labels
                   THEN With(labels, Trim[raw], n) ELSE labels
      /\ WriteDb(n, DbOf(n))
  BY <1>0, Zenon DEF NewRoom
<1>2. n \in Ids
  BY <1>1, StoreAssumption DEF UInv, KInv, MemoryOK, IInv, TypeOK, RoomIds, Ids
<1>3. \A q : DbOf(q)' = DbOf(q)
  BY <1>1, DbWritten
<1>4. /\ DOMAIN rooms' = DOMAIN rooms \cup {n} /\ rooms'[n] = EmptyRoom
      /\ \A q \in DOMAIN rooms : q # n => rooms'[q] = rooms[q]
  BY <1>1 DEF With
<1>5. /\ EmptyRoom.buckets = {} /\ EmptyRoom.members = {} /\ EmptyRoom.loaded = TRUE
      /\ \A s \in Slots : EmptyRoom.entries[s] = Absent
  BY DEF EmptyRoom
<1>6. RoomsFit'
  <2>1. \A q : Saved(q)' = Saved(q)
    <3>1. Running' = Running
      BY <1>1 DEF Running
    <3> QED
      BY <1>3, <3>1 DEF Saved
  <2>2. Fits(EmptyRoom, Saved(n))
    BY <1>2, <1>5, FreshRoom DEF Fits
  <2> QED
    BY <1>4, <2>1, <2>2 DEF UInv, RoomsFit
<1>7. RoomSeen(EmptyRoom) = [loaded |-> TRUE, data |-> Blank]
  <2>1. DataOf(EmptyRoom) = Blank
    BY <1>5, NoDataIsBlank
  <2>2. RoomSeen(EmptyRoom) = [loaded |-> EmptyRoom.loaded, data |-> DataOf(EmptyRoom)]
    BY DEF RoomSeen, DataOf, Data, Shown, Labelled
  <2> QED
    BY <1>5, <2>1, <2>2
<1>8. Seen' = With(Seen, n, [loaded |-> TRUE, data |-> Blank])
  <2>1. \A q \in DOMAIN rooms' : RoomSeen(rooms'[q]) =
            IF q = n THEN [loaded |-> TRUE, data |-> Blank] ELSE RoomSeen(rooms[q])
    BY <1>4, <1>7
  <2>2. Seen' = [q \in DOMAIN rooms' |->
                    IF q = n THEN [loaded |-> TRUE, data |-> Blank] ELSE RoomSeen(rooms[q])]
    BY <2>1 DEF Seen
  <2> QED
    BY <1>4, <2>2 DEF Seen, With
<1>9. Trim[raw] \in TrimmedNames
  BY DEF TrimmedNames
<1> QED
  BY <1>1, <1>2, <1>3, <1>6, <1>8, <1>9, Aside, Creates
-----------------------------------------------------------------------------
(* Commands that hold the lock take effect when they begin: memory changes, *)
(* and so does what will have been saved once they are done.                *)
LEMMA Begins ==
    ASSUME UInv, KInv', state_lock = Free, db' = db, cache' = cache,
           NEW r \in DOMAIN rooms, NEW room, SetRoom(r, room), room.loaded = TRUE,
           NEW t \in Tasks, NEW x, Move(t, x), Running.pc = "idle",
           x.pc \in {"record", "members"}, x.cmd.room = r,
           Fits(room, After(x, r, DbOf(r)))
    PROVE  UInv' /\ Changed(r, DataOf(room), SavedData(After(x, r, DbOf(r))))
<1>1. Running' = x /\ \A q : DbOf(q)' = DbOf(q)
  BY RunningMoves DEF DbOf
<1>2. /\ DOMAIN rooms' = DOMAIN rooms /\ rooms'[r] = room
      /\ \A q \in DOMAIN rooms : q # r => rooms'[q] = rooms[q]
  BY DEF SetRoom
<1>3. \A q : /\ ~At(Running, Pending, q) /\ ~At(Running, {"list", "cache"}, q)
             /\ ~At(Running, {"list"}, q) /\ ~At(x, {"list", "cache"}, q)
             /\ ~At(x, {"list"}, q) /\ (q # r => ~At(x, Pending, q))
  BY DEF At, Pending
<1>4. r \in Ids /\ \A q \in DOMAIN rooms : q \in Ids
  BY LiveRooms DEF UInv, KInv
<1>5. \A q \in Ids \ {r} : Saved(q)' = Saved(q)
  BY <1>1, <1>3, AfterSame DEF Saved
<1>6. Saved(r)' = After(x, r, DbOf(r))
  BY <1>1 DEF Saved
<1>7. OwnerFits'
  BY <1>1, <1>2 DEF OwnerFits, Loaded
<1>8. RoomsFit'
  <2> SUFFICES ASSUME NEW q \in DOMAIN rooms, rooms'[q].loaded PROVE Fits(rooms'[q], Saved(q)')
    BY <1>2 DEF RoomsFit
  <2>1. CASE q = r
    BY <1>2, <1>6, <2>1
  <2>2. CASE q # r
    BY <1>2, <1>4, <1>5, <2>2 DEF UInv, RoomsFit
  <2> QED
    BY <2>1, <2>2
<1>9. CachesFit'
  <2> SUFFICES ASSUME NEW q \in DOMAIN cache PROVE CacheFits(x, q, cache[q], DbOf(q))
    BY <1>1 DEF CachesFit
  <2> QED
    BY <1>3 DEF UInv, CachesFit, CacheFits
<1>10. ListsFit'
  <2> SUFFICES ASSUME NEW q \in Ids PROVE ListFits(x, q, DbOf(q))
    BY <1>1 DEF ListsFit
  <2> QED
    BY <1>3 DEF UInv, ListsFit, ListFits
<1>11. LoadFit'
  BY <1>1 DEF LoadFit, LoadFits
<1>12. UInv'
  BY <1>7, <1>8, <1>9, <1>10, <1>11 DEF UInv
<1>13. Told' = [Told EXCEPT ![r] = SavedData(After(x, r, DbOf(r)))]
  BY <1>4, <1>5, <1>6, <1>12, ToldChanged
<1>14. /\ Seen' = [Seen EXCEPT ![r] = [loaded |-> TRUE, data |-> DataOf(room)]]
       /\ UNCHANGED <<next_room_id, labels>>
  BY SeenChanged
<1>15. Asked = None /\ Asked' = None
  BY <1>1, AskedIs, AskedNext
<1> QED
  BY <1>12, <1>13, <1>14, <1>15 DEF Changed

LEMMA LabelsEdited ==
    ASSUME NEW f, NEW b
    PROVE  /\ \A d : LabelsOf(With(f, b, d)) = With(LabelsOf(f), b, d.label)
           /\ LabelsOf(Without(f, b)) = Without(LabelsOf(f), b)
  BY DEF LabelsOf, With, Without

\* What the memory of a loaded room is made of.
LEMMA RoomIs ==
    ASSUME UInv, NEW r \in DOMAIN rooms
    PROVE  /\ rooms[r] \in RoomState /\ RoomBucketsOK(rooms[r]) /\ Plain(rooms[r]) /\ r \in Ids
           /\ rooms[r].bucket_labels \in [BucketIds -> RawNames \cup {Absent}]
           /\ rooms[r].buckets \in SUBSET BucketIds
           /\ rooms[r].entries \in [Slots -> Entry \cup {Absent}]
<1>1. RoomOK(rooms[r]) /\ Plain(rooms[r]) /\ r \in Ids
  BY LiveRooms DEF UInv, KInv, MemoryOK, IInv
<1> QED
  BY <1>1, RoomFields DEF RoomOK

\* A command that takes the lock finds its room as saved.
LEMMA Takes ==
    ASSUME UInv, NEW t \in Tasks, NEW op, NEW r, LockFor(t, op, r), task[t].pc = "idle"
    PROVE  /\ Running.pc = "idle" /\ state_lock = Free /\ db' = db /\ cache' = cache
           /\ rooms[r].loaded = TRUE /\ Fits(rooms[r], Saved(r)) /\ IsData(SavedData(Saved(r)))
           /\ Told[r] = SavedData(Saved(r)) /\ Saved(r).records = DbOf(r).records
           /\ Saved(r).shown = DbOf(r).fragments /\ Saved(r).members = DbOf(r).members
<1>1. /\ Running.pc = "idle" /\ state_lock = Free /\ db' = db /\ cache' = cache
      /\ r \in DOMAIN rooms /\ rooms[r].loaded
  BY OneTask DEF LockFor, Loaded, diskVars, Running
<1>2. rooms[r].loaded = TRUE
  BY <1>1
<1>3. Fits(rooms[r], Saved(r))
  BY <1>1 DEF UInv, RoomsFit
<1>4. Told[r] = SavedData(Saved(r))
  BY <1>1, RoomIs, ToldIs
<1>5. /\ Saved(r).records = DbOf(r).records
      /\ Saved(r).shown = DbOf(r).fragments /\ Saved(r).members = DbOf(r).members
  BY <1>1, AfterIs DEF Saved, At
<1> QED
  BY <1>1, <1>2, <1>3, <1>4, <1>5, SavedFields

LEMMA BucketComes ==
    ASSUME UInv, KInv', NEW t \in Tasks, NEW r \in DOMAIN rooms, NEW b \in BucketIds,
           NEW raw \in RawNames, NewBucket(t, r, b, raw)
    PROVE  UInv' /\ [Contract!Next]_(Contract!vars)
<1> DEFINE old  == rooms[r]
           l    == LabelOption(raw)
           B    == old.buckets \cup {b}
           L    == IF l = Absent THEN old.bucket_labels ELSE [old.bucket_labels EXCEPT ![b] = l]
           room == [old EXCEPT !.buckets = B, !.bucket_labels = L]
           rec  == [label |-> l, flags |-> {}]
           cmd  == [op |-> "NewBucket", room |-> r, bucket |-> b, record |-> rec]
           x    == [pc |-> "record", cmd |-> cmd, local |-> None]
           k    == Saved(r)
           c    == DbOf(r)
           m    == After(x, r, c)
<1>1. /\ LockFor(t, "NewBucket", r) /\ Begin(t, "record", cmd, None)
      /\ SetRoom(r, room) /\ task[t].pc = "idle"
  BY Zenon DEF NewBucket, Begin
<1>2. /\ Running.pc = "idle" /\ state_lock = Free /\ db' = db /\ cache' = cache
      /\ old.loaded = TRUE /\ Fits(old, k) /\ IsData(SavedData(k)) /\ Told[r] = SavedData(k)
      /\ k.records = c.records /\ k.shown = c.fragments /\ k.members = c.members
  <2> HIDE DEF c, k, old, cmd, room
  <2> QED
    BY <1>1, Takes DEF c, k, old
<1>3. /\ old \in RoomState /\ RoomBucketsOK(old) /\ r \in Ids
      /\ old.bucket_labels \in [BucketIds -> RawNames \cup {Absent}]
      /\ old.buckets \in SUBSET BucketIds
  BY RoomIs
<1>4. Move(t, x)
  <2> HIDE DEF cmd
  <2> QED
    BY <1>1, Moves DEF UInv, KInv
<1>5. /\ x.pc = "record" /\ x.cmd = cmd /\ cmd.op = "NewBucket" /\ cmd.room = r
      /\ cmd.bucket = b /\ cmd.record = rec /\ rec.label = l
  <2> HIDE DEF rec
  <2>1. x.pc = "record" /\ x.cmd = cmd /\ cmd.op = "NewBucket" /\ cmd.room = r
        /\ cmd.bucket = b /\ cmd.record = rec
    OBVIOUS
  <2>2. rec.label = l
    BY DEF rec
  <2> QED
    BY <2>1, <2>2
<1> HIDE DEF x, cmd, rec
<1>6. /\ m.shown = k.shown /\ m.members = k.members /\ m.records = With(k.records, b, rec)
  <2>1. /\ At(x, {"record"}, r) /\ ~At(x, {"fragment"}, r) /\ ~At(x, {"members"}, r)
    BY <1>5 DEF At
  <2>2. Applied(x.cmd, c.records) = With(c.records, b, rec)
    BY <1>5 DEF Applied
  <2> HIDE DEF c, k
  <2> QED
    BY <1>2, <2>1, <2>2 DEF After
<1> HIDE DEF k, c, m
<1>7. /\ room.entries = old.entries /\ room.members = old.members /\ room.loaded = TRUE
      /\ room.buckets = B /\ room.bucket_labels = L
  <2> HIDE DEF B, L, old
  <2> QED
    BY <1>2, <1>3 DEF RoomState
<1>8. /\ \A d \in BucketIds \ {b} : L[d] = old.bucket_labels[d]
      /\ l # Absent => L[b] = l
      /\ l = Absent /\ b \notin old.buckets => L[b] = Absent
      /\ l = Absent => L[b] = old.bucket_labels[b]
  <2>1. b \notin old.buckets => old.bucket_labels[b] = Absent
    BY <1>3 DEF RoomBucketsOK
  <2> HIDE DEF old, l
  <2> QED
    BY <1>3, <2>1
<1> HIDE DEF room, old, l
<1>9. Fits(room, m)
  <2>1. /\ DOMAIN m.records = DOMAIN k.records \cup {b} /\ m.records[b] = rec
        /\ \A d \in DOMAIN k.records : d # b => m.records[d] = k.records[d]
    BY <1>6 DEF With
  <2>2. \A d \in DOMAIN k.records : d \in BucketIds
    BY <1>2, <1>3 DEF Fits
  <2>3. ASSUME NEW d \in DOMAIN m.records
        PROVE  d \in room.buckets /\ m.records[d].label \in {Absent, room.bucket_labels[d]}
    <3>1. CASE d = b
      <4>1. m.records[b].label = l
        BY <1>5, <2>1
      <4> HIDE DEF L
      <4> QED
        BY <1>7, <1>8, <3>1, <4>1
    <3>2. CASE d # b
      <4>1. d \in DOMAIN k.records /\ d \in BucketIds /\ m.records[d] = k.records[d]
        BY <2>1, <2>2, <3>2
      <4>2. L[d] = old.bucket_labels[d]
        BY <1>8, <3>2, <4>1
      <4> HIDE DEF L
      <4> QED
        BY <1>2, <1>7, <4>1, <4>2 DEF Fits
    <3> QED
      BY <3>1, <3>2
  <2> HIDE DEF B, L
  <2> QED
    BY <1>2, <1>6, <1>7, <2>3 DEF Fits
<1>10. UInv' /\ Changed(r, DataOf(room), SavedData(m))
  <2>1. SetRoom(r, room)
    BY <1>1 DEF room, old, l
  <2>2. Fits(room, After(x, r, DbOf(r))) /\ x.pc \in {"record", "members"} /\ x.cmd.room = r
    BY <1>5, <1>9 DEF m, c
  <2>3. m = After(x, r, DbOf(r))
    BY DEF m, c
  <2> HIDE DEF B, L
  <2> QED
    BY <1>2, <1>4, <1>7, <2>1, <2>2, <2>3, Begins
<1>11. DataOf(room) = Data(Shown(old),
                           With(Labelled(old), b, IF l = Absent /\ b \in old.buckets
                                                  THEN old.bucket_labels[b] ELSE l),
                           old.members)
  <2>1. Shown(room) = Shown(old)
    BY <1>7 DEF Shown, LiveValue
  <2>2. Labelled(room) = With(Labelled(old), b, IF l = Absent /\ b \in old.buckets
                                                THEN old.bucket_labels[b] ELSE l)
    <3>1. L[b] = IF l = Absent /\ b \in old.buckets THEN old.bucket_labels[b] ELSE l
      <4> HIDE DEF L
      <4> QED
        BY <1>8
    <3>2. \A d \in old.buckets : d # b => L[d] = old.bucket_labels[d]
      <4> HIDE DEF L
      <4> QED
        BY <1>3, <1>8
    <3> HIDE DEF L
    <3> QED
      BY <1>7, <3>1, <3>2 DEF Labelled, With
  <2> QED
    BY <1>7, <2>1, <2>2 DEF DataOf
<1>12. SavedData(m) = Data(SavedData(k).shown, With(SavedData(k).buckets, b, l),
                           SavedData(k).members)
  <2>1. LabelsOf(m.records) = With(LabelsOf(k.records), b, l)
    BY <1>5, <1>6, LabelsEdited
  <2>2. /\ SavedData(k).shown = k.shown /\ SavedData(k).members = k.members
        /\ SavedData(k).buckets = LabelsOf(k.records)
    BY SavedFields
  <2> QED
    BY <1>6, <2>1, <2>2 DEF SavedData
<1>13. Trim[raw] \in TrimmedNames /\ l = IF Trim[raw] = Empty THEN Absent ELSE Trim[raw]
  BY DEF TrimmedNames, l, LabelOption
<1> QED
  <2>1. rooms[r].loaded /\ IsData(SavedData(k)) /\ Told[r] = SavedData(k)
    BY <1>2 DEF old
  <2>2. Changed(r,
              Data(Shown(rooms[r]),
                   With(Labelled(rooms[r]), b,
                        IF l = Absent /\ b \in rooms[r].buckets
                        THEN rooms[r].bucket_labels[b] ELSE l),
                   rooms[r].members),
              Data(SavedData(k).shown, With(SavedData(k).buckets, b, l),
                   SavedData(k).members))
    BY <1>10, <1>11, <1>12 DEF old
  <2> QED
    BY <1>3, <1>10, <1>13, <2>1, <2>2, MakesBucket

LEMMA BucketGoes ==
    ASSUME UInv, KInv', NEW t \in Tasks, NEW r \in DOMAIN rooms, NEW b \in BucketIds,
           DeleteBucket(t, r, b)
    PROVE  UInv' /\ [Contract!Next]_(Contract!vars)
<1> DEFINE old  == rooms[r]
           B    == old.buckets \ {b}
           E    == [s \in Slots |-> IF s[1] = b THEN Absent ELSE old.entries[s]]
           L    == [old.bucket_labels EXCEPT ![b] = Absent]
           F    == [old.bucket_flags EXCEPT ![b] = {}]
           room == [old EXCEPT !.buckets = B, !.entries = E, !.bucket_labels = L,
                               !.bucket_flags = F]
           cmd  == [op |-> "DeleteBucket", room |-> r, bucket |-> b]
           x    == [pc |-> "record", cmd |-> cmd, local |-> None]
           k    == Saved(r)
           c    == DbOf(r)
           m    == After(x, r, c)
<1>1. /\ LockFor(t, "DeleteBucket", r) /\ Begin(t, "record", cmd, None)
      /\ SetRoom(r, room) /\ task[t].pc = "idle"
  BY Zenon DEF DeleteBucket, Begin
<1>2. /\ Running.pc = "idle" /\ state_lock = Free /\ db' = db /\ cache' = cache
      /\ old.loaded = TRUE /\ Fits(old, k) /\ IsData(SavedData(k)) /\ Told[r] = SavedData(k)
      /\ k.records = c.records /\ k.shown = c.fragments /\ k.members = c.members
  <2> HIDE DEF c, k, old, cmd, room
  <2> QED
    BY <1>1, Takes DEF c, k, old
<1>3. /\ old \in RoomState /\ RoomBucketsOK(old) /\ r \in Ids
      /\ old.bucket_labels \in [BucketIds -> RawNames \cup {Absent}]
      /\ old.buckets \in SUBSET BucketIds
  BY RoomIs
<1>4. Move(t, x)
  <2> HIDE DEF cmd
  <2> QED
    BY <1>1, Moves DEF UInv, KInv
<1>5. /\ x.pc = "record" /\ x.cmd = cmd /\ cmd.op = "DeleteBucket" /\ cmd.room = r
      /\ cmd.bucket = b
  OBVIOUS
<1> HIDE DEF x, cmd
<1>6. /\ m.shown = k.shown /\ m.members = k.members /\ m.records = Without(k.records, b)
  <2>1. /\ At(x, {"record"}, r) /\ ~At(x, {"fragment"}, r) /\ ~At(x, {"members"}, r)
    BY <1>5 DEF At
  <2>2. Applied(x.cmd, c.records) = Without(c.records, b)
    BY <1>5 DEF Applied
  <2> HIDE DEF c, k
  <2> QED
    BY <1>2, <2>1, <2>2 DEF After
<1> HIDE DEF k, c, m
<1>7. /\ room.entries = E /\ room.members = old.members /\ room.loaded = TRUE
      /\ room.buckets = B /\ room.bucket_labels = L
  <2> HIDE DEF B, L, E, F, old
  <2> QED
    BY <1>2, <1>3 DEF RoomState
<1>8. \A d \in BucketIds \ {b} : L[d] = old.bucket_labels[d]
  <2> HIDE DEF old
  <2> QED
    BY <1>3
<1> HIDE DEF room, old
<1>9. Fits(room, m)
  <2>1. /\ DOMAIN m.records = DOMAIN k.records \ {b}
        /\ \A d \in DOMAIN k.records : d # b => m.records[d] = k.records[d]
    BY <1>6 DEF Without
  <2>2. \A d \in DOMAIN k.records : d \in BucketIds /\ d \in old.buckets
    BY <1>2, <1>3 DEF Fits
  <2>3. ASSUME NEW d \in DOMAIN m.records
        PROVE  d \in room.buckets /\ m.records[d].label \in {Absent, room.bucket_labels[d]}
    <3>1. d \in DOMAIN k.records /\ d # b /\ d \in BucketIds /\ m.records[d] = k.records[d]
          /\ d \in old.buckets
      BY <2>1, <2>2
    <3>2. L[d] = old.bucket_labels[d]
      BY <1>8, <3>1
    <3> HIDE DEF L
    <3> QED
      BY <1>2, <1>7, <3>1, <3>2 DEF Fits
  <2>4. \A s \in Slots : E[s] # Absent => E[s] = old.entries[s]
    OBVIOUS
  <2> HIDE DEF B, L, E
  <2> QED
    BY <1>2, <1>6, <1>7, <2>3, <2>4 DEF Fits
<1>10. UInv' /\ Changed(r, DataOf(room), SavedData(m))
  <2>1. SetRoom(r, room)
    BY <1>1 DEF room, old
  <2>2. Fits(room, After(x, r, DbOf(r))) /\ x.pc \in {"record", "members"} /\ x.cmd.room = r
    BY <1>5, <1>9 DEF m, c
  <2>3. m = After(x, r, DbOf(r))
    BY DEF m, c
  <2> HIDE DEF B, L, E, F
  <2> QED
    BY <1>2, <1>4, <1>7, <2>1, <2>2, <2>3, Begins
<1>11. DataOf(room) = Data([s \in Slots |-> IF s[1] = b THEN Absent ELSE Shown(old)[s]],
                           Without(Labelled(old), b), old.members)
  <2>1. Shown(room) = [s \in Slots |-> IF s[1] = b THEN Absent ELSE Shown(old)[s]]
    <3>1. \A s \in Slots : LiveValue(room, s) = IF s[1] = b THEN Absent ELSE LiveValue(old, s)
      BY <1>7 DEF LiveValue
    <3> QED
      BY <3>1 DEF Shown
  <2>2. Labelled(room) = Without(Labelled(old), b)
    <3>1. \A d \in B : d # b /\ d \in old.buckets /\ L[d] = old.bucket_labels[d]
      <4> HIDE DEF L
      <4> QED
        BY <1>3, <1>8
    <3> HIDE DEF L
    <3> QED
      BY <1>7, <3>1 DEF Labelled, Without
  <2> QED
    BY <1>7, <2>1, <2>2 DEF DataOf
<1>12. SavedData(m) = Data(SavedData(k).shown, Without(SavedData(k).buckets, b),
                           SavedData(k).members)
  <2>1. LabelsOf(m.records) = Without(LabelsOf(k.records), b)
    BY <1>6, LabelsEdited
  <2>2. /\ SavedData(k).shown = k.shown /\ SavedData(k).members = k.members
        /\ SavedData(k).buckets = LabelsOf(k.records)
    BY SavedFields
  <2> QED
    BY <1>6, <2>1, <2>2 DEF SavedData
<1> QED
  <2>1. rooms[r].loaded /\ IsData(SavedData(k)) /\ Told[r] = SavedData(k)
    BY <1>2 DEF old
  <2>2. Changed(r,
              Data([s \in Slots |-> IF s[1] = b THEN Absent ELSE Shown(rooms[r])[s]],
                   Without(Labelled(rooms[r]), b), rooms[r].members),
              Data(SavedData(k).shown, Without(SavedData(k).buckets, b),
                   SavedData(k).members))
    BY <1>10, <1>11, <1>12 DEF old
  <2> QED
    BY <1>3, <1>10, <2>1, <2>2, RemovesBucket

\* NewMember and DeleteMember: M is what the room's members become.
LEMMA MembersChange ==
    ASSUME UInv, KInv', NEW t \in Tasks, NEW r \in DOMAIN rooms, NEW raw \in RawNames,
           NEW op \in {"NewMember", "DeleteMember"}, LockFor(t, op, r),
           NEW M, SetRoom(r, [rooms[r] EXCEPT !.members = M]),
           M = IF op = "NewMember" THEN rooms[r].members \cup ({Trim[raw]} \ {Empty})
               ELSE rooms[r].members \ {Trim[raw]},
           Begin(t, "members", [op |-> op, room |-> r, member |-> Trim[raw]], None)
    PROVE  UInv' /\ [Contract!Next]_(Contract!vars)
<1> DEFINE old  == rooms[r]
           n    == Trim[raw]
           room == [old EXCEPT !.members = M]
           cmd  == [op |-> op, room |-> r, member |-> n]
           x    == [pc |-> "members", cmd |-> cmd, local |-> None]
           k    == Saved(r)
           c    == DbOf(r)
           m    == After(x, r, c)
<1>1. SetRoom(r, room) /\ task[t].pc = "idle"
  BY Zenon DEF Begin
<1>2. /\ Running.pc = "idle" /\ state_lock = Free /\ db' = db /\ cache' = cache
      /\ old.loaded = TRUE /\ Fits(old, k) /\ IsData(SavedData(k)) /\ Told[r] = SavedData(k)
      /\ k.records = c.records /\ k.shown = c.fragments /\ k.members = c.members
  <2> HIDE DEF c, k, old, cmd, room
  <2> QED
    BY <1>1, Takes DEF c, k, old
<1>3. old \in RoomState /\ r \in Ids
  BY RoomIs
<1>4. Move(t, x)
  <2> HIDE DEF cmd
  <2> QED
    BY Moves DEF UInv, KInv, cmd
<1>5. /\ x.pc = "members" /\ x.cmd = cmd /\ cmd.op = op /\ cmd.room = r /\ cmd.member = n
  OBVIOUS
<1> HIDE DEF x, cmd
<1>6. old.members = k.members
  BY <1>2 DEF Fits
<1>7. /\ m.shown = k.shown /\ m.members = M /\ m.records = k.records
  <2>1. /\ At(x, {"members"}, r) /\ ~At(x, {"fragment"}, r) /\ ~At(x, {"record"}, r)
    BY <1>5 DEF At
  <2>2. M = IF x.cmd.op = "NewMember" THEN c.members \cup ({x.cmd.member} \ {Empty})
            ELSE c.members \ {x.cmd.member}
    <3> HIDE DEF c, k
    <3> QED
      BY <1>2, <1>5, <1>6
  <2> HIDE DEF c, k
  <2> QED
    BY <1>2, <2>1, <2>2 DEF After
<1> HIDE DEF k, c, m
<1>8. /\ room.entries = old.entries /\ room.members = M /\ room.loaded = TRUE
      /\ room.buckets = old.buckets /\ room.bucket_labels = old.bucket_labels
  <2> HIDE DEF old
  <2> QED
    BY <1>2, <1>3 DEF RoomState
<1> HIDE DEF room, old
<1>9. Fits(room, m)
  BY <1>2, <1>7, <1>8 DEF Fits
<1>10. UInv' /\ Changed(r, DataOf(room), SavedData(m))
  <2>1. SetRoom(r, room)
    BY <1>1 DEF room, old
  <2>2. Fits(room, After(x, r, DbOf(r))) /\ x.pc \in {"record", "members"} /\ x.cmd.room = r
    BY <1>5, <1>9 DEF m, c
  <2>3. m = After(x, r, DbOf(r))
    BY DEF m, c
  <2> QED
    BY <1>2, <1>4, <1>8, <2>1, <2>2, <2>3, Begins
<1>11. DataOf(room) = Data(Shown(old), Labelled(old), M)
  BY <1>8 DEF DataOf, Shown, LiveValue, Labelled
<1>12. SavedData(m) = Data(SavedData(k).shown, SavedData(k).buckets, M)
  BY <1>7, SavedFields DEF SavedData
<1>13. \/ M = rooms[r].members \cup ({n} \ {Empty})
             /\ M = SavedData(k).members \cup ({n} \ {Empty})
       \/ M = rooms[r].members \ {n} /\ M = SavedData(k).members \ {n}
  BY <1>6, SavedFields DEF old
<1>14. n \in TrimmedNames
  BY DEF TrimmedNames
<1> QED
  <2>1. rooms[r].loaded /\ IsData(SavedData(k)) /\ Told[r] = SavedData(k)
    BY <1>2 DEF old
  <2>2. Changed(r, Data(Shown(rooms[r]), Labelled(rooms[r]), M),
                   Data(SavedData(k).shown, SavedData(k).buckets, M))
    BY <1>10, <1>11, <1>12 DEF old
  <2> HIDE DEF n
  <2> QED
    BY <1>3, <1>10, <1>13, <1>14, <2>1, <2>2, ChangesMembers, SMTT(30)

LEMMA MemberComes ==
    ASSUME UInv, KInv', NEW t \in Tasks, NEW r \in DOMAIN rooms, NEW raw \in RawNames,
           NewMember(t, r, raw)
    PROVE  UInv' /\ [Contract!Next]_(Contract!vars)
<1> DEFINE M == rooms[r].members \cup ({Trim[raw]} \ {Empty})
           cmd == [op |-> "NewMember", room |-> r, member |-> Trim[raw]]
<1>1. /\ LockFor(t, "NewMember", r) /\ Begin(t, "members", cmd, None)
      /\ SetRoom(r, [rooms[r] EXCEPT !.members = M])
  BY Zenon DEF NewMember
<1>2. M = IF "NewMember" = "NewMember" THEN rooms[r].members \cup ({Trim[raw]} \ {Empty})
          ELSE rooms[r].members \ {Trim[raw]}
  OBVIOUS
<1> HIDE DEF M
<1> QED
  BY <1>1, <1>2, MembersChange

LEMMA MemberGoes ==
    ASSUME UInv, KInv', NEW t \in Tasks, NEW r \in DOMAIN rooms, NEW raw \in RawNames,
           DeleteMember(t, r, raw)
    PROVE  UInv' /\ [Contract!Next]_(Contract!vars)
<1> DEFINE M == rooms[r].members \ {Trim[raw]}
           cmd == [op |-> "DeleteMember", room |-> r, member |-> Trim[raw]]
<1>1. /\ LockFor(t, "DeleteMember", r) /\ Begin(t, "members", cmd, None)
      /\ SetRoom(r, [rooms[r] EXCEPT !.members = M])
  BY Zenon DEF DeleteMember
<1>2. M = IF "DeleteMember" = "NewMember" THEN rooms[r].members \cup ({Trim[raw]} \ {Empty})
          ELSE rooms[r].members \ {Trim[raw]}
  OBVIOUS
<1> HIDE DEF M
<1> QED
  BY <1>1, <1>2, MembersChange
-----------------------------------------------------------------------------
(* A write is accepted when it begins and takes effect in memory; what it   *)
(* has yet to put on disk counts as saved from then on.                     *)
LEMMA AskedSoon ==
    Running'.pc = "apply" =>
        Asked' = [room |-> Running'.cmd.room, place |-> Running'.cmd.slot,
                  value |-> Stored(Running'.cmd.value)]
<1>1. (Running.pc = "apply" =>
          Asked = [room |-> Running.cmd.room, place |-> Running.cmd.slot,
                   value |-> Stored(Running.cmd.value)])'
  BY AskedIs, PTL
<1> QED
  BY <1>1

LEMMA WriteBegins ==
    ASSUME UInv, KInv', NEW t \in Tasks, NEW r \in DOMAIN rooms, NEW s \in Slots,
           NEW v \in Values \cup {Null}, StartWrite(t, r, s, v)
    PROVE  UInv' /\ [Contract!Next]_(Contract!vars)
<1> DEFINE cmd == [op |-> "WriteFragment", room |-> r, slot |-> s, value |-> v]
<1>0. task[t] = Running /\ t = Caller
  BY OneTask DEF Running
<1>1. /\ Running.pc = "idle" /\ rooms[r].loaded /\ UNCHANGED vars
      /\ db' = db /\ cache' = cache
  BY <1>0 DEF StartWrite, Loaded, diskVars
<1>2. Running'.pc = "apply" /\ Running'.cmd = cmd
  BY <1>0 DEF StartWrite, Running
<1>3. /\ cmd.room = r /\ cmd.slot = s /\ cmd.value = v
  OBVIOUS
<1> HIDE DEF cmd
<1>4. rooms' = rooms /\ labels' = labels /\ next_room_id' = next_room_id
  BY <1>1 DEF vars
<1>5. \A q : DbOf(q)' = DbOf(q)
  BY <1>1 DEF DbOf
<1>6. \A q : /\ ~At(Running, Pending, q) /\ ~At(Running', Pending, q)
             /\ ~At(Running, {"list", "cache"}, q) /\ ~At(Running', {"list", "cache"}, q)
             /\ ~At(Running, {"list"}, q) /\ ~At(Running', {"list"}, q)
  BY <1>1, <1>2 DEF At, Pending
<1>7. \A q \in Ids : Saved(q)' = Saved(q)
  BY <1>5, <1>6, AfterSame DEF Saved
<1>8. OwnerFits' /\ LoadFit'
  BY <1>2 DEF OwnerFits, LoadFit, LoadFits, Owning
<1>9. \A q \in DOMAIN rooms : q \in Ids
  BY LiveRooms DEF UInv, KInv
<1>10. RoomsFit'
  BY <1>4, <1>7, <1>9 DEF UInv, RoomsFit
<1>11. CachesFit'
  BY <1>1, <1>5, <1>6 DEF UInv, CachesFit, CacheFits
<1>12. ListsFit'
  BY <1>5, <1>6 DEF UInv, ListsFit, ListFits
<1>13. UInv'
  BY <1>8, <1>10, <1>11, <1>12 DEF UInv
<1>14. Told' = Told /\ Seen' = Seen
  BY <1>4, <1>7, <1>13, ToldSame DEF Seen
<1>15. Asked = None /\ Asked' = [room |-> r, place |-> s, value |-> Stored(v)]
  BY <1>1, <1>2, <1>3, AskedIs, AskedSoon
<1> QED
  BY <1>1, <1>4, <1>9, <1>13, <1>14, <1>15, StoredOK, Accepts

\* What writing to a loaded room does to its data.
LEMMA PutSeen ==
    ASSUME UInv, NEW r \in DOMAIN rooms, NEW s \in Slots, NEW v \in Values \cup {Null},
           NEW k, Fits(rooms[r], k), NEW m,
           m.records = k.records, m.members = k.members, m.shown[s] = Stored(v),
           \A p \in Slots : p # s => m.shown[p] = k.shown[p]
    PROVE  /\ Fits(Put(rooms[r], s, v), m)
           /\ Put(rooms[r], s, v).loaded = rooms[r].loaded
           /\ DataOf(Put(rooms[r], s, v)) =
                 Data([Shown(rooms[r]) EXCEPT ![s] = Stored(v)],
                      IF s[1] \in rooms[r].buckets THEN Labelled(rooms[r])
                      ELSE With(Labelled(rooms[r]), s[1], Absent),
                      rooms[r].members)
<1> DEFINE old == rooms[r]
           w == [value |-> v, key_version |-> old.room_counter + 1]
           n == old.room_counter + 1
           E == [old.entries EXCEPT ![s] = w]
           B == old.buckets \cup {s[1]}
           room == Put(old, s, v)
<1>1. /\ old \in RoomState /\ RoomBucketsOK(old)
      /\ old.buckets \in SUBSET BucketIds
      /\ old.entries \in [Slots -> Entry \cup {Absent}] /\ old.room_counter \in Nat
  BY RoomIs, RoomFields
<1>2. room = [old EXCEPT !.room_counter = n, !.buckets = B, !.entries = E]
  BY Zenon DEF Put
<1>3. /\ w.value = v /\ w # Absent
  <2>1. w \in Entry
    BY <1>1 DEF Entry
  <2> QED
    BY <2>1, RoomAssumption
<1>4. /\ E[s] = w /\ \A p \in Slots : p # s => E[p] = old.entries[p]
  <2> HIDE DEF w
  <2> QED
    BY <1>1
<1> HIDE DEF E, B, w, n, room
<1>5. /\ room.entries = E /\ room.members = old.members /\ room.loaded = old.loaded
      /\ room.buckets = B /\ room.bucket_labels = old.bucket_labels
  BY <1>1, <1>2 DEF RoomState
<1>6. Fits(old, k)
  OBVIOUS
<1> HIDE DEF old
<1>7. Fits(room, m)
  <2>1. ASSUME NEW p \in Slots, room.entries[p] # Absent
        PROVE  m.shown[p] = Stored(room.entries[p].value)
    <3>1. CASE p = s
      BY <1>3, <1>4, <1>5, <3>1
    <3>2. CASE p # s
      BY <1>4, <1>5, <1>6, <2>1, <3>2 DEF Fits
    <3> QED
      BY <3>1, <3>2
  <2>2. \A b : b \in old.buckets => b \in room.buckets
    BY <1>5 DEF B
  <2> QED
    BY <1>5, <1>6, <2>1, <2>2 DEF Fits
<1>8. Shown(room) = [Shown(old) EXCEPT ![s] = Stored(v)]
  <2>1. LiveValue(room, s) = Stored(v)
    BY <1>3, <1>4, <1>5 DEF LiveValue, Stored
  <2>2. \A p \in Slots : p # s => LiveValue(room, p) = LiveValue(old, p)
    BY <1>4, <1>5 DEF LiveValue
  <2> QED
    BY <2>1, <2>2 DEF Shown
<1>9. Labelled(room) = IF s[1] \in old.buckets THEN Labelled(old)
                       ELSE With(Labelled(old), s[1], Absent)
  <2>1. s[1] \in BucketIds
    BY DEF Slots
  <2>2. s[1] \notin old.buckets => old.bucket_labels[s[1]] = Absent
    BY <1>1, <2>1 DEF RoomBucketsOK
  <2>3. CASE s[1] \in old.buckets
    BY <1>5, <2>3 DEF Labelled, B
  <2>4. CASE s[1] \notin old.buckets
    BY <1>5, <2>2, <2>4 DEF Labelled, With, B
  <2> QED
    BY <2>3, <2>4
<1> QED
  BY <1>5, <1>7, <1>8, <1>9 DEF DataOf, old, room

LEMMA WriteTakesEffect ==
    ASSUME UInv, KInv', NEW t \in Tasks, ApplyWrite(t)
    PROVE  UInv' /\ [Contract!Next]_(Contract!vars)
<1>0. task[t] = Running /\ t = Caller
  BY OneTask DEF Running
<1>3. PICK r \in Ids, s \in Slots, v \in Values \cup {Null} :
         Running.cmd.room = r /\ Running.cmd.slot = s /\ Running.cmd.value = v
  BY <1>0, RunningIs DEF UInv, TaskOK, Writing, WriteCmd, ApplyWrite
<1> DEFINE new == Put(rooms[r], s, v)
           k   == Saved(r)
           c   == DbOf(r)
           m   == Saved(r)'
<1>1. /\ Running.pc = "apply" /\ db' = db /\ cache' = cache
      /\ IF Loaded(r)
         THEN /\ set_fragment(r, s, v)
              /\ Keep(t, "fragment", [Running.local EXCEPT
                          !.version = rooms[r].room_counter + 1])
         ELSE UNCHANGED vars /\ Goto(t, "fragment")
  BY <1>0, <1>3, Zenon DEF ApplyWrite, diskVars
<1>2. Running'.pc = "fragment" /\ Running'.cmd = Running.cmd
  <2>1. CASE Loaded(r)
    <3> DEFINE loc == [Running.local EXCEPT !.version = rooms[r].room_counter + 1]
    <3>1. Keep(t, "fragment", loc)
      BY <1>1, <2>1
    <3> HIDE DEF loc
    <3>2. Move(t, [pc |-> "fragment", cmd |-> task[t].cmd, local |-> loc])
      BY <3>1, Moves DEF UInv, KInv
    <3> QED
      BY <1>0, <3>2, RunningMoves
  <2>2. CASE ~Loaded(r)
    <3>1. Move(t, [pc |-> "fragment", cmd |-> task[t].cmd, local |-> task[t].local])
      BY <1>1, <2>2, Moves DEF UInv, KInv
    <3> QED
      BY <1>0, <3>1, RunningMoves
  <2> QED
    BY <2>1, <2>2
<1>4. \A q : DbOf(q)' = DbOf(q)
  BY <1>1 DEF DbOf
<1>5. \A q : /\ ~At(Running, Pending, q) /\ (q # r => ~At(Running', Pending, q))
             /\ ~At(Running, {"list", "cache"}, q) /\ ~At(Running', {"list", "cache"}, q)
             /\ ~At(Running, {"list"}, q) /\ ~At(Running', {"list"}, q)
  BY <1>1, <1>2, <1>3 DEF At, Pending
<1>6. \A q \in Ids \ {r} : Saved(q)' = Saved(q)
  BY <1>4, <1>5, AfterSame DEF Saved
<1>7. /\ k.shown = c.fragments /\ k.records = c.records /\ k.members = c.members
      /\ c.fragments \in [Slots -> Values \cup {Absent}]
  <2>1. ~At(Running, {"fragment"}, r) /\ ~At(Running, {"record"}, r)
        /\ ~At(Running, {"members"}, r)
    BY <1>5 DEF At, Pending
  <2>2. c \in Content
    BY DiskContent DEF UInv, KInv
  <2> QED
    BY <2>1, <2>2, AfterIs, ContentEdited DEF Saved
<1>8. /\ m.shown = [k.shown EXCEPT ![s] = Stored(v)]
      /\ m.records = k.records /\ m.members = k.members
  <2>1. m = After(Running', r, c)
    BY <1>4 DEF Saved
  <2>2. At(Running', {"fragment"}, r) /\ ~At(Running', {"record"}, r)
        /\ ~At(Running', {"members"}, r)
    BY <1>2, <1>3 DEF At
  <2> HIDE DEF m, k, c
  <2>3. After(Running', r, c).shown = [c.fragments EXCEPT ![s] = Stored(v)]
    BY <1>2, <1>3, <2>2 DEF After
  <2>4. After(Running', r, c).records = c.records /\ After(Running', r, c).members = c.members
    BY <2>2 DEF After
  <2> QED
    BY <1>7, <2>1, <2>3, <2>4
<1>9. /\ m.shown[s] = Stored(v) /\ \A p \in Slots : p # s => m.shown[p] = k.shown[p]
  <2> HIDE DEF m, k, c
  <2> QED
    BY <1>3, <1>7, <1>8
<1>10. Loaded(r) => /\ r \in DOMAIN rooms /\ rooms[r].loaded /\ SetRoom(r, new)
                    /\ Fits(rooms[r], k)
  <2> SUFFICES ASSUME Loaded(r) PROVE r \in DOMAIN rooms /\ rooms[r].loaded
                                      /\ SetRoom(r, new) /\ Fits(rooms[r], k)
    OBVIOUS
  <2>1. r \in DOMAIN rooms /\ rooms[r].loaded
    BY DEF Loaded
  <2>2. rooms[r].tx_buffer = NoTx
    BY <2>1, RoomIs DEF Plain
  <2>3. SetRoom(r, new)
    BY <1>1, <2>2, Zenon DEF set_fragment
  <2> QED
    BY <2>1, <2>3 DEF UInv, RoomsFit
<1>11. ~Loaded(r) => rooms' = rooms /\ labels' = labels /\ next_room_id' = next_room_id
  BY <1>1 DEF vars
<1>12. \A q \in DOMAIN rooms : q \in Ids
  BY LiveRooms DEF UInv, KInv
<1>13. Loaded(r) => /\ Fits(new, m) /\ new.loaded = TRUE
                    /\ DataOf(new) =
                          Data([Shown(rooms[r]) EXCEPT ![s] = Stored(v)],
                               IF s[1] \in rooms[r].buckets THEN Labelled(rooms[r])
                               ELSE With(Labelled(rooms[r]), s[1], Absent),
                               rooms[r].members)
  <2> SUFFICES ASSUME Loaded(r) PROVE /\ Fits(new, m) /\ new.loaded = TRUE
                    /\ DataOf(new) =
                          Data([Shown(rooms[r]) EXCEPT ![s] = Stored(v)],
                               IF s[1] \in rooms[r].buckets THEN Labelled(rooms[r])
                               ELSE With(Labelled(rooms[r]), s[1], Absent),
                               rooms[r].members)
    OBVIOUS
  <2>1. rooms[r].loaded = TRUE /\ r \in DOMAIN rooms /\ Fits(rooms[r], k)
    BY <1>10
  <2>3. /\ m.records = k.records /\ m.members = k.members /\ m.shown[s] = Stored(v)
        /\ \A p \in Slots : p # s => m.shown[p] = k.shown[p]
    BY <1>8, <1>9
  <2> HIDE DEF m, k, c
  <2>2. /\ Fits(Put(rooms[r], s, v), m)
        /\ Put(rooms[r], s, v).loaded = rooms[r].loaded
        /\ DataOf(Put(rooms[r], s, v)) =
              Data([Shown(rooms[r]) EXCEPT ![s] = Stored(v)],
                   IF s[1] \in rooms[r].buckets THEN Labelled(rooms[r])
                   ELSE With(Labelled(rooms[r]), s[1], Absent),
                   rooms[r].members)
    BY ONLY UInv, <1>3, <2>1, <2>3, PutSeen
  <2> QED
    BY <2>1, <2>2
<1> HIDE DEF m, k, c, new
<1>14. RoomsFit'
  <2> SUFFICES ASSUME NEW q \in DOMAIN rooms', rooms'[q].loaded PROVE Fits(rooms'[q], Saved(q)')
    BY DEF RoomsFit
  <2>1. CASE Loaded(r)
    <3>1. /\ DOMAIN rooms' = DOMAIN rooms /\ rooms'[r] = new
          /\ \A p \in DOMAIN rooms : p # r => rooms'[p] = rooms[p]
      BY <1>10, <2>1 DEF SetRoom
    <3>2. CASE q = r
      BY <1>13, <2>1, <3>1, <3>2 DEF m
    <3>3. CASE q # r
      BY <1>6, <1>12, <3>1, <3>3 DEF UInv, RoomsFit
    <3> QED
      BY <3>2, <3>3
  <2>2. CASE ~Loaded(r)
    <3>1. q \in DOMAIN rooms /\ rooms[q].loaded /\ q # r /\ rooms'[q] = rooms[q]
      BY <1>11, <2>2 DEF Loaded
    <3> QED
      BY <1>6, <1>12, <3>1 DEF UInv, RoomsFit
  <2> QED
    BY <2>1, <2>2
<1>15. OwnerFits' /\ LoadFit'
  BY <1>2 DEF OwnerFits, LoadFit, LoadFits, Owning
<1>16. CachesFit'
  BY <1>1, <1>4, <1>5 DEF UInv, CachesFit, CacheFits
<1>17. ListsFit'
  BY <1>4, <1>5 DEF UInv, ListsFit, ListFits
<1>18. UInv'
  BY <1>14, <1>15, <1>16, <1>17 DEF UInv
<1>19. Told' = [Told EXCEPT ![r] = SavedData(m)] /\ Told[r] = SavedData(k)
  <2>1. Told' = [Told EXCEPT ![r] = SavedData(Saved(r)')]
    <3> QED
      BY <1>3, <1>6, <1>18, ToldChanged
  <2> QED
    BY <1>3, <2>1, ToldIs DEF m, k
<1>20. /\ IsData(SavedData(k))
       /\ SavedData(m) = Data([SavedData(k).shown EXCEPT ![s] = Stored(v)],
                              SavedData(k).buckets, SavedData(k).members)
  <2>1. /\ SavedData(k).shown = k.shown /\ SavedData(k).members = k.members
        /\ SavedData(k).buckets = LabelsOf(k.records) /\ IsData(SavedData(k))
    BY SavedFields
  <2> QED
    BY <1>8, <2>1 DEF SavedData
<1>21. /\ Asked = [room |-> r, place |-> s, value |-> Stored(v)]
       /\ Asked # None /\ Asked' = None
  <2>1. Asked = [room |-> r, place |-> s, value |-> Stored(v)]
    BY <1>1, <1>3, AskedIs
  <2>2. Stored(v) \in Values \cup {Absent}
    BY <1>3, StoredOK
  <2>3. Asked \in [room : Ids, place : Slots, value : Values \cup {Absent}]
    BY <1>3, <2>1, <2>2
  <2> QED
    BY <1>2, <2>1, <2>3, AskedNext, UpstreamAssumption
<1>22. /\ UNCHANGED <<next_room_id, labels>>
       /\ Seen' = IF Loaded(r)
                  THEN [Seen EXCEPT ![r] = [loaded |-> TRUE, data |-> DataOf(new)]]
                  ELSE Seen
  <2>1. CASE Loaded(r)
    <3> QED
      BY <1>10, <1>13, <2>1, SeenChanged
  <2>2. CASE ~Loaded(r)
    BY <1>11, <2>2 DEF Seen
  <2> QED
    BY <2>1, <2>2
<1>23. Seen' = IF Loaded(r)
               THEN [Seen EXCEPT ![r] = [loaded |-> TRUE, data |-> Data(
                       [Shown(rooms[r]) EXCEPT ![s] = Stored(v)],
                       IF s[1] \in rooms[r].buckets THEN Labelled(rooms[r])
                       ELSE With(Labelled(rooms[r]), s[1], Absent),
                       rooms[r].members)]]
               ELSE Seen
  BY <1>13, <1>22
<1> DEFINE K == SavedData(k)
           w == Stored(v)
<1>24. /\ IsData(K) /\ Told[r] = K
       /\ Told' = [Told EXCEPT ![r] = Data([K.shown EXCEPT ![s] = w], K.buckets, K.members)]
  BY <1>19, <1>20
<1>25. Asked = [room |-> r, place |-> s, value |-> w] /\ Asked # None /\ Asked' = None
  BY <1>21
<1>26. Seen' = IF Loaded(r)
               THEN [Seen EXCEPT ![r] = [loaded |-> TRUE, data |-> Data(
                       [Shown(rooms[r]) EXCEPT ![s] = w],
                       IF s[1] \in rooms[r].buckets THEN Labelled(rooms[r])
                       ELSE With(Labelled(rooms[r]), s[1], Absent),
                       rooms[r].members)]]
               ELSE Seen
  BY <1>23
<1> HIDE DEF K, w
<1>27. UNCHANGED <<next_room_id, labels>>
  BY <1>22
<1>28. [Contract!Next]_(Contract!vars)
  BY <1>24, <1>25, <1>26, <1>27, Puts
<1> QED
  BY <1>18, <1>28
-----------------------------------------------------------------------------
(* A load takes effect when its image is put into memory.                   *)
LEMMA LoadSeen ==
    ASSUME NEW room \in RoomState, NEW img \in Loadable, NEW k, NEW c \in Content,
           img.defs = c.records, img.members = c.members, img.fragments = c.fragments,
           k.shown = c.fragments, k.records = c.records, k.members = c.members
    PROVE  /\ Fits(Load(room, img), k) /\ Load(room, img).loaded = TRUE
           /\ DataOf(Load(room, img)) =
                 Data([s \in Slots |-> IF s[1] \in DOMAIN SavedData(k).buckets
                                       THEN SavedData(k).shown[s] ELSE Absent],
                      SavedData(k).buckets, SavedData(k).members)
<1> DEFINE L == [b \in BucketIds |-> IF b \in DOMAIN img.defs THEN img.defs[b].label ELSE Absent]
           F == [b \in BucketIds |-> IF b \in DOMAIN img.defs THEN img.defs[b].flags ELSE {}]
           E == [s \in Slots |->
                   IF s[1] \in DOMAIN img.defs /\ img.fragments[s] # Absent
                   THEN [value |-> img.fragments[s], key_version |-> 0] ELSE Absent]
           B == DOMAIN img.defs
           new == Load(room, img)
<1>1. new = [room EXCEPT !.loaded = TRUE, !.buckets = B, !.members = img.members,
                         !.bucket_labels = L, !.bucket_flags = F, !.entries = E]
  BY Zenon DEF Load
<1>2. /\ c.fragments \in [Slots -> Values \cup {Absent}] /\ c.records \in Records
      /\ DOMAIN c.records \subseteq BucketIds
  BY ContentEdited, RecordsAre
<1>3. \A s \in Slots : IF s[1] \in DOMAIN c.records /\ c.fragments[s] # Absent
                       THEN E[s] # Absent /\ E[s].value = c.fragments[s]
                       ELSE E[s] = Absent
  <2> SUFFICES ASSUME NEW s \in Slots
               PROVE  IF s[1] \in DOMAIN c.records /\ c.fragments[s] # Absent
                      THEN E[s] # Absent /\ E[s].value = c.fragments[s]
                      ELSE E[s] = Absent
    OBVIOUS
  <2> DEFINE w == [value |-> c.fragments[s], key_version |-> 0]
  <2>1. E[s] = IF s[1] \in DOMAIN c.records /\ c.fragments[s] # Absent THEN w ELSE Absent
    OBVIOUS
  <2>2. c.fragments[s] # Absent => w \in Entry
    BY <1>2 DEF Entry
  <2>3. w.value = c.fragments[s]
    OBVIOUS
  <2> HIDE DEF w, E
  <2> QED
    BY <2>1, <2>2, <2>3, RoomAssumption
<1>4. \A b \in DOMAIN c.records : L[b] = c.records[b].label
  BY <1>2
<1> HIDE DEF L, F, E, new
<1>5. /\ new.entries = E /\ new.members = c.members /\ new.loaded = TRUE
      /\ new.buckets = DOMAIN c.records /\ new.bucket_labels = L
  <2> HIDE DEF B
  <2> QED
    BY <1>1 DEF RoomState, B
<1>6. \A s \in Slots : c.fragments[s] # Absent =>
         c.fragments[s] # Null /\ Stored(c.fragments[s]) = c.fragments[s]
  BY <1>2, RoomAssumption DEF Stored
<1>7. Fits(new, k)
  BY <1>3, <1>4, <1>5, <1>6 DEF Fits
<1>8. Shown(new) = [s \in Slots |-> IF s[1] \in DOMAIN c.records THEN c.fragments[s] ELSE Absent]
  <2>1. \A s \in Slots : LiveValue(new, s) =
            IF s[1] \in DOMAIN c.records THEN c.fragments[s] ELSE Absent
    BY <1>3, <1>5, <1>6 DEF LiveValue
  <2> QED
    BY <2>1 DEF Shown
<1>9. Labelled(new) = LabelsOf(c.records)
  BY <1>4, <1>5 DEF Labelled, LabelsOf
<1>10. /\ SavedData(k).shown = c.fragments /\ SavedData(k).members = c.members
       /\ SavedData(k).buckets = LabelsOf(c.records) /\ DOMAIN LabelsOf(c.records) = DOMAIN c.records
  BY SavedFields DEF LabelsOf
<1>11. DataOf(new) = Data([s \in Slots |-> IF s[1] \in DOMAIN SavedData(k).buckets
                                           THEN SavedData(k).shown[s] ELSE Absent],
                          SavedData(k).buckets, SavedData(k).members)
  BY <1>5, <1>8, <1>9, <1>10 DEF DataOf
<1> QED
  BY <1>5, <1>7, <1>11 DEF new

LEMMA LoadTakesEffect ==
    ASSUME UInv, KInv', NEW t \in Tasks, Install(t)
    PROVE  UInv' /\ [Contract!Next]_(Contract!vars)
<1>0. task[t] = Running
  BY OneTask DEF Running
<1>1. PICK r \in Ids : Running.cmd.room = r
  BY <1>0, RunningIs DEF UInv, TaskOK, Install
<1>2. /\ Running.pc = "install" /\ Done(t) /\ db' = db /\ cache' = cache
      /\ IF r \in DOMAIN rooms THEN SetRoom(r, Load(rooms[r], Running.local))
         ELSE UNCHANGED vars
  BY <1>0, <1>1, Zenon DEF Install, load_room_data, diskVars
<1>3. Move(t, Idle) /\ Running' = Idle /\ Idle.pc = "idle"
  BY <1>2, Moves, RunningMoves DEF UInv, KInv, Idle
<1>4. \A q : DbOf(q)' = DbOf(q)
  BY <1>2 DEF DbOf
<1>5. CASE r \notin DOMAIN rooms
  <2>1. /\ Running.pc \notin Owning \cup {"apply", "fragment"}
        /\ Idle.pc \notin Owning \cup {"apply", "fragment"}
        /\ LoadFits(Idle, DbOf(Idle.cmd.room))
    BY <1>2, <1>3 DEF Owning, LoadFits
  <2>2. UNCHANGED vars
    BY <1>2, <1>5
  <2> QED
    BY <1>2, <1>3, <1>4, <2>1, <2>2, Reads
<1>6. CASE r \in DOMAIN rooms
  <2> DEFINE c   == DbOf(r)
             k   == Saved(r)
             new == Load(rooms[r], Running.local)
             K   == SavedData(k)
             S   == [s \in Slots |-> IF s[1] \in DOMAIN K.buckets THEN K.shown[s] ELSE Absent]
  <2>1. \A q : /\ ~At(Running, Pending, q) /\ ~At(Idle, Pending, q)
               /\ ~At(Running, {"list", "cache"}, q) /\ ~At(Idle, {"list", "cache"}, q)
               /\ ~At(Running, {"list"}, q) /\ ~At(Idle, {"list"}, q)
    BY <1>2, <1>3 DEF At, Pending
  <2>2. \A q \in Ids : Saved(q)' = Saved(q)
    <3> SUFFICES ASSUME NEW q \in Ids PROVE After(Idle, q, DbOf(q)) = After(Running, q, DbOf(q))
      BY <1>3, <1>4 DEF Saved
    <3> QED
      BY <2>1, AfterSame
  <2>3. k.shown = c.fragments /\ k.records = c.records /\ k.members = c.members
    <3>1. ~At(Running, {"fragment"}, r) /\ ~At(Running, {"record"}, r)
          /\ ~At(Running, {"members"}, r)
      BY <1>2 DEF At
    <3> QED
      BY <3>1, AfterIs DEF Saved
  <2>4. /\ Running.local.defs = c.records /\ Running.local.members = c.members
        /\ Running.local.fragments = c.fragments
    BY <1>1, <1>2 DEF UInv, LoadFit, LoadFits
  <2>5. Running.local \in Loadable /\ c \in Content /\ rooms[r] \in RoomState
    <3>1. Running.pc \in Loading
      BY <1>2 DEF Loading
    <3>2. Running.local \in Loadable /\ DbOf(Running.cmd.room) \in Content
      BY <1>0, <3>1, Loader DEF UInv
    <3> QED
      BY <1>1, <1>6, <3>2, RoomIs
  <2>6. Fits(new, k) /\ new.loaded = TRUE /\ DataOf(new) = Data(S, K.buckets, K.members)
    <3> HIDE DEF c, k
    <3> QED
      BY <2>3, <2>4, <2>5, LoadSeen
  <2>7. SetRoom(r, new)
    BY <1>2, <1>6
  <2> HIDE DEF k, c, new, S, K
  <2>8. /\ DOMAIN rooms' = DOMAIN rooms /\ rooms'[r] = new
        /\ \A q \in DOMAIN rooms : q # r => rooms'[q] = rooms[q]
    BY <1>6, <2>7 DEF SetRoom
  <2>9. \A q \in DOMAIN rooms : q \in Ids
    BY LiveRooms DEF UInv, KInv
  <2>10. RoomsFit'
    <3> SUFFICES ASSUME NEW q \in DOMAIN rooms, rooms'[q].loaded PROVE Fits(rooms'[q], Saved(q)')
      BY <2>8 DEF RoomsFit
    <3>1. CASE q = r
      BY <1>1, <2>2, <2>6, <2>8, <3>1 DEF k
    <3>2. CASE q # r
      BY <2>2, <2>8, <2>9, <3>2 DEF UInv, RoomsFit
    <3> QED
      BY <3>1, <3>2
  <2>11. OwnerFits' /\ LoadFit'
    BY <1>3 DEF OwnerFits, LoadFit, LoadFits, Owning
  <2>12. CachesFit'
    BY <1>2, <1>3, <1>4, <2>1 DEF UInv, CachesFit, CacheFits
  <2>13. ListsFit'
    BY <1>3, <1>4, <2>1 DEF UInv, ListsFit, ListFits
  <2>14. UInv'
    BY <2>10, <2>11, <2>12, <2>13 DEF UInv
  <2>15. Told' = Told /\ Told[r] = K
    BY <1>1, <2>2, <2>14, ToldSame, ToldIs DEF K, k
  <2>16. /\ Seen' = [Seen EXCEPT ![r] = [loaded |-> TRUE, data |-> DataOf(new)]]
         /\ UNCHANGED <<next_room_id, labels>>
    BY <1>6, <2>6, <2>7, SeenChanged
  <2>17. UNCHANGED Asked
    BY <1>2, <1>3, AskedIs, AskedNext
  <2>18. IsData(K)
    BY SavedFields DEF K
  <2>19. Seen' = [Seen EXCEPT ![r] = [loaded |-> TRUE, data |->
              [shown   |-> [s \in Slots |-> IF s[1] \in DOMAIN Told[r].buckets
                                            THEN Told[r].shown[s] ELSE Absent],
               buckets |-> Told[r].buckets,
               members |-> Told[r].members]]]
    <3>1. DataOf(new) = [shown |-> S, buckets |-> Told[r].buckets, members |-> Told[r].members]
      BY <2>6, <2>15 DEF Data
    <3>2. S = [s \in Slots |-> IF s[1] \in DOMAIN Told[r].buckets
                               THEN Told[r].shown[s] ELSE Absent]
      BY <2>15 DEF S
    <3> QED
      BY <2>16, <3>1, <3>2
  <2>20. Told[r] = [shown |-> Told[r].shown, buckets |-> Told[r].buckets,
                    members |-> Told[r].members]
    BY <2>15, <2>18 DEF IsData, Data
  <2>21. [Contract!Next]_(Contract!vars)
    BY <1>1, <1>6, <2>15, <2>16, <2>17, <2>19, <2>20, Loads
  <2> QED
    BY <2>14, <2>21
<1> QED
  BY <1>5, <1>6
-----------------------------------------------------------------------------
(* Every step together.                                                     *)
LEMMA NoTrouble ==
    ASSUME UInv
    PROVE  /\ ~Crash
           /\ \A t \in Tasks : ~DiskFault(t) /\ ~ShortList(t) /\ ~ReadFault(t)
<1>1. ~(faults < MaxFaults) /\ ~(crashes < MaxCrashes)
  <2>1. /\ faults \in 0..MaxFaults /\ MaxFaults = 0
        /\ crashes \in 0..MaxCrashes /\ MaxCrashes = 0
    BY UpstreamAssumption DEF UInv, KInv, LedgerOK
  <2> QED
    BY <2>1
<1>2. ~Crash
  BY <1>1 DEF Crash
<1>3. ASSUME NEW t \in Tasks PROVE ~DiskFault(t) /\ ~ShortList(t) /\ ~ReadFault(t)
  BY <1>1, Zenon DEF DiskFault, ShortList, ReadFault
<1> QED
  BY <1>2, <1>3

LEMMA NothingSeen ==
    ASSUME UInv, KInv', UNCHANGED kernelVars
    PROVE  UInv' /\ [Contract!Next]_(Contract!vars)
<1>1. UNCHANGED vars /\ db' = db /\ cache' = cache /\ task' = task
  BY DEF kernelVars, vars
<1>2. Running' = Running /\ (\A r : DbOf(r)' = DbOf(r)) /\ UNCHANGED Asked
  BY <1>1 DEF Running, DbOf, Asked
<1>3. \A r \in Ids : Saved(r)' = Saved(r)
  BY <1>2 DEF Saved
<1>4. CachesFit' /\ ListsFit' /\ LoadFit'
  BY <1>1, <1>2 DEF UInv, CachesFit, ListsFit, LoadFit
<1> QED
  BY <1>1, <1>2, <1>3, <1>4, Unseen

LEMMA UStep ==
    UInv /\ [KernelNext]_kernelVars => UInv' /\ [Contract!Next]_(Contract!vars)
<1> SUFFICES ASSUME UInv, [KernelNext]_kernelVars
             PROVE  UInv' /\ [Contract!Next]_(Contract!vars)
  OBVIOUS
<1> DEFINE Goal == UInv' /\ [Contract!Next]_(Contract!vars)
<1>0. KInv'
  BY NextKeepsKInv DEF UInv
<1>1. ASSUME NEW raw \in RawNames, NewRoom(raw) PROVE Goal
  BY <1>0, <1>1, RoomComes
<1>2. ASSUME NEW r \in DOMAIN rooms, UnloadRoom(r) \/ DeleteRoom(r) PROVE Goal
  BY <1>0, <1>2, RoomUnloads, RoomGoes
<1>3. ASSUME NEW t \in Tasks, NEW r \in DOMAIN rooms, NEW b \in BucketIds,
             DeleteBucket(t, r, b) PROVE Goal
  BY <1>0, <1>3, BucketGoes
<1>4. ASSUME NEW t \in Tasks, NEW r \in DOMAIN rooms, NEW b \in BucketIds,
             NEW raw \in RawNames, NewBucket(t, r, b, raw) PROVE Goal
  BY <1>0, <1>4, BucketComes
<1>5. ASSUME NEW t \in Tasks, NEW r \in DOMAIN rooms, NEW raw \in RawNames,
             NewMember(t, r, raw) \/ DeleteMember(t, r, raw) PROVE Goal
  BY <1>0, <1>5, MemberComes, MemberGoes
<1>6. ASSUME NEW t \in Tasks, NEW r \in DOMAIN rooms, NEW s \in Slots,
             NEW v \in Values \cup {Null}, StartWrite(t, r, s, v) PROVE Goal
  BY <1>0, <1>6, WriteBegins
<1>7. ASSUME NEW t \in Tasks, NEW r \in Ids, StartLoad(t, r) PROVE Goal
  BY <1>0, <1>7, LoadStartUnseen
<1>8. ASSUME NEW t \in Tasks, PutRecord(t) \/ PutList(t) \/ UpdateCache(t) \/ PutMembers(t)
      PROVE  Goal
  BY <1>0, <1>8, RecordPutUnseen, ListPutUnseen, CacheUpdateUnseen, MembersPutUnseen
<1>9. ASSUME NEW t \in Tasks,
             ApplyWrite(t) \/ PutFragment(t) \/ ReadCounter(t) \/ BroadcastWrite(t)
      PROVE  Goal
  BY <1>0, <1>9, WriteTakesEffect, FragmentPutUnseen, CounterReadUnseen, BroadcastUnseen
<1>10. ASSUME NEW t \in Tasks, LoadList(t) \/ LoadRecords(t) \/ LoadCache(t) PROVE Goal
  BY <1>0, <1>10, ListReadUnseen, RecordsReadUnseen, CacheLoadedUnseen
<1>11. ASSUME NEW t \in Tasks, LoadMembers(t) \/ LoadFragments(t) \/ Install(t) PROVE Goal
  BY <1>0, <1>11, MembersReadUnseen, FragmentsReadUnseen, LoadTakesEffect
<1>12. ASSUME NEW r \in DOMAIN cache, Evict(r) PROVE Goal
  BY <1>0, <1>12, EvictUnseen
<1>13. CASE UNCHANGED kernelVars
  BY <1>0, <1>13, NothingSeen
<1> HIDE DEF Goal
<1>14. AtOnce => Goal
  BY <1>1, <1>2 DEF AtOnce
<1>15. Started => Goal
  BY <1>3, <1>4, <1>5, <1>6, <1>7 DEF Started
<1>16. ASSUME NEW t \in Tasks, Step(t) PROVE Goal
  BY <1>8, <1>9, <1>10, <1>11, <1>16 DEF Step
<1>17. Trouble => Goal
  BY <1>12, NoTrouble DEF Trouble
<1> QED
  BY <1>13, <1>14, <1>15, <1>16, <1>17 DEF KernelNext, Goal

LEMMA InitUInv == KernelInit => UInv /\ Contract!Init
<1> SUFFICES ASSUME KernelInit PROVE UInv /\ Contract!Init
  OBVIOUS
<1>1. /\ rooms = << >> /\ labels = << >> /\ next_room_id = 1 /\ db = << >> /\ cache = << >>
      /\ task = [t \in Tasks |-> Idle]
  BY DEF KernelInit, Init
<1>2. Running = Idle /\ Running.pc = "idle"
  BY <1>1, OneTask DEF Running, Idle
<1>3. /\ DOMAIN rooms = {} /\ DOMAIN cache = {} /\ \A r : DbOf(r) = EmptyDb
  BY <1>1 DEF DbOf
<1>4. UInv
  <2>1. \A r : ListFits(Running, r, EmptyDb)
    BY DEF ListFits, EmptyDb
  <2>2. OwnerFits /\ LoadFit
    BY <1>2 DEF OwnerFits, LoadFit, LoadFits, Owning
  <2> QED
    BY <1>3, <2>1, <2>2, InitKInv DEF UInv, RoomsFit, CachesFit, ListsFit
<1>5. Asked = None
  BY <1>2, AskedIs
<1>6. Seen = << >>
  <2>1. Seen = [r \in {} |-> Seen[r]]
    BY <1>3 DEF Seen
  <2> QED
    BY <2>1
<1>7. Told = [r \in Ids |-> Blank]
  <2> SUFFICES ASSUME NEW r \in Ids PROVE Told[r] = Blank
    BY DEF Told
  <2>1. \A pcs \in {{"fragment"}, {"record"}, {"members"}} : ~At(Running, pcs, r)
    BY <1>2 DEF At
  <2>2. /\ Saved(r).shown = EmptyDb.fragments /\ Saved(r).records = EmptyDb.records
        /\ Saved(r).members = EmptyDb.members
    BY <1>3, <2>1, AfterIs DEF Saved
  <2>3. LabelsOf(EmptyDb.records) = << >>
    <3>1. DOMAIN EmptyDb.records = {}
      BY DEF EmptyDb
    <3>2. LabelsOf(EmptyDb.records) = [b \in {} |-> LabelsOf(EmptyDb.records)[b]]
      BY <3>1 DEF LabelsOf
    <3> QED
      BY <3>2
  <2>4. SavedData(Saved(r)) = Blank
    BY <2>2, <2>3 DEF SavedData, Data, Blank, EmptyDb
  <2> QED
    BY <1>4, <2>4, ToldIs
<1>8. Contract!Init <=> /\ next_room_id = 1 /\ labels = << >> /\ Seen = << >>
                        /\ Told = [r \in Ids |-> Blank] /\ Asked = None
  BY Zenon DEF Contract!Init, Contract!Blank, Contract!Places, Blank, Slots, Seen, Told
<1> QED
  BY <1>1, <1>4, <1>5, <1>6, <1>7, <1>8

LEMMA UInvAlways == KernelSpec => []UInv
<1>1. KernelInit => UInv
  BY InitUInv
<1>2. UInv /\ [KernelNext]_kernelVars => UInv'
  BY UStep
<1> QED
  BY <1>1, <1>2, PTL DEF KernelSpec
-----------------------------------------------------------------------------
(* While nothing runs, what is saved is what is on disk.                    *)
LEMMA QuietSaved ==
    ASSUME Quiet
    PROVE  /\ Running.pc = "idle"
           /\ \A r : /\ Saved(r).shown = DbOf(r).fragments
                     /\ Saved(r).records = DbOf(r).records
                     /\ Saved(r).members = DbOf(r).members
<1>1. Running.pc = "idle"
  BY OneTask DEF Quiet, Running
<1> QED
  BY <1>1, AfterIs DEF Saved, At

(* load_buckets never hands out stale bucket records: between commands, a   *)
(* room in the LRU cache has exactly the records its database has, and the  *)
(* list of bucket ids under "/room/<id>/buckets" names exactly those,       *)
(* although record, list and cache are written one after the other.         *)
THEOREM CacheStaysCurrent == KernelSpec => []CacheIsCurrent
<1>1. UInv => CacheIsCurrent
  <2> SUFFICES ASSUME UInv, Quiet PROVE
         /\ \A r \in DOMAIN cache : cache[r] = db[r].records
         /\ \A r \in DOMAIN db : db[r].list # Absent => db[r].list = DOMAIN db[r].records
    BY DEF CacheIsCurrent
  <2>1. Running.pc = "idle"
    BY QuietSaved
  <2>2. \A r \in DOMAIN db : r \in Ids /\ DbOf(r) = db[r]
    BY DEF UInv, KInv, DiskOK, DbOf
  <2>3. ASSUME NEW r \in DOMAIN cache PROVE cache[r] = db[r].records
    <3>1. r \in DOMAIN db
      BY DEF UInv, KInv, DiskOK
    <3> QED
      BY <2>1, <2>2, <3>1 DEF UInv, CachesFit, CacheFits, At
  <2>4. ASSUME NEW r \in DOMAIN db, db[r].list # Absent
        PROVE  db[r].list = DOMAIN db[r].records
    BY <2>1, <2>2, <2>4 DEF UInv, ListsFit, ListFits, At
  <2> QED
    BY <2>3, <2>4
<1> QED
  BY <1>1, UInvAlways, PTL

(* Between commands the memory of a loaded room agrees with its database:   *)
(* NewBucket, NewMember, WriteFragment and their opposites change memory    *)
(* first and the keys on disk one by one, LoadRoom goes the other way, and  *)
(* unloads and deletions come between.                                      *)
THEOREM MemoryFitsDisk == KernelSpec => []MemoryMatchesDisk
<1>1. UInv => MemoryMatchesDisk
  <2> SUFFICES ASSUME UInv, Quiet, NEW r \in DOMAIN rooms \cap DOMAIN db, rooms[r].loaded
               PROVE  /\ rooms[r].members = db[r].members
                      /\ \A s \in Slots : rooms[r].entries[s] # Absent =>
                            db[r].fragments[s] = Stored(rooms[r].entries[s].value)
                      /\ \A b \in DOMAIN db[r].records :
                            /\ b \in rooms[r].buckets
                            /\ db[r].records[b].label \in {Absent, rooms[r].bucket_labels[b]}
    BY DEF MemoryMatchesDisk
  <2>1. Fits(rooms[r], Saved(r))
    BY DEF UInv, RoomsFit
  <2>2. /\ Saved(r).shown = db[r].fragments /\ Saved(r).records = db[r].records
        /\ Saved(r).members = db[r].members
    BY QuietSaved DEF DbOf
  <2> QED
    BY <2>1, <2>2 DEF Fits
<1> QED
  BY <1>1, UInvAlways, PTL

\* What ReadFragment answers for a room that is loaded.
LEMMA ReadIs ==
    ASSUME KInv, NEW r \in DOMAIN rooms, NEW s \in Slots
    PROVE  read_fragment(r, s) = IF rooms[r].loaded THEN <<"ok", LiveValue(rooms[r], s)>>
                                 ELSE <<"failed_precondition", Absent>>
<1>1. rooms[r].entries[s] # Absent => s[1] \in rooms[r].buckets
  <2>1. RoomBucketsOK(rooms[r])
    BY DEF KInv, MemoryOK, IInv, RoomOK
  <2>2. s[1] \in BucketIds /\ s[2] \in Keys /\ s = <<s[1], s[2]>>
    BY DEF Slots
  <2>3. s[1] \notin rooms[r].buckets => rooms[r].entries[<<s[1], s[2]>>] = Absent
    BY <2>1, <2>2 DEF RoomBucketsOK
  <2> QED
    BY <2>2, <2>3
<1> DEFINE error == get_fragment_error(r, s)
<1>2. CASE ~rooms[r].loaded
  <2>1. error = "room_not_loaded"
    BY <1>2 DEF get_fragment_error
  <2>2. ReadFragment(r, s) = <<"room_not_loaded", Absent>>
    BY <2>1 DEF ReadFragment
  <2> QED
    BY <1>2, <2>2 DEF read_fragment, map_room_error
<1>3. CASE rooms[r].loaded
  <2>1. LiveValue(rooms[r], s) # Absent \/ LiveValue(rooms[r], s) = Absent
    OBVIOUS
  <2>2. error # "room_not_loaded" /\ error # "room_not_found"
    BY <1>3 DEF get_fragment_error
  <2>3. error = "ok" <=> rooms[r].entries[s] # Absent /\ rooms[r].entries[s].value # Null
    BY <1>1, <1>3 DEF get_fragment_error
  <2>4. ReadFragment(r, s) = <<"ok", LiveValue(rooms[r], s)>>
    <3> HIDE DEF error
    <3>1. ReadFragment(r, s) = IF error = "ok" THEN <<"ok", rooms[r].entries[s].value>>
                               ELSE <<"ok", Absent>>
      BY <2>2 DEF ReadFragment, error
    <3> QED
      BY <2>3, <3>1 DEF LiveValue
  <2> QED
    BY <1>3, <2>4 DEF read_fragment, map_room_error
<1> QED
  BY <1>2, <1>3

(* ReadFragment never goes back to an older value: what memory shows of a   *)
(* key agrees with the disk, and the disk has the last write that was       *)
(* answered.                                                                *)
THEOREM FreshReads == KernelSpec => []ReadsAreNotStale
<1>1. UInv => ReadsAreNotStale
  <2> SUFFICES ASSUME UInv, Quiet, NEW r \in Ids, NEW s \in Slots,
                      acked[<<r, s>>] # Unknown, Loaded(r)
               PROVE  read_fragment(r, s) \in
                         {<<"ok", Stored(acked[<<r, s>>])>>, <<"ok", Absent>>}
    BY DEF ReadsAreNotStale
  <2> DEFINE room == rooms[r]
  <2>1. r \in DOMAIN rooms /\ room.loaded
    BY DEF Loaded
  <2>2. read_fragment(r, s) = <<"ok", LiveValue(room, s)>>
    BY <2>1, ReadIs DEF UInv
  <2>3. Stored(acked[<<r, s>>]) = DbOf(r).fragments[s]
    BY DEF UInv, KInv, AckedWritesAreDurable
  <2>4. room.entries[s] # Absent => DbOf(r).fragments[s] = Stored(room.entries[s].value)
    <3>1. Fits(room, Saved(r)) /\ Saved(r).shown = DbOf(r).fragments
      BY <2>1, QuietSaved DEF UInv, RoomsFit
    <3> QED
      BY <3>1 DEF Fits
  <2>5. LiveValue(room, s) \in {Absent, Stored(acked[<<r, s>>])}
    <3> HIDE DEF room
    <3> QED
      BY <2>3, <2>4 DEF LiveValue, Stored
  <2> QED
    BY <2>2, <2>5
<1> QED
  BY <1>1, UInvAlways, PTL

\* What callers see of a room's data, and of a room that is missing.
SeenData(r) == Contract!DataOf(r)

LEMMA SeenDataIs ==
    ASSUME NEW r \in Ids
    PROVE  /\ r \in DOMAIN rooms =>
                 /\ SeenData(r).members = rooms[r].members
                 /\ SeenData(r).buckets = Labelled(rooms[r])
                 /\ SeenData(r).shown = Shown(rooms[r])
           /\ r \notin DOMAIN rooms =>
                 /\ SeenData(r).members = {} /\ SeenData(r).buckets = << >>
                 /\ \A s \in Slots : SeenData(r).shown[s] = Absent
<1>1. SeenData(r) = IF r \in DOMAIN Seen THEN Seen[r].data ELSE Blank
  BY Zenon DEF SeenData, Contract!DataOf, Contract!Blank, Contract!Places, Blank, Slots, Seen
<1>2. DOMAIN Seen = DOMAIN rooms
  BY DEF Seen
<1>3. r \in DOMAIN rooms => SeenData(r) = DataOf(rooms[r])
  BY <1>1, <1>2, SeenIs
<1>4. r \notin DOMAIN rooms => SeenData(r) = Blank
  BY <1>1, <1>2
<1> QED
  BY <1>3, <1>4 DEF DataOf, Data, Blank

LEMMA StatesSeen ==
    ASSUME NEW r \in Ids
    PROVE  /\ Contract!Awake(r) <=> Loaded(r)
           /\ Contract!Asleep(r) <=> r \in DOMAIN rooms /\ ~rooms[r].loaded
<1>1. DOMAIN Seen = DOMAIN rooms
  BY DEF Seen
<1>2. Contract!Awake(r) <=> r \in DOMAIN Seen /\ Seen[r].loaded
  BY Zenon DEF Contract!Awake, Seen
<1>3. Contract!Asleep(r) <=> r \in DOMAIN Seen /\ ~Seen[r].loaded
  BY Zenon DEF Contract!Asleep, Seen
<1> QED
  BY <1>1, <1>2, <1>3, SeenIs DEF Loaded

(* Each call is answered as the contract says: the kernel's error names     *)
(* and what grpc.rs makes of them, with tests for a missing room here and   *)
(* for a loaded one there, come to one answer per state callers can see.    *)
THEOREM PromisesKept == KernelSpec => []AnswersAsPromised
<1>1. UInv => AnswersAsPromised
  <2> SUFFICES ASSUME UInv PROVE AnswersAsPromised
    OBVIOUS
  <2>0. KInv
    BY DEF UInv
  <2>1. ASSUME NEW r \in DOMAIN rooms PROVE list_rooms[r] = Contract!NamesOf(r)
    BY DEF list_rooms, Contract!NamesOf
  <2>2. ASSUME NEW r \in Ids PROVE list_members(r) = Contract!DataOf(r).members
    <3>1. r \in DOMAIN rooms /\ ~rooms[r].loaded => rooms[r].members = {}
      BY <2>0 DEF KInv, MemoryOK, Plain
    <3> QED
      BY <3>1, SeenDataIs DEF SeenData, list_members, Loaded
  <2>3. ASSUME NEW r \in Ids PROVE list_buckets(r) = Contract!DataOf(r).buckets
    BY SeenDataIs DEF SeenData, list_buckets, Labelled
  <2>4. ASSUME NEW r \in Ids, NEW s \in Slots
        PROVE  read_fragment(r, s) = Contract!ReadAnswer(r, s)
    <3>1. Contract!ReadAnswer(r, s) = IF r \in DOMAIN rooms /\ ~rooms[r].loaded
                                      THEN <<"failed_precondition", Absent>>
                                      ELSE <<"ok", SeenData(r).shown[s]>>
      BY StatesSeen, Zenon DEF Contract!ReadAnswer, SeenData
    <3>2. CASE r \in DOMAIN rooms
      <4>1. SeenData(r).shown[s] = LiveValue(rooms[r], s)
        BY <3>2, SeenDataIs DEF Shown
      <4> QED
        BY <2>0, <3>1, <3>2, <4>1, ReadIs
    <3>3. CASE r \notin DOMAIN rooms
      <4>1. ReadFragment(r, s) = <<"ok", Absent>>
        <5>1. get_fragment_error(r, s) = "room_not_found"
          BY <3>3 DEF get_fragment_error
        <5> QED
          BY <5>1 DEF ReadFragment
      <4>2. read_fragment(r, s) = <<"ok", Absent>>
        BY <4>1 DEF read_fragment, map_room_error
      <4> QED
        BY <3>1, <3>3, <4>2, SeenDataIs
    <3> QED
      BY <3>2, <3>3
  <2>5. ASSUME NEW r \in Ids
        PROVE  /\ new_bucket_status(r) = Contract!ChangeStatus(r)
               /\ write_fragment_status(r) = Contract!WriteStatus(r)
    <3>1. new_bucket_status(r) = IF r \in DOMAIN rooms /\ ~rooms[r].loaded
                                 THEN "failed_precondition" ELSE "ok"
      BY DEF new_bucket_status, map_room_error, edit_error
    <3>2. write_fragment_status(r) = IF Loaded(r) THEN "ok" ELSE "failed_precondition"
      BY DEF write_fragment_status, map_room_error, write_error
    <3>3. /\ Contract!ChangeStatus(r) = IF r \in DOMAIN rooms /\ ~rooms[r].loaded
                                        THEN "failed_precondition" ELSE "ok"
          /\ Contract!WriteStatus(r) = IF Loaded(r) THEN "ok" ELSE "failed_precondition"
      BY StatesSeen, Zenon DEF Contract!ChangeStatus, Contract!WriteStatus
    <3> QED
      BY <3>1, <3>2, <3>3
  <2>6. ASSUME NEW r \in Ids
        PROVE  /\ load_room_status(r) = Contract!LoadStatus(r)
               /\ unload_room_status(r) = Contract!DropStatus(r)
               /\ delete_room_status(r) = Contract!DropStatus(r)
    <3>1. /\ load_room_status(r) = IF r \in DOMAIN rooms THEN "ok" ELSE "failed_precondition"
          /\ unload_room_status(r) = IF r \in DOMAIN rooms THEN "ok" ELSE "not_found"
          /\ delete_room_status(r) = IF r \in DOMAIN rooms THEN "ok" ELSE "not_found"
      BY DEF load_room_status, unload_room_status, delete_room_status, AnyError, room_error
    <3>2. DOMAIN Seen = DOMAIN rooms
      BY DEF Seen
    <3>3. /\ Contract!LoadStatus(r) = IF r \in DOMAIN Seen THEN "ok" ELSE "failed_precondition"
          /\ Contract!DropStatus(r) = IF r \in DOMAIN Seen THEN "ok" ELSE "not_found"
      BY Zenon DEF Contract!LoadStatus, Contract!DropStatus, Seen
    <3> QED
      BY <3>1, <3>2, <3>3
  <2>7. ASSUME NEW r \in Ids, NEW raw \in RawNames, NEW granted \in SUBSET BucketIds
        PROVE  issue_jwt(r, raw, granted) = Contract!TokenStatus(r, Trim[raw], granted)
    <3> DEFINE error == create_room_token_error(r, raw, granted)
               refused == \/ Trim[raw] = Empty \/ Trim[raw] \notin rooms[r].members
                          \/ ServerOnlyBucket \in granted
    <3>1. issue_jwt(r, raw, granted) = IF r \notin DOMAIN rooms THEN "not_found"
                                       ELSE IF refused THEN "invalid_argument" ELSE "ok"
      <4>1. CASE r \notin DOMAIN rooms
        <5>1. error = "room_not_found"
          BY <4>1 DEF create_room_token_error
        <5> QED
          BY <4>1, <5>1 DEF issue_jwt, jwt_error
      <4>2. CASE r \in DOMAIN rooms /\ refused
        <5>1. error \in {"invalid_member", "reserved_bucket_id"}
          BY <4>2 DEF create_room_token_error
        <5> QED
          BY <4>2, <5>1 DEF issue_jwt, jwt_error
      <4>3. CASE r \in DOMAIN rooms /\ ~refused
        <5>1. error = "ok"
          BY <4>3 DEF create_room_token_error
        <5> QED
          BY <4>3, <5>1 DEF issue_jwt, jwt_error
      <4> QED
        BY <4>1, <4>2, <4>3
    <3>2. Contract!TokenStatus(r, Trim[raw], granted) =
             IF r \notin DOMAIN Seen THEN "not_found"
             ELSE IF \/ Trim[raw] = Empty \/ Trim[raw] \notin Seen[r].data.members
                     \/ ServerOnlyBucket \in granted
             THEN "invalid_argument" ELSE "ok"
      BY Zenon DEF Contract!TokenStatus, Seen
    <3>3. DOMAIN Seen = DOMAIN rooms /\ (r \in DOMAIN rooms => Seen[r].data.members = rooms[r].members)
      <4>1. r \in DOMAIN rooms => Seen[r].data.members = rooms[r].members
        <5>1. r \in DOMAIN rooms => Seen[r].data = DataOf(rooms[r])
          BY SeenIs
        <5>2. DataOf(rooms[r]).members = rooms[r].members
          BY DEF DataOf, Data
        <5> QED
          BY <5>1, <5>2
      <4> QED
        BY <4>1 DEF Seen
    <3> QED
      BY <3>1, <3>2, <3>3
  <2> QED
    BY <2>1, <2>2, <2>3, <2>4, <2>5, <2>6, <2>7 DEF AnswersAsPromised
<1> QED
  BY <1>1, UInvAlways, PTL

(* The interface keeps its contract: read through ServiceSpec's mapping,    *)
(* every run of the kernel under it is a run of Service, in which a command *)
(* takes effect at one moment, in memory and on disk alike.                 *)
THEOREM ImplementsService == KernelSpec => ServiceSpec
<1>1. KernelInit => UInv /\ Contract!Init
  BY InitUInv
<1>2. UInv /\ [KernelNext]_kernelVars => UInv' /\ [Contract!Next]_(Contract!vars)
  BY UStep
<1> QED
  BY <1>1, <1>2, PTL DEF KernelSpec, ServiceSpec, Contract!Spec

(* What io_locked was meant to ensure, and concurrent commands break (the   *)
(* run kernel_load): when LoadRoom is the only command of several steps,    *)
(* what it has read is still on disk when it puts it into memory, although  *)
(* rooms may be created, unloaded and deleted while it reads.               *)
THEOREM LoneLoadsAreExclusive == KernelSpec => []LoadIsExclusive
<1>1. UInv => LoadIsExclusive
  <2> SUFFICES ASSUME UInv, NEW t \in Tasks, task[t].pc = "install"
               PROVE  /\ task[t].local.fragments = DbOf(task[t].cmd.room).fragments
                      /\ task[t].local.members = DbOf(task[t].cmd.room).members
    BY DEF LoadIsExclusive
  <2>1. task[t] = Running
    BY OneTask DEF Running
  <2> QED
    BY <2>1 DEF UInv, LoadFit, LoadFits
<1> QED
  BY <1>1, UInvAlways, PTL
=============================================================================
