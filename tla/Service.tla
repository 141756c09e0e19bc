------------------------------- MODULE Service -------------------------------
(***************************************************************************)
(* What the gRPC interface promises, as long as the server runs and its    *)
(* disk works, when commands on the data of rooms and loads come one at a  *)
(* time, while others read and create, unload and delete rooms: every      *)
(* command takes effect at one moment between request and answer, on what  *)
(* callers see of a room and on what is saved of it together.  No cache,   *)
(* locks, lists of ids or database keys.                                   *)
(*                                                                         *)
(* What is saved is what LoadRoom brings back: deleting a bucket does not  *)
(* delete its saved values, deleting a room deletes nothing that is saved, *)
(* and a bucket that exists only because a value was written to it is not  *)
(* saved.  A write that the unloading or deletion of its room overtakes is *)
(* saved but not seen.  Upstream implements this module                    *)
(* (Upstream!ServiceSpec).                                                 *)
(***************************************************************************)
EXTENDS Naturals

CONSTANTS
    Rooms,      \* the ids rooms may get, 1, 2, ...
    Buckets, Keys, Values,
    Nothing,    \* no value, no label, no data
    Names,      \* members and labels as callers pass them, already trimmed
    GoodNames,  \* the ones a room may be named
    NoName,     \* the empty name
    Reserved,   \* the bucket nobody may be granted
    None        \* no write is waiting

Places == Buckets \X Keys

VARIABLES
    next,    \* the id of the next room
    names,   \* name -> room
    rooms,   \* room -> whether it is loaded, and its data if so
    saved,   \* room -> its saved data
    asked    \* the write that was accepted and has yet to take effect

vars == <<next, names, rooms, saved, asked>>

Blank == [shown |-> [p \in Places |-> Nothing], buckets |-> << >>, members |-> {}]

Init ==
    /\ next = 1
    /\ names = << >>
    /\ rooms = << >>
    /\ saved = [r \in Rooms |-> Blank]
    /\ asked = None

-----------------------------------------------------------------------------
Minus(f, S) == [x \in DOMAIN f \ S |-> f[x]]
Plus(f, x, y) == [z \in DOMAIN f \cup {x} |-> IF z = x THEN y ELSE f[z]]

NewRoom(n) ==
    /\ next \in Rooms
    /\ next' = next + 1
    /\ rooms' = Plus(rooms, next, [loaded |-> TRUE, data |-> Blank])
    /\ names' = IF n \in GoodNames \ DOMAIN names THEN Plus(names, n, next) ELSE names
    /\ UNCHANGED <<saved, asked>>

DeleteRoom(r) ==
    /\ r \in DOMAIN rooms
    /\ rooms' = Minus(rooms, {r})
    /\ names' = Minus(names, {n \in DOMAIN names : names[n] = r})
    /\ UNCHANGED <<next, saved, asked>>

UnloadRoom(r) ==
    /\ r \in DOMAIN rooms
    /\ rooms' = [rooms EXCEPT ![r] = [loaded |-> FALSE, data |-> Blank]]
    /\ UNCHANGED <<next, names, saved, asked>>

\* Saved values of buckets that are not saved stay out.
LoadRoom(r) ==
    /\ r \in DOMAIN rooms
    /\ rooms' = [rooms EXCEPT ![r] = [loaded |-> TRUE, data |->
           [saved[r] EXCEPT !.shown = [p \in Places |->
               IF p[1] \in DOMAIN saved[r].buckets THEN @[p] ELSE Nothing]]]]
    /\ UNCHANGED <<next, names, saved, asked>>

-----------------------------------------------------------------------------
Awake(r) == r \in DOMAIN rooms /\ rooms[r].loaded

\* A command on the data of a loaded room: what is seen and what is saved.
Change(r, seen, kept) ==
    /\ asked = None
    /\ Awake(r)
    /\ rooms' = [rooms EXCEPT ![r].data = seen]
    /\ saved' = [saved EXCEPT ![r] = kept]
    /\ UNCHANGED <<next, names, asked>>

Given(label) == IF label = NoName THEN Nothing ELSE label

\* Without a label a bucket that exists keeps the one seen, not the one saved.
NewBucket(r, b, label) ==
    LET data == rooms[r].data
        shown == IF Given(label) = Nothing /\ b \in DOMAIN data.buckets
                 THEN data.buckets[b] ELSE Given(label)
    IN  Change(r,
               [data EXCEPT !.buckets = Plus(@, b, shown)],
               [saved[r] EXCEPT !.buckets = Plus(@, b, Given(label))])

DeleteBucket(r, b) ==
    Change(r,
           [rooms[r].data EXCEPT
               !.buckets = Minus(@, {b}),
               !.shown = [p \in Places |-> IF p[1] = b THEN Nothing ELSE @[p]]],
           [saved[r] EXCEPT !.buckets = Minus(@, {b})])

NewMember(r, n) ==
    Change(r, [rooms[r].data EXCEPT !.members = @ \cup ({n} \ {NoName})],
           [saved[r] EXCEPT !.members = @ \cup ({n} \ {NoName})])

DeleteMember(r, n) ==
    Change(r, [rooms[r].data EXCEPT !.members = @ \ {n}],
           [saved[r] EXCEPT !.members = @ \ {n}])

AcceptWrite(r, p, v) ==
    /\ asked = None
    /\ Awake(r)
    /\ asked' = [room |-> r, place |-> p, value |-> v]
    /\ UNCHANGED <<next, names, rooms, saved>>

\* Writing Nothing deletes; either way the bucket exists afterwards.
Written(data, p, v) ==
    [data EXCEPT !.shown = [@ EXCEPT ![p] = v],
                 !.buckets = IF p[1] \in DOMAIN @ THEN @ ELSE Plus(@, p[1], Nothing)]

WriteFragment ==
    /\ asked # None
    /\ LET r == asked.room
           p == asked.place
       IN  /\ saved' = [saved EXCEPT ![r].shown = [@ EXCEPT ![p] = asked.value]]
           /\ rooms' = IF Awake(r)
                       THEN [rooms EXCEPT ![r].data = Written(@, p, asked.value)]
                       ELSE rooms
    /\ asked' = None
    /\ UNCHANGED <<next, names>>

-----------------------------------------------------------------------------
(* What requests are answered, from what callers see.                       *)

Asleep(r) == r \in DOMAIN rooms /\ ~rooms[r].loaded
DataOf(r) == IF r \in DOMAIN rooms THEN rooms[r].data ELSE Blank

NamesOf(r) == {n \in DOMAIN names : names[n] = r}

\* Only reading the data of a room that is not loaded is refused.
ReadAnswer(r, p) ==
    IF Asleep(r) THEN <<"failed_precondition", Nothing>> ELSE <<"ok", DataOf(r).shown[p]>>

\* Commands on buckets and members of a missing room are answered like others.
ChangeStatus(r) == IF Asleep(r) THEN "failed_precondition" ELSE "ok"

WriteStatus(r) == IF Awake(r) THEN "ok" ELSE "failed_precondition"

LoadStatus(r) == IF r \in DOMAIN rooms THEN "ok" ELSE "failed_precondition"

\* UnloadRoom and DeleteRoom.
DropStatus(r) == IF r \in DOMAIN rooms THEN "ok" ELSE "not_found"

TokenStatus(r, n, granted) ==
    IF r \notin DOMAIN rooms THEN "not_found"
    ELSE IF n = NoName \/ n \notin rooms[r].data.members \/ Reserved \in granted
    THEN "invalid_argument" ELSE "ok"

-----------------------------------------------------------------------------
Next ==
    \/ \E n \in Names : NewRoom(n)
    \/ \E r \in Rooms :
          \/ DeleteRoom(r) \/ UnloadRoom(r) \/ LoadRoom(r)
          \/ \E b \in Buckets : DeleteBucket(r, b)
          \/ \E b \in Buckets, n \in Names : NewBucket(r, b, n)
          \/ \E n \in Names : NewMember(r, n) \/ DeleteMember(r, n)
          \/ \E p \in Places, v \in Values \cup {Nothing} : AcceptWrite(r, p, v)
    \/ WriteFragment

Spec == Init /\ [][Next]_vars
=============================================================================
