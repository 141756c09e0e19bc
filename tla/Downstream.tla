------------------------------ MODULE Downstream ------------------------------
(***************************************************************************)
(* The websocket side of one server (sp-downstream) together with the two  *)
(* tasks of the kernel it talks to (sp-kernel/src/kernel.rs):              *)
(*                                                                         *)
(*  - one task per connection: handshake, registration in the hub, the     *)
(*    select! loop, cleanup (connection.rs);                               *)
(*  - the hub: connections, the bucket index, one tokio Mutex (hub.rs);    *)
(*  - the forwarder task, from the notification channel to the queues of   *)
(*    the registered clients (hub.rs run_forwarder);                       *)
(*  - the kernel's downstream message processor, which sends the initial   *)
(*    sync of a client (kernel.rs);                                        *)
(*  - the store these tasks read: rooms loaded, unloaded and deleted,      *)
(*    buckets deleted, and writers.  WriteFragment checks that the room is *)
(*    loaded, then writes under a lock of its own, then broadcasts the     *)
(*    value whether or not it was stored.                                  *)
(*                                                                         *)
(* Every bucket of a room holds one key.  A value is identified by the     *)
(* number of the WriteFragment that brought it, counted in the order these *)
(* commands get the state lock; 0 is a value LoadRoom restored.  Nothing   *)
(* of the code depends on the number.  The bucket_counter of a DataUpdate  *)
(* (the key's version in a sync, the room's counter, read again, in a      *)
(* broadcast) is left out: clients of this module do not look at it, and   *)
(* module Kernel has it.  A DataUpdate in the code does not carry its room *)
(* either; `room` and `value` of an update are only read by properties.    *)
(*                                                                         *)
(* The steps that hold the hub lock without waiting for anything are one   *)
(* action; hub_lock is held across actions only where the code awaits      *)
(* under it.                                                               *)
(***************************************************************************)
EXTENDS Naturals, Sequences, FiniteSets

CONSTANTS
    Conns,           \* accepted sockets, one task each
    Writers,         \* WriteFragment commands in flight at a time
    Rooms,
    BucketIds,       \* of the buckets that are granted or hold data
    PublicBucket,    \* bucket 0
    ReservedBucket,  \* reserved_bucket_id
    ClaimedRoom,     \* room_id claim of each connection's token, NoRoom if unusable
    ClaimedBuckets,  \* buckets claim of each connection's token
    NoRoom, Free, None,
    MaxClientsPerBucket,  \* MAX_WS_CLIENTS_PER_BUCKET
    QueueCap,             \* MAX_WS_PENDING_MESSAGES
    NotifyCap,            \* capacity of the notification channel
    DownCap,              \* capacity of the downstream channel
    MaxConnId,            \* u64::MAX, where connection ids saturate
    MaxWrites,            \* bound: no write begins after this many
    MaxChanges,           \* bound: rooms loaded or unloaded and buckets deleted
    MaxCommands           \* bound: client commands

ASSUME DownstreamAssumption ==
    /\ PublicBucket \in BucketIds
    /\ PublicBucket # ReservedBucket
    /\ ClaimedRoom \in [Conns -> Rooms \cup {NoRoom}]
    /\ ClaimedBuckets \in [Conns -> SUBSET BucketIds]
    /\ NoRoom \notin Rooms
    /\ Free \notin Conns
    /\ \A n \in {MaxClientsPerBucket, QueueCap, NotifyCap, DownCap,
                 MaxConnId, MaxWrites, MaxChanges, MaxCommands} : n \in Nat
    /\ IsFiniteSet(Conns)
    /\ Cardinality(Conns) < MaxConnId   \* fewer than 2^64 connections ever

ConnIds == Nat \ {0}
Slots == Rooms \X BucketIds
Update == [room : Rooms, bucket : BucketIds, value : Nat]

\* UpdateChannelMessage: Broadcast(update), or Targeted { conn_id, update }.
Notification == [to : ConnIds \cup {None}, update : Update]
ASSUME NoneAssumption ==
    None \notin Nat /\ None \notin Update /\ None \notin Notification /\ None \notin Slots

\* DownstreamMessage; a WsMessage is only logged by the kernel.
DownstreamMessage ==
    [type : {"connected", "disconnected", "message"}, id : ConnIds,
     buckets : SUBSET BucketIds]

VARIABLES
    writes,         \* WriteFragment commands that got as far as set_fragment
    loaded,         \* rooms whose data is in memory; an unloaded room that is
                    \* never loaded again may as well have been deleted
    stored,         \* room, bucket -> the value in memory, None if there is no
                    \* entry or a null one
    changes,        \* how often entries have been replaced or removed
    checked,        \* writer -> the slot whose room it has found loaded, or None
    writing,        \* writer -> the update it has yet to broadcast, or None
    connections,    \* hub: conn id -> [room, buckets, task]
    index,          \* hub: bucket -> conn ids
    next_conn_id,
    hub_lock,       \* the task holding the hub lock across an await, or Free
    pc, conn_id,    \* per connection task
    queue,          \* per connection task: its channel of pending updates
    commands,       \* client commands so far
    seen,           \* per connection task: the updates written to its socket, in order
    notifications,  \* the notification channel
    forwarding,     \* the message the forwarder has taken, or None
    downstream,     \* the downstream channel
    kernel,         \* the message processor: [pc, id, buckets, room, updates]
    lost,           \* updates whose broadcast try_send threw away, the channel
                    \* being full
    unsynced        \* conn ids whose ClientConnected, or a value of whose
                    \* initial sync, was thrown away likewise

hubVars    == <<connections, index, next_conn_id>>
taskVars   == <<pc, conn_id, queue, commands, seen>>
storeVars  == <<writes, loaded, stored, changes, checked, writing>>
dropped    == <<lost, unsynced>>
vars == <<writes, loaded, stored, changes, checked, writing, connections, index,
          next_conn_id, hub_lock, pc, conn_id, queue, commands, seen,
          notifications, forwarding, downstream, kernel, lost, unsynced>>

Idle == [pc |-> "idle", id |-> 0, buckets |-> {}, room |-> NoRoom, updates |-> {}]

\* A server that has just started: its rooms are stubs without their data
\* (main.rs), or do not exist yet.
Init ==
    /\ writes = 0
    /\ loaded = {}
    /\ stored = [s \in Slots |-> None]
    /\ changes = 0
    /\ checked = [w \in Writers |-> None]
    /\ writing = [w \in Writers |-> None]
    /\ connections = << >>
    /\ index = [b \in BucketIds |-> {}]
    /\ next_conn_id = 1
    /\ hub_lock = Free
    /\ pc = [c \in Conns |-> "handshake"]
    /\ conn_id = [c \in Conns |-> 0]
    /\ queue = [c \in Conns |-> << >>]
    /\ commands = 0
    /\ seen = [c \in Conns |-> << >>]
    /\ notifications = << >>
    /\ forwarding = None
    /\ downstream = << >>
    /\ kernel = Idle
    /\ lost = {}
    /\ unsynced = {}

-----------------------------------------------------------------------------
(* Channels.  try_send gives up when the channel is full; `lost` and        *)
(* `unsynced` record it (the code logs it or ignores it).                   *)

TryNotify(n) ==
    IF Len(notifications) < NotifyCap
    THEN notifications' = Append(notifications, n) /\ UNCHANGED dropped
    ELSE /\ UNCHANGED notifications
         /\ \/ n.to = None /\ lost' = lost \cup {n.update} /\ UNCHANGED unsynced
            \/ n.to # None /\ unsynced' = unsynced \cup {n.to} /\ UNCHANGED lost

TryDownstream(m) ==
    /\ IF Len(downstream) < DownCap
       THEN downstream' = Append(downstream, m) /\ UNCHANGED unsynced
       ELSE /\ unsynced' = unsynced \cup (IF m.type = "connected" THEN {m.id} ELSE {})
            /\ UNCHANGED downstream
    /\ UNCHANGED lost

-----------------------------------------------------------------------------
(* Connection task (handle_ws_connection).                                  *)

Goto(c, label) == pc' = [pc EXCEPT ![c] = label]

\* AuthOk is sent before the client is known to the hub.  A token without a
\* usable room, like any other failure of the handshake, ends the task.
Handshake(c) ==
    /\ pc[c] = "handshake"
    /\ \/ ClaimedRoom[c] # NoRoom /\ Goto(c, "authed")
       \/ Goto(c, "done")
    /\ UNCHANGED <<storeVars, hubVars, hub_lock, conn_id, queue, commands, seen,
                   notifications, forwarding, downstream, kernel, dropped>>

Allowed_Slip(c) == ClaimedBuckets[c] \cup {PublicBucket}   \* trusts the token
Allowed(c) == (ClaimedBuckets[c] \cup {PublicBucket}) \ {ReservedBucket}

HasRoomFor_Slip(c) ==   \* lets one client too many in
    \A b \in Allowed(c) : Cardinality(index[b]) <= MaxClientsPerBucket
HasRoomFor(c) ==
    \A b \in Allowed(c) : Cardinality(index[b]) < MaxClientsPerBucket

allocate_connection_id_Slip == UNCHANGED next_conn_id   \* ids are not used up
allocate_connection_id ==
    next_conn_id' = IF next_conn_id < MaxConnId THEN next_conn_id + 1 ELSE MaxConnId

\* allocate_connection_id and add_client under one lock.  When a bucket is full
\* the lock is kept while the AuthError is written to the socket.
Register(c) ==
    /\ pc[c] = "authed"
    /\ hub_lock = Free
    /\ allocate_connection_id
    /\ IF HasRoomFor(c)
       THEN /\ connections' =
                 [i \in DOMAIN connections \cup {next_conn_id} |->
                    IF i = next_conn_id
                    THEN [room |-> ClaimedRoom[c], buckets |-> Allowed(c), task |-> c]
                    ELSE connections[i]]
            /\ index' = [b \in BucketIds |->
                 IF b \in Allowed(c) THEN index[b] \cup {next_conn_id} ELSE index[b]]
            /\ conn_id' = [conn_id EXCEPT ![c] = next_conn_id]
            /\ Goto(c, "added")
            /\ UNCHANGED hub_lock
       ELSE /\ hub_lock' = c
            /\ Goto(c, "rejecting")
            /\ UNCHANGED <<connections, index, conn_id>>
    /\ UNCHANGED <<storeVars, queue, commands, seen, notifications, forwarding,
                   downstream, kernel, dropped>>

Rejected(c) ==
    /\ pc[c] = "rejecting"
    /\ hub_lock' = Free
    /\ Goto(c, "done")
    /\ UNCHANGED <<storeVars, hubVars, conn_id, queue, commands, seen,
                   notifications, forwarding, downstream, kernel, dropped>>

Announce_Slip(c) ==   \* ClientConnected is forgotten
    /\ pc[c] = "added"
    /\ Goto(c, "open")
    /\ UNCHANGED <<storeVars, hubVars, hub_lock, conn_id, queue, commands, seen,
                   notifications, forwarding, downstream, kernel, dropped>>
Announce(c) ==
    /\ pc[c] = "added"
    /\ TryDownstream([type |-> "connected", id |-> conn_id[c], buckets |-> Allowed(c)])
    /\ Goto(c, "open")
    /\ UNCHANGED <<storeVars, hubVars, hub_lock, conn_id, queue, commands, seen,
                   notifications, forwarding, kernel>>

\* The client sends a ClientCommand frame.
ReadCommand(c) ==
    /\ pc[c] = "open"
    /\ commands < MaxCommands
    /\ commands' = commands + 1
    /\ Goto(c, "locking")
    /\ UNCHANGED <<storeVars, hubVars, hub_lock, conn_id, queue, seen,
                   notifications, forwarding, downstream, kernel, dropped>>

\* process_client_message keeps the hub lock while it waits for the channel;
\* a connection the hub no longer knows has its message dropped.
LockHub(c) ==
    /\ pc[c] = "locking"
    /\ hub_lock = Free
    /\ IF conn_id[c] \in DOMAIN connections
       THEN hub_lock' = c /\ Goto(c, "sending")
       ELSE Goto(c, "open") /\ UNCHANGED hub_lock
    /\ UNCHANGED <<storeVars, hubVars, conn_id, queue, commands, seen,
                   notifications, forwarding, downstream, kernel, dropped>>

SendCommand(c) ==
    /\ pc[c] = "sending"
    /\ Len(downstream) < DownCap
    /\ downstream' = Append(downstream, [type |-> "message", id |-> conn_id[c],
                                         buckets |-> {}])
    /\ hub_lock' = Free
    /\ Goto(c, "open")
    /\ UNCHANGED <<storeVars, hubVars, conn_id, queue, commands, seen,
                   notifications, forwarding, kernel, dropped>>

\* rx.recv(): the next pending update goes to the socket.
WriteSocket(c) ==
    /\ pc[c] = "open"
    /\ queue[c] # << >>
    /\ queue' = [queue EXCEPT ![c] = Tail(@)]
    /\ seen' = [seen EXCEPT ![c] = Append(@, Head(queue[c]))]
    /\ UNCHANGED <<storeVars, hubVars, hub_lock, pc, conn_id, commands,
                   notifications, forwarding, downstream, kernel, dropped>>

\* A close frame, a receive error or a failed send ends the loop.
PeerGone(c) ==
    /\ pc[c] = "open"
    /\ Goto(c, "closing")
    /\ UNCHANGED <<storeVars, hubVars, hub_lock, conn_id, queue, commands, seen,
                   notifications, forwarding, downstream, kernel, dropped>>

\* remove_client for a set of ids.
Unregister_Slip(ids) ==   \* the index keeps the ids
    /\ connections' = [i \in DOMAIN connections \ ids |-> connections[i]]
    /\ UNCHANGED index
Unregister(ids) ==
    /\ connections' = [i \in DOMAIN connections \ ids |-> connections[i]]
    /\ index' = [b \in BucketIds |->
           index[b] \ {i \in ids \cap DOMAIN connections : b \in connections[i].buckets}]

Cleanup_Slip(c) ==   \* the task ends and the hub is not told
    /\ pc[c] = "closing"
    /\ Goto(c, "leaving")
    /\ UNCHANGED <<storeVars, hubVars, hub_lock, conn_id, queue, commands,
                   seen, notifications, forwarding, downstream, kernel, dropped>>
Cleanup(c) ==
    /\ pc[c] = "closing"
    /\ hub_lock = Free
    /\ Unregister({conn_id[c]})
    /\ Goto(c, "leaving")
    /\ UNCHANGED <<storeVars, next_conn_id, hub_lock, conn_id, queue, commands,
                   seen, notifications, forwarding, downstream, kernel, dropped>>

Leave(c) ==
    /\ pc[c] = "leaving"
    /\ TryDownstream([type |-> "disconnected", id |-> conn_id[c], buckets |-> {}])
    /\ Goto(c, "done")
    /\ UNCHANGED <<storeVars, hubVars, hub_lock, conn_id, queue, commands, seen,
                   notifications, forwarding, kernel>>

-----------------------------------------------------------------------------
(* Forwarder (run_forwarder).                                               *)

TakeNotification ==
    /\ forwarding = None
    /\ notifications # << >>
    /\ forwarding' = Head(notifications)
    /\ notifications' = Tail(notifications)
    /\ UNCHANGED <<storeVars, hubVars, hub_lock, taskVars, downstream, kernel, dropped>>

Recipients_Slip(n) == index[n.update.bucket]   \* conn_id is ignored
\* Recipients are looked up by bucket id, or by connection id if targeted.
Recipients(n) ==
    IF n.to = None THEN index[n.update.bucket] ELSE {n.to} \cap DOMAIN connections

QueueFull(i) == Len(queue[connections[i].task]) >= QueueCap

\* broadcast_update / send_targeted_update: a client whose queue is full is
\* removed from the hub, but its task is not told.
Forward_Slip ==   \* a full queue loses the update and keeps the client
    /\ forwarding # None
    /\ hub_lock = Free
    /\ LET fine == {i \in Recipients(forwarding) : ~QueueFull(i)}
       IN  queue' = [c \in Conns |->
             IF \E i \in fine : connections[i].task = c
             THEN Append(queue[c], forwarding.update) ELSE queue[c]]
    /\ forwarding' = None
    /\ UNCHANGED <<storeVars, hubVars, hub_lock, pc, conn_id, commands, seen,
                   notifications, downstream, kernel, dropped>>
Forward ==
    /\ forwarding # None
    /\ hub_lock = Free
    /\ LET full == {i \in Recipients(forwarding) : QueueFull(i)}
           fine == Recipients(forwarding) \ full
       IN  /\ Unregister(full)
           /\ queue' = [c \in Conns |->
                IF \E i \in fine : connections[i].task = c
                THEN Append(queue[c], forwarding.update) ELSE queue[c]]
    /\ forwarding' = None
    /\ UNCHANGED <<storeVars, next_conn_id, hub_lock, pc, conn_id, commands, seen,
                   notifications, downstream, kernel, dropped>>

-----------------------------------------------------------------------------
(* Kernel: downstream message processor and handle_client_connected.        *)

TakeMessage ==
    /\ kernel.pc = "idle"
    /\ downstream # << >>
    /\ downstream' = Tail(downstream)
    /\ LET m == Head(downstream)
       IN  IF m.type = "connected"
           THEN kernel' = [kernel EXCEPT !.pc = "lookup", !.id = m.id,
                                         !.buckets = m.buckets]
           ELSE UNCHANGED kernel
    /\ UNCHANGED <<storeVars, hubVars, hub_lock, taskVars, notifications,
                   forwarding, dropped>>

\* get_client_room_id waits for the hub lock.
LookUpRoom ==
    /\ kernel.pc = "lookup"
    /\ hub_lock = Free
    /\ kernel' = IF kernel.id \in DOMAIN connections
                 THEN [kernel EXCEPT !.pc = "collect",
                                     !.room = connections[kernel.id].room]
                 ELSE Idle
    /\ UNCHANGED <<storeVars, hubVars, hub_lock, taskVars, notifications,
                   forwarding, downstream, dropped>>

\* The values of the requested buckets, read under the state lock: restored
\* ones too, null ones not, and none at all of an unloaded or deleted room.
Collect ==
    /\ kernel.pc = "collect"
    /\ kernel' = [kernel EXCEPT !.pc = "target", !.updates =
           {[room |-> kernel.room, bucket |-> b, value |-> stored[<<kernel.room, b>>]] :
              b \in {d \in kernel.buckets : stored[<<kernel.room, d>>] # None}}]
    /\ UNCHANGED <<storeVars, hubVars, hub_lock, taskVars, notifications,
                   forwarding, downstream, dropped>>

Target_Slip ==   \* the loop does not move on
    /\ kernel.pc = "target"
    /\ IF kernel.updates = {}
       THEN kernel' = Idle /\ UNCHANGED <<notifications, dropped>>
       ELSE \E u \in kernel.updates :
              /\ TryNotify([to |-> kernel.id, update |-> u])
              /\ UNCHANGED kernel
    /\ UNCHANGED <<storeVars, hubVars, hub_lock, taskVars, forwarding, downstream>>
\* One targeted notification per value, in no particular order; the first one
\* that does not fit aborts the rest.
Target ==
    /\ kernel.pc = "target"
    /\ IF kernel.updates = {}
       THEN kernel' = Idle /\ UNCHANGED <<notifications, dropped>>
       ELSE \E u \in kernel.updates :
              /\ TryNotify([to |-> kernel.id, update |-> u])
              /\ kernel' = IF Len(notifications) < NotifyCap
                           THEN [kernel EXCEPT !.updates = @ \ {u}]
                           ELSE Idle
    /\ UNCHANGED <<storeVars, hubVars, hub_lock, taskVars, forwarding, downstream>>

-----------------------------------------------------------------------------
(* The store.  What LoadRoom finds in the database is module Kernel's; here *)
(* it may be anything.                                                      *)

\* WriteFragment: the room is loaded now, but the lock is then given up.
StartWrite(w, r, b) ==
    /\ checked[w] = None /\ writing[w] = None
    /\ writes < MaxWrites
    /\ r \in loaded
    /\ checked' = [checked EXCEPT ![w] = <<r, b>>]
    /\ UNCHANGED <<writes, loaded, stored, changes, writing, hubVars, hub_lock,
                   taskVars, notifications, forwarding, downstream, kernel, dropped>>

\* set_fragment, of a value or of null.  A room unloaded or deleted meanwhile
\* makes it fail; the error is logged and the command goes on all the same.
ApplyWrite(w) ==
    /\ checked[w] # None
    /\ writes' = writes + 1
    /\ IF checked[w][1] \in loaded
       THEN \E v \in {writes + 1, None} : stored' = [stored EXCEPT ![checked[w]] = v]
       ELSE UNCHANGED stored
    /\ writing' = [writing EXCEPT ![w] =
           [room |-> checked[w][1], bucket |-> checked[w][2], value |-> writes + 1]]
    /\ checked' = [checked EXCEPT ![w] = None]
    /\ UNCHANGED <<loaded, changes, hubVars, hub_lock, taskVars, notifications,
                   forwarding, downstream, kernel, dropped>>

Broadcast(w) ==
    /\ writing[w] # None
    /\ TryNotify([to |-> None, update |-> writing[w]])
    /\ writing' = [writing EXCEPT ![w] = None]
    /\ UNCHANGED <<writes, loaded, stored, changes, checked, hubVars, hub_lock, taskVars,
                   forwarding, downstream, kernel>>

Change == changes < MaxChanges /\ changes' = changes + 1

\* NewRoom and LoadRoom.  The entries of a room, loaded before or not, are
\* replaced by restored ones; nobody is notified.
LoadRoom(r) ==
    /\ Change
    /\ loaded' = loaded \cup {r}
    /\ \E B \in SUBSET BucketIds :
          stored' = [s \in Slots |->
              IF s[1] # r THEN stored[s] ELSE IF s[2] \in B THEN 0 ELSE None]
    /\ UNCHANGED <<writes, checked, writing, hubVars, hub_lock, taskVars,
                   notifications, forwarding, downstream, kernel, dropped>>

\* UnloadRoom and DeleteRoom (unloading an unloaded room changes nothing).
UnloadRoom(r) ==
    /\ r \in loaded
    /\ Change
    /\ loaded' = loaded \ {r}
    /\ stored' = [s \in Slots |-> IF s[1] = r THEN None ELSE stored[s]]
    /\ UNCHANGED <<writes, checked, writing, hubVars, hub_lock, taskVars,
                   notifications, forwarding, downstream, kernel, dropped>>

DeleteBucket(r, b) ==
    /\ r \in loaded
    /\ Change
    /\ stored' = [stored EXCEPT ![<<r, b>>] = None]
    /\ UNCHANGED <<writes, loaded, checked, writing, hubVars, hub_lock, taskVars,
                   notifications, forwarding, downstream, kernel, dropped>>

\* Commands, up to the point where a write is broadcast.
Store ==
    \/ \E w \in Writers, r \in Rooms, b \in BucketIds : StartWrite(w, r, b)
    \/ \E w \in Writers : ApplyWrite(w)
    \/ \E r \in Rooms : LoadRoom(r) \/ UnloadRoom(r)
    \/ \E r \in Rooms, b \in BucketIds : DeleteBucket(r, b)

-----------------------------------------------------------------------------
\* What the program does by itself once it can.
Task(c) ==
    \/ Register(c) \/ Rejected(c) \/ Announce(c)
    \/ LockHub(c) \/ SendCommand(c) \/ WriteSocket(c)
    \/ Cleanup(c) \/ Leave(c)
Forwarder == TakeNotification \/ Forward
Processor == TakeMessage \/ LookUpRoom \/ Collect \/ Target

\* What peers may do.
Environment == \E c \in Conns : Handshake(c) \/ ReadCommand(c) \/ PeerGone(c)

Next ==
    \/ \E c \in Conns : Task(c)
    \/ Forwarder
    \/ Processor
    \/ Store
    \/ \E w \in Writers : Broadcast(w)
    \/ Environment

Spec == Init /\ [][Next]_vars

\* tokio polls every ready task; peers and callers owe nothing, but a write that
\* has begun goes on.
Fairness ==
    /\ \A c \in Conns : WF_vars(Task(c))
    /\ WF_vars(Forwarder)
    /\ WF_vars(Processor)
    /\ \A w \in Writers : WF_vars(ApplyWrite(w) \/ Broadcast(w))

FairSpec == Spec /\ Fairness

-----------------------------------------------------------------------------
Labels == {"handshake", "authed", "rejecting", "added", "open", "locking",
           "sending", "closing", "leaving", "done"}

TypeOK ==
    /\ writes \in Nat
    /\ loaded \subseteq Rooms
    /\ stored \in [Slots -> Nat \cup {None}]
    /\ changes \in 0..MaxChanges
    /\ checked \in [Writers -> Slots \cup {None}]
    /\ writing \in [Writers -> Update \cup {None}]
    /\ DOMAIN connections \subseteq ConnIds
    /\ connections \in [DOMAIN connections ->
          [room : Rooms, buckets : SUBSET BucketIds, task : Conns]]
    /\ index \in [BucketIds -> SUBSET ConnIds]
    /\ next_conn_id \in ConnIds
    /\ hub_lock \in Conns \cup {Free}
    /\ pc \in [Conns -> Labels]
    /\ conn_id \in [Conns -> Nat]
    /\ \A c \in Conns : conn_id[c] < next_conn_id
    /\ queue \in [Conns -> Seq(Update)]
    /\ commands \in 0..MaxCommands
    /\ seen \in [Conns -> Seq(Update)]
    /\ notifications \in Seq(Notification)
    /\ forwarding \in Notification \cup {None}
    /\ downstream \in Seq(DownstreamMessage)
    /\ kernel \in [pc : {"idle", "lookup", "collect", "target"}, id : Nat,
                   buckets : SUBSET BucketIds, room : Rooms \cup {NoRoom},
                   updates : SUBSET Update]
    /\ lost \subseteq Update
    /\ unsynced \subseteq ConnIds

Registered(c) == conn_id[c] \in DOMAIN connections
InBuffer(seq, x) == \E i \in DOMAIN seq : seq[i] = x

\* Everything the client of a connection has been given so far, in order.
Stream(c) == seen[c] \o queue[c]

(***************************************************************************)
(* The hub's two tables agree, and every client in them is served: its     *)
(* connection task is running, and will remove exactly this id when it     *)
(* ends.  add_client, remove_client and the removal of a client whose      *)
(* queue is full, from different tasks, all keep it so.                    *)
(***************************************************************************)
HubIndexAgrees ==
    /\ \A b \in BucketIds : index[b] =
          {i \in DOMAIN connections : b \in connections[i].buckets}
    /\ \A i \in DOMAIN connections :
          /\ conn_id[connections[i].task] = i
          /\ pc[connections[i].task] \in
                {"added", "open", "locking", "sending", "closing"}

(***************************************************************************)
(* No bucket ever has more subscribers than MAX_WS_CLIENTS_PER_BUCKET.     *)
(***************************************************************************)
BucketLimit == \A b \in BucketIds : Cardinality(index[b]) <= MaxClientsPerBucket

(***************************************************************************)
(* Whatever writers store and the hub forwards, a client is only handed    *)
(* updates of buckets its token names or of the public bucket, and never   *)
(* of the reserved one.                                                    *)
(***************************************************************************)
NothingOutsideGrant ==
    \A c \in Conns : \A i \in DOMAIN Stream(c) :
        LET b == Stream(c)[i].bucket
        IN  b \in ClaimedBuckets[c] \cup {PublicBucket} /\ b # ReservedBucket

\* The value of a slot is one written since its room was last loaded.
Written(s) == stored[s] \notin {0, None}

(***************************************************************************)
(* No gap between the initial sync and live updates.  For a registered     *)
(* client, the value of each of its buckets, if it was written since the   *)
(* room was last loaded, has reached it, or is on its way to it (queued,   *)
(* in a channel, about to be broadcast, or its initial sync has yet to     *)
(* read the value), unless a full channel made the code drop that          *)
(* broadcast or that client's sync.  This needs the order in the code:     *)
(* register before ClientConnected, store before broadcast.  Values        *)
(* LoadRoom restores are excepted because the code tells nobody of them: a *)
(* client that connected before is not sent them.                          *)
(***************************************************************************)
LatestIsOnItsWay ==
    \A c \in Conns, b \in BucketIds :
        LET r  == ClaimedRoom[c]
            id == conn_id[c]
            u  == [room |-> r, bucket |-> b, value |-> stored[<<r, b>>]]
        IN  Registered(c) /\ b \in Allowed(c) /\ Written(<<r, b>>) =>
              \/ InBuffer(Stream(c), u)
              \/ \E to \in {None, id} :
                    LET n == [to |-> to, update |-> u]
                    IN  InBuffer(notifications, n) \/ forwarding = n
              \/ \E w \in Writers : writing[w] = u
              \/ pc[c] = "added"
              \/ \E i \in DOMAIN downstream :
                    downstream[i].type = "connected" /\ downstream[i].id = id
              \/ kernel.id = id /\ (kernel.pc \in {"lookup", "collect"}
                                    \/ u \in kernel.updates)
              \/ u \in lost
              \/ id \in unsynced

(***************************************************************************)
(* With one writer at a time, the values of a bucket reach a client in the *)
(* order of the WriteFragment commands that brought them (restored values  *)
(* come before all), but for one: the value its initial sync read, which   *)
(* was queued after newer ones or after its own broadcast.  So a client    *)
(* steps back at most once per bucket (kernel.rs reads under the state     *)
(* lock and queues after it; the forwarder keeps the queue's order).  This *)
(* is about the order of commands, and counts the values set_fragment      *)
(* refused, which are broadcast too; it is not about bucket_counter, which *)
(* may repeat or fall back to 0 in such a broadcast.                       *)
(***************************************************************************)
NotNewer(s, j) ==
    \E i \in 1..(j-1) : /\ s[i].room = s[j].room /\ s[i].bucket = s[j].bucket
                       /\ s[i].value >= s[j].value

\* No two writers run at the same time.
OneWriter == \A w, v \in Writers : w = v

StepsBackOnce ==
    OneWriter =>
        \A c \in Conns, b \in BucketIds, r \in Rooms :
            Cardinality({j \in DOMAIN Stream(c) :
                /\ Stream(c)[j].room = r /\ Stream(c)[j].bucket = b
                /\ NotNewer(Stream(c), j)}) <= 1

-----------------------------------------------------------------------------
(* The abstract multicast.  What is in a client's queue counts as given to  *)
(* it; what is in the notification channel or with the forwarder does not.  *)

\* Notifications that have not been forwarded yet, by destination.
Pending(to) ==
    {notifications[i].update : i \in {j \in DOMAIN notifications :
                                        notifications[j].to = to}}
    \cup {n.update : n \in {m \in {forwarding} \ {None} : m.to = to}}

SyncPhase(c, phases) ==
    conn_id[c] # 0 /\ kernel.id = conn_id[c] /\ kernel.pc \in phases

SyncDue(c) ==
    \/ pc[c] = "added"
    \/ \E i \in DOMAIN downstream :
          downstream[i].type = "connected" /\ downstream[i].id = conn_id[c]
    \/ SyncPhase(c, {"lookup", "collect"})

Multicast == INSTANCE Feed WITH
    Clients <- Conns,
    Buckets <- BucketIds,
    RoomOf  <- ClaimedRoom,
    GrantOf <- [c \in Conns |-> Allowed(c)],
    unsent  <- ({writing[w] : w \in Writers} \ {None}) \cup Pending(None),
    member  <- [c \in Conns |-> IF conn_id[c] = 0 THEN "new"
                                ELSE IF Registered(c) THEN "in" ELSE "out"],
    due     <- {c \in Conns : SyncDue(c)},
    handing <- [c \in Conns |->
                  IF conn_id[c] = 0 THEN {}
                  ELSE Pending(conn_id[c])
                       \cup (IF SyncPhase(c, {"target"}) THEN kernel.updates ELSE {})],
    stream  <- [c \in Conns |-> Stream(c)]

(***************************************************************************)
(* The connection tasks, the hub, the forwarder and the message processor  *)
(* together implement the multicast of module Feed: tasks, ids, channels   *)
(* and locks are invisible to clients, except that values may be lost and  *)
(* clients dropped when a channel is full.  What set_fragment refused is   *)
(* published like any other value; what LoadRoom restores is not.          *)
(***************************************************************************)
FeedSpec == Multicast!Spec

-----------------------------------------------------------------------------
(***************************************************************************)
(* A connection whose peer is gone is taken out of the hub.                *)
(***************************************************************************)
ClosedClientsLeaveHub ==
    \A c \in Conns : pc[c] = "closing" ~> ~Registered(c)

(***************************************************************************)
(* A client that stays connected and registered ends up having seen the    *)
(* last value written to every bucket it may read, whether it was written  *)
(* before the client connected, while it was being synchronised, or        *)
(* afterwards, as long as that value is in memory: once its room is        *)
(* unloaded, deleted or loaded again there is no such promise, and values  *)
(* that LoadRoom restores after the client's sync are not sent to it.      *)
(***************************************************************************)
LatestIsSeen ==
    \A c \in Conns, b \in BucketIds :
        <>[](Registered(c) /\ pc[c] = "open" /\ b \in Allowed(c)) =>
        <>[](Written(<<ClaimedRoom[c], b>>) =>
               InBuffer(seen[c], [room |-> ClaimedRoom[c], bucket |-> b,
                                  value |-> stored[<<ClaimedRoom[c], b>>]]))

(***************************************************************************)
(* The message processor keeps consuming what connections send it          *)
(* (kernel.rs: "Start a background task that consumes downstream websocket *)
(* messages from the downstream subsystem").                               *)
(***************************************************************************)
ProcessorKeepsConsuming == downstream # << >> ~> downstream = << >>

(***************************************************************************)
(* A client sees values of its own room only (work/ideas/architecture.md:  *)
(* "A JWT for room 5 does not grant access to other rooms").               *)
(***************************************************************************)
OnlyOwnRoom ==
    \A c \in Conns : \A i \in DOMAIN seen[c] : seen[c][i].room = ClaimedRoom[c]
=============================================================================
