# syncpond: specifications and proofs

TLA+ modules for syncpond: what the server's rooms and its gRPC interface promise,
how commands and persistence interleave, how updates reach websocket clients, how
tokens expire, and how the TypeScript client keeps its connection. TLC checks the
modules on small instances; TLAPS proves every safety property that holds, and that the hub
and the gRPC interface implement their abstract specifications, for every value of the
constants. Paths below are relative to the repository; `state/mod.rs` and
`kernel.rs` stand for the files of `server/crates/sp-kernel/src/`.

## The system

| Part | State | Operations | Modelled in |
|---|---|---|---|
| `AppState` (`state/mod.rs`) | rooms (buckets, entries with versions, room counter, transaction buffer, bucket labels and flags, members, `loaded`), labels, `next_room_id` | create/delete room, labels, set/delete/get fragment, begin/end/abort transaction, members, load/unload, snapshot, delta | `Room`, `RoomStore`, `RoomSync`; reads in `Upstream` |
| Kernel (`kernel.rs`) | none of its own; holds the state lock | one handler per command | `Kernel` |
| Persistence (`persistance/mod.rs`) | one RocksDB per room (fragments, bucket records, list of bucket ids, member list), the map of open databases, an LRU cache of bucket records | open, persist/remove fragment, bucket, member; load each | `Kernel` |
| Startup (`server/src/main.rs`) | - | rooms on disk become unloaded stubs; `next_room_id` | `Kernel` (`Crash`) |
| Hub and forwarder (`sp-downstream/src/hub.rs`, `lib.rs`) | connections, bucket index, next connection id, notification channel | add/remove client, broadcast, targeted send, forward a client's message | `Downstream` |
| Connection task (`connection.rs`) | socket, queue of pending updates | handshake, register, `select!` loop, cleanup | `Downstream` |
| Message processor (`kernel.rs`) | downstream channel | initial sync of a client | `Downstream` |
| Tokens (`state/mod.rs`, `auth.rs`) | last issue time, keys | issue, validate | `Tokens` |
| gRPC server (`sp-upstream`) and its adapter (`server/src/main.rs`) | none | translate requests and errors | `Upstream`, against `Service` |
| TypeScript client (`client/src/index.ts`) | socket, flags, attempt counter, last counter seen | connect, disconnect, reconnect, socket events | `Client` |
| Rust client (`lib/rust`) | none | wrappers | no (stateless) |

How they interact. gRPC requests run concurrently and call the kernel, which takes the
`RwLock` around `AppState`. Commands that change buckets or members keep it while they
write to RocksDB; `WriteFragment` releases it after every use and `LoadRoom` reads the
database without it. A written value is put into the notification channel; the forwarder
moves it into the queue of every subscribed client, found under the hub's mutex.
Connection tasks tell the kernel about new clients through the downstream channel, and
the kernel answers with the room's current values, through the notification channel
again.

What is hard: a command sees the world change between two of its steps; three copies of
the same data (memory, database, cache) and two of the hub's (connections, index) must
agree; channels are bounded and drop or block; initial sync races live updates; the
process may die anywhere; a version must identify a write although transactions, loads
and unloads all touch the counter; error names are translated twice on their way out; a
client's socket events arrive after the client has moved on; a clock may be set back
between two tokens. `PROJECT.json` lists every such place with its line.

## The modules

**Room** (no variables). One room's state and what each operation does to it: `Put`,
`Buffer`, `Commit`, `Load`, `Unload`, `room_snapshot`, `room_delta`. The nested map
bucket -> key -> entry becomes a set of buckets and one entry per slot (bucket, key).
JSON values are model values, `Null` the tombstone, `Absent` a missing entry. A bucket's
`u32` of flags is the set of its bits. The loop of `tx_end` is given in closed form (the
i-th command gets version `room_counter + i`, the last one on a slot stays) so that it
can be proved about; `CommitLoop` is the loop itself, a recursive function, and
`CommitMatchesLoop` says that the two agree.
`io_locked` is left out: nothing in the repository sets it, so no operation ever returns
`RoomIoBusy`.

**RoomStore** (`rooms`, `labels`, `next_room_id`). One action per operation of `AppState`
that changes state. Each runs under the room's write lock or `&mut AppState`, hence is
one step; an error return changes nothing, so the guards are the negated error returns.

**RoomSync** adds one reader (`view`) that takes a snapshot and later asks for the delta
since the counter it saw, the recovery `server/doc/summary.md` describes. Loading and
unloading the room replace its data without giving it versions (`load_room_data` stamps 0),
and the reader, which cannot know, keeps its copy and its counter. `intact` (no part of the
reader, only of the statement) says that neither has happened since its snapshot. While it
is, snapshot plus delta is the present; afterwards `DeltaCompletesView` promises the keys
written since the room was last loaded and no others: a restored value is in no delta, and
a value the load dropped stays in the copy. So recovery by `last_seen_counter` is not what
the document makes of it; that is a limit of the code, kept visible here. A deleted room
has no delta, and its reader nothing. A restart, which sets counters back to 0, is not in
`RoomSync`; nor is `DeleteBucket`, a command of `Kernel` and no operation of the store.

**Kernel** (extends RoomStore with `db`, `cache`, `state_lock`, `task`). Commands as
concurrent tasks. A step ends where another task can get in:

| Command | Steps |
|---|---|
| NewRoom, UnloadRoom, DeleteRoom | one: the lock is held throughout |
| NewBucket, DeleteBucket | memory (lock taken), `PutRecord`, `PutList`, `UpdateCache` (lock released) |
| NewMember, DeleteMember | memory (lock taken), `PutMembers` (lock released) |
| WriteFragment | `StartWrite` (check), `ApplyWrite`, `PutFragment`, `ReadCounter`, `BroadcastWrite` |
| LoadRoom | `StartLoad` (open, cache), `LoadList`, `LoadRecords`, `LoadCache`, `LoadMembers`, `LoadFragments`, `Install` |

`Evict` is the LRU cache dropping a room, `DiskFault` a database write that fails (logged,
the command goes on), `ReadFault` and `ShortList` reads that fail or end early while a
room is loaded or the list of buckets is made (what was not read counts as missing),
`Crash` the process dying anywhere and starting again from the directories on disk.
`acked` is a history variable: the value of the last write of a slot that ended with no
other write of that slot overlapping it. A command that is refused (no such room, not
loaded) changes nothing and is not a step, except LoadRoom, which creates the database
first.

**Downstream** (hub, connection tasks, forwarder, message processor, two bounded channels
and one queue per client, and the store they read). A step under the hub mutex that does
not wait is one action; `hub_lock` is held across actions where the code awaits under it
(writing a rejection to a socket, sending to the downstream channel). `lost` and
`unsynced` record what `try_send` threw away.

Each bucket of a room holds one key here. The kernel's commands appear by what they do to
the memory that a synchronisation reads: `StartWrite` (the room is loaded), `ApplyWrite`
(`set_fragment`, which fails if the room is gone by then; the code logs that and goes on)
and `Broadcast`, in the order of `kernel.rs`; `LoadRoom` (and `NewRoom`), `UnloadRoom` (and
`DeleteRoom`) and `DeleteBucket`, which change values and tell nobody. What a load finds
on disk is any selection of buckets here; `Kernel` has it exactly. A null is stored as no
value, since a synchronisation skips it, and is broadcast like any other. The module
starts where a server starts: every room an unloaded stub, which is also what a restart
comes to, connections not surviving the process.

A value is the number of the `WriteFragment` command that brought it, in the order these
commands get the state lock, and 0 when a load restored it. The number stands for the
payload: the counter an update carries (`bucket_counter`: the key's version in a
synchronisation, the room's counter, read again and 0 if the room is gone, in a broadcast)
is left out, since nothing on the server's side of a socket looks at it; `Kernel` has it
(`ReadCounter`, `BroadcastNotTooOld`).

A connection's stream is what its channel holds and what it has been sent (`seen`); ids
saturate at `MaxConnId`, as `saturating_add` does.

**Feed** (abstract) is what `Downstream` amounts to without connections, ids, channels,
locks or tasks: a client joins once; a written value, stored or refused, is published to
all subscribers of that moment in one step, or lost for all; a subscriber that does not
get it is dropped in that step; stored values may be removed or replaced by restored ones
without any publication; once per join the values then stored are handed over one by one.
`FeedSpec` is the refinement (`Multicast == INSTANCE Feed WITH ...`): a client is in from
`Register` until it leaves or is dropped from the hub, an update is unsent while a writer
or the notification channel holds it, and a synchronisation is due while
`ClientConnected` is on its way.

**Tokens** (extends RoomStore with `clock`, `last_jwt_issue_seconds`, `tokens`).
`create_room_token` on the store's members, and `Accepts`, the expiry test of
`validate_jwt`. `SetClock` is the wall clock moving anywhere. Time saturates at
`MaxTime`. A token is its claims: nobody else can sign one.

**Upstream** (extends Kernel, adds no state). What each gRPC call answers, the ones that
change nothing included, as operators on the kernel's state: the errors of `state/mod.rs`,
their names in the adapter, their status codes.

**Service** (abstract) is the interface's contract: rooms as callers see them, what is
saved of each, names, and the write that was accepted and has yet to take effect; no
cache, locks, lists of ids or database keys. `ServiceSpec` says `Kernel` implements it
when loads and the commands on data come one at a time (`UpstreamAssumption`: one task) on
a server that does not crash and whose disk works (`MaxCrashes` and `MaxFaults` are 0);
rooms may be read, created, unloaded and deleted meanwhile. The
mapping: a bucket or member command takes effect when it begins (it holds the state lock
until its database work is done, so that work counts as saved already), a write at
`ApplyWrite`, a load at `Install`. Without the restriction the contract is false, which is
what `kernel_load` and `kernel_cache` show.

**Client** (`client`, and the history variables `wanted` and `tidy`). The program is
single-threaded, so a step is one call or one event; the methods are operators from a
client state to the next. Sockets keep their handlers after `this.ws` has moved on, so
their events may come at any time. A listener of "close" runs before the handler's own
statements and may call back, which `CloseEvent` allows. `tidy` says that the application
has called `connect()` only when no socket was closing and no timer was running: the
properties are about such applications, and what happens to others is told below.

`Feed` and `Service` translate no code, so `PROJECT.json` maps none of their definitions.

**MCxxx** modules give the constants of an instance; **xxxProofs** hold the theorems about
xxx: `RoomStoreProofs`, `RoomSyncProofs`, `TokensProofs` and `KernelProofs` (on top of the
store's), `DownstreamProofs` and on it `FeedProofs` (the refinement, and what
clients are given), `UpstreamProofs` (on
`KernelProofs`; the contract), `ClientProofs`.

Operators ending in `Slip` are plausible mistakes in the definition that follows them
(a dropped check, a missing reset, a wrong order). No specification uses them; putting
one in the place of the original makes the property listed with it in `PROJECT.json`
fail, so every property is known to depend on the code it is about.

## What the runs show

| Run | Instance | Shows |
|---|---|---|
| `room_store` | 2 rooms, names of three kinds, loads and unloads, no writes, 2 tokens, ttl 1, a clock of 4 values set at will | labels never dangle, ids are never reused; tokens expire in the order they were made, not before their ttl, and no later than the latest clock plus the ttl plus one second per earlier token |
| `room_sync` | 1 room, 3 buckets, 1 key, 3 versions, transactions, 1 load image, a reader of any grant that keeps its copy across loads and unloads | versions identify writes; bucket maps agree; transactions are atomic; snapshot plus delta is the present until the room is loaded or unloaded, and for keys written since the last load also afterwards; grants hold |
| `downstream` | 2 connections, bucket 0, bucket limit 1, all channels and queues of capacity 1, 2 writes, 2 loads or unloads | the hub's tables agree; the limit holds; nothing written since its room was loaded falls between initial sync and live updates; as long as writes come one at a time, a client's stream returns to a value of a bucket that is not newer at most once; the whole implements `Feed` |
| `downstream_live` | 2 connections, bucket 0 and the reserved one, channels that do not fill up, 1 write, 1 load | closed clients leave the hub; connected clients end up with the final written values while these are in memory; grants hold |
| `kernel` | 2 tasks, 2 rooms, 2 buckets, 4 commands, 1 crash, 1 failed database call | acknowledged writes stay on disk; new rooms start empty; unloaded rooms stay empty; a broadcast's counter is not too old, or its room is deleted and it is 0 |
| `kernel_live` | 2 tasks, 3 commands, 1 crash, 1 failed database call | every command completes |
| `kernel_sequential` | 1 task beside commands that are one step, 1 room id, 7 commands | memory, database and cache agree between commands; every call is answered as the contract says; no read goes back to an older value; `Kernel` implements `Service` |
| `client` | 5 sockets, 2 reconnection attempts, automatic reconnection | one connection at a time, authenticated once; never stranded; a planned reconnection takes place; `disconnect()` is final |

Four runs end in a violation, each of a statement the repository makes:

- `kernel_load`: a write completes during a load, which then installs older values
  (`state/mod.rs:33`, the unused `io_locked`).
- `kernel_cache`: a load caches bucket records it read before a NewBucket; every later
  load misses the bucket (`persistance/mod.rs:290`). `kernel_sequential` shows the cache
  is right without that race.
- `downstream_stall`: a connection waits for the full downstream channel with the hub
  lock in hand, its consumer waits for the hub lock (`kernel.rs:45`).
- `downstream_rooms`: updates are delivered by bucket id, whatever the room
  (`work/ideas/architecture.md:9`).

Met while modelling, in the models, and not the subject of a run:

- `tx_begin`, `unload_room`, `tx_end` writes into a room that is not loaded, against the
  comment at `state/mod.rs:37`. No command of the kernel opens a transaction, and the
  `kernel` run shows `UnloadedRoomHoldsNothing` for those there are.
- `disconnect(); connect()` of the TypeScript client before the old socket's close event:
  the old handler clears the new `this.ws` (the socket stays open, orphaned) and schedules
  another connection. A "close" listener that calls `connect()` does the same.
- `disconnect()` while a connection is being made leaves `connecting` set, so a
  `connect()` before the close event does nothing.
- A reconnection whose `createWebSocket` throws schedules no further one
  (`client/src/index.ts:202-203`); `NotStranded` excepts it (`threw`).
- Commands on buckets and members of a missing room answer OK; `LoadRoom` of a missing
  room creates a database and answers failed_precondition.
- A deleted room keeps its database and is back as an unloaded stub after a restart.
- A failed or interrupted command on a bucket may leave its record without its id in the
  list, and loads do not see it until the next bucket command.

### Bounds

Every bound is a constant named in its module: `MaxRoomId`, `MaxCounter` (versions a room
hands out), `MaxCommands` (commands in `Kernel`, client frames in `Downstream`),
`MaxWrites` and `MaxChanges` (writes; loads, unloads and bucket deletions, in
`Downstream`), `MaxCrashes`, `MaxFaults`. Every client subscribes to bucket 0, so no
bucket is ever fuller, and `downstream` has no other; `downstream_live` adds the reserved
bucket. Two writes and two changes let a room be loaded, written, unloaded under a second
write, and that write be broadcast although it was refused. Two connections are enough for
one to be removed by a broadcast while the other acts; two tasks for any race between two
commands, and the violations found need no more. Capacities of one make every full-channel
branch happen; the code's 1024, 256, 200 and 128 only make it rarer. Three versions allow
a transaction of two commands beside a single write. Seven commands (`kernel_sequential`)
allow: create a room and a bucket, write, delete the bucket, create it again, unload,
load. (With two room ids and six commands the same properties hold; the run takes too long
to keep.) Five sockets and two attempts let a client lose its connection, use up its
attempts, and start over, with a late event of every old socket. Two tokens and four
seconds let the clock be set back past the first token's issue and let both additions
saturate. `kernel` uses symmetry between the two tasks and `downstream` between the two
connections, which nothing distinguishes there; the runs with liveness properties use
none.

All runs set `CHECK_DEADLOCK FALSE`: the store is passive and stops at its bounds, and in
the others everything may legitimately come to rest (no commands left, all peers gone).
That nothing gets stuck half way is what `CommandsComplete`, `ClosedClientsLeaveHub`,
`LatestIsSeen` and `ProcessorKeepsConsuming` are about.

### Fairness

`Client`: weak fairness of the reconnect timer, of the close event of each socket that is
closing, and of an outcome (open or lost) for each socket that is connecting: timers fire
and sockets report, as the browser promises. Connections need not fail, messages need not
come, and the application need not call anything.

`Kernel`: weak fairness of each task's next step. tokio polls every ready task, database
calls return, and tokio's `RwLock` is fair, so a task waiting for the state lock is
served. Requests, crashes, evictions and faults need not happen.

`Downstream`: weak fairness of each connection task, the forwarder, the message processor
and the rest of a write that has begun (`ApplyWrite`, `Broadcast`). Handshakes, commands
and closing are up to peers. Writing to a socket is among the fair steps, which assumes
that peers read; the code has no write timeout, and a rejected peer that does not read
would hold the hub lock. `downstream_live` also assumes that no channel fills up
(capacities 4, 8, 8 exceed what the instance can produce); `downstream_stall` is what
happens otherwise.

## What is proved

Every theorem holds for all values of the constants that satisfy the named assumptions
(`RoomAssumption`, `StoreAssumption`, `KernelAssumption`, ...), which TLC evaluates in the
runs. The bounds (`MaxCommands`, `MaxCrashes`, `MaxCounter`, ...) are constants like the
others, so they can be taken as large as wanted. Each component has a main inductive
invariant, whose proof has one lemma per action; smaller ones build on it.

| Module | Invariants | What a step may never do | Refinement |
|---|---|---|---|
| `RoomStoreProofs` | `TypeCorrect`, `VersionsCorrect`, `BucketMapsCorrect`, `LabelsCorrect`, `CommitCorrect` | `VersionsOnlyGrow`, `TxIsolation`, `IdsNeverReused` | |
| `RoomSyncProofs` | `SyncTypeCorrect`, `SnapshotPlusDeltaIsPresent`, `GrantsHold` | | `ReaderLeavesStoreAlone` |
| `TokensProofs` | `TokenTypeCorrect`, `TokensDiffer`, `TtlKept` | `TokenRoomsNeverReused` | `TokensLeaveStoreAlone` |
| `KernelProofs` | `KernelTypeCorrect`, `UnloadedHoldsNothing`, `FreshIdsCorrect`, `AckedWritesCorrect`, `BroadcastCorrect`, `MemoryStaysSound` | `CommandsNeverReuse`, `RunningIdsNeverReused` | |
| `UpstreamProofs` | `CacheStaysCurrent`, `MemoryFitsDisk`, `FreshReads`, `PromisesKept`, `LoneLoadsAreExclusive` | | `ImplementsService` |
| `DownstreamProofs` | `TypeCorrect`, `HubCorrect`, `LimitHolds`, `GrantsRespected`, `NoGap`, `LockHeldAcrossAwait` | `DeadlockIsForever` | |
| `FeedProofs` | `StepsBack`, `AtMostTwice`, `SyncStaysInRoom` | `ForeignValuesAreBroadcasts` | `ImplementsFeed` |
| `ClientProofs` | `ClientTypeCorrect`, `OneSocketOnly`, `AuthenticatesOnce`, `NeverStranded`, `DisconnectLeavesNoSocket` | `DisconnectStartsNothing` | |

**The store.** `IInv` is type correctness, `RoomOK` of every room (versions bounded by the
counter and unique above 0; nothing attached to a missing bucket), ids below
`next_room_id`, and labels of existing rooms. Uniqueness alone is not inductive: a new
version is fresh only because all others are at most the counter, and the maps can only be
shown to agree together with the bucket set. `Commit` needs that the last write of each
slot exists and that different slots have different last writes (`BoundedHasMax`,
`LastWriteIsAWrite`). `IdsNeverReused` follows from three facts: a room's id is below
`next_room_id`, `next_room_id` never falls, and an id below it that names no room stays so.
`CommitCorrect` compares the closed form of `tx_end` with its loop without induction over
data: the closed form of every prefix of the buffer is a function that satisfies the
loop's recursion, and a function that satisfies it is unique, since two of them would
differ at a least prefix.

**The reader.** `SyncIInv` adds `Tracks`: every visible slot whose entry is not newer than
`since` has the room's present value in the view, if the view is intact or the entry has a
version above 0. A load or unload keeps it because it leaves the counter and gives what it
leaves behind version 0 (`ReplacedRoom`). The reader's own steps leave the store
alone, so `RoomSync` implements `RoomStore` and the store's theorems hold beside it.

**Tokens.** The code keeps only the last issue time, so `TInv` speaks of it: it is below
the latest clock plus the number of tokens, and no token outlives one issued at that time.
From the second, the next token expires later than all before it, however the clock is
set; from the first, the surplus over the ttl is at most a second per earlier token. Here
too the store's specification is implemented, and a token's room id is never another's.

**The kernel.** `KInv` says that what a task carries between its steps is still true when
it comes back, whatever other tasks did meanwhile: it works on an id that was handed out
before, on a room with a directory if it loads (`TasksOK`); the state lock is held by
exactly the task that persists under it (`LockOK`); of two overlapping writes of a slot
neither counts as alone, and what a lone one put on disk is there (`WritesOK`); the room's
counter has reached the version of the write, and the counter read later is not below it,
unless the room was deleted and it is 0 (`VersionsOK`). `DiskOK`, and `MemoryOK` (the
store's `IInv`, and that no room has an open transaction, for the kernel opens none),
complete it. It is inductive with any number of tasks, crashes and faults.
`AckedWritesAreDurable` needs `WritesOK`, since the database is written two steps before
the answer, and `BroadcastNotTooOld` needs `VersionsOK` for the same reason.
`CommandsNeverReuse` and `RunningIdsNeverReused` carry over to `Kernel` what `RoomStore`
promises of a step, command by command (`CommandSteps`). A restart is excepted: it sets
counters back to 0 and gives a deleted room's id back to it.

**The interface.** The theorems of `UpstreamProofs` are about one multi-step command at a
time, without crashes and faults (`UpstreamAssumption`); without that restriction the
cache may be stale and a load may undo a write, as `kernel_cache` and `kernel_load` show.
`UInv` rests on `After`: what the database of a room will hold once the running command
has done its part. The memory of every loaded room agrees with that at every step
(`RoomsFit`), and so do cached records (`CachesFit`), the list of ids (`ListsFit`) and
what a load has read (`LoadFit`), each up to the step the running command is about to
make; `OwnerFits` says that the room of a command that holds the lock stays loaded.
Between commands `After` is the disk itself, which gives `CacheIsCurrent` and
`MemoryMatchesDisk`, and with `AckedWritesAreDurable` also `ReadsAreNotStale`. For
`ImplementsService`, every step of `Kernel` is shown to be one of `Service` (at `NewRoom`,
`UnloadRoom`, `DeleteRoom`, the first step of a command on a bucket or member,
`StartWrite`, `ApplyWrite` and `Install`) or to change nothing of what the mapping sees.
`LoadFit` also gives `LoneLoadsAreExclusive`: the property `kernel_load` finds violated
does hold when no other command of several steps runs.

**The hub.** `IInv` of `DownstreamProofs`: connection ids are handed out once
(`next_conn_id` is at most one more than the tasks past their handshake, so, with fewer
connections than ids (`DownstreamAssumption`), the saturation of `saturating_add` is never
reached and no two tasks share an id), the hub's entries are those of running tasks with
their own grants, and every message under way, including what the processor has collected,
is for somebody and within that client's grant; a writer that has yet to store has nothing
to broadcast (`WritersOK`). The hub's two tables agree as a part of it. `NoGap` adds
`Way`: at each step, the value of a bucket, if it was written and not restored, is in the
client's stream, or in one of the places from which it still gets there, or was thrown
away by a full channel. `FeedInv` adds what the refinement needs: a connection's
synchronisation is in one place at a time (`OneSync`), no notification is in two places
and no unsent update is of a write yet to come (`EachOnce`); otherwise one step of
`Downstream` could remove two things from an abstract set or none.

**What a client is given.** These proofs go through the refinement: they split a step of
`Feed`, not of `Downstream`, except that who gives what is read off `Forward`. `OrderInv`:
nobody holds a value of a write yet to come (`NoneAhead`); a synchronisation reads each
bucket once and has nothing under way before it has read (`OneTarget`); and, with one
writer, what is in the writer, the notification channel and the forwarder is in the order
of the writes (`InWriteOrder`), and each stream is in order but for one value per bucket,
and for none of a bucket the synchronisation has still to send (`StreamOK`). That is
`StepsBack`. It is about the order of `WriteFragment` commands, those `set_fragment`
refused included, and not about the counters that go with the values, which in a broadcast
after a refused write may repeat or be 0. `AtMostTwice` holds for any number of writers: a
value given once is no longer both to be broadcast and to be synchronised, one given twice
is neither (`TwiceInv`). `ForeignValuesAreBroadcasts` bounds what `downstream_rooms`
finds, and `DeadlockIsForever` shows that what `downstream_stall` finds does not heal: the
connection that waits for the channel and the processor that waits for the hub keep each
other waiting whatever else happens.

**The client.** `CInv` says of every client that it is well formed, and of a tidy one how
its fields fit its sockets: one live socket, held in `ws` until it closes (`Single`);
`connecting` covers every attempt and ends with its socket (`Attempting`); a timer runs
alone and only when no socket is alive (`Timed`); what is open has authenticated once.
`ToldToStop` (a client that is not wanted has `closedByUser` set, or was never used) holds
for hasty applications too and gives `DisconnectStartsNothing`, the safety half of
`DisconnectIsFinal`.

Only model-checked are the liveness properties (`CommandsComplete`, `ClosedClientsLeaveHub`,
`LatestIsSeen`, `LostIsRetried`, `DisconnectIsFinal`): TLAPS does not reason about fairness
and ENABLED here. The four violations are counterexamples, hence TLC's alone; three of
them have a theorem above that says how far they go.

## What is not modelled

- Tokens: signatures; issuer and audience, which `validate_jwt` does not check. Its
  library's leeway after the expiry is taken back by the second test there, so `Accepts`
  is that test. A token is not bound to one run of the server; `Tokens` is about one run.
- gRPC: the API key, configuration errors of `issue_jwt`, payload bytes (what is not JSON
  is stored as a JSON string), how lists are written down.
- TypeScript client: the promises `connect()` returns (the one of a connection that fails
  before it opens never settles, `client/src/index.ts:97-102`), listeners as such, and the
  wire format: it sends JSON text where the server reads binary protobuf, so `Client` is
  about the client alone and is not composed with `Downstream`.
- Rust client library: one-line wrappers. The accept loop: one task per accepted socket,
  with which `Downstream` starts.
- Metrics, logging, configuration, origins, ping/pong and malformed frames.
- RocksDB: a map with atomic single-key operations and snapshot iterators that survives a
  process crash (its write-ahead log is not synced, so a power failure may lose more).
- Overflow of room counters and room ids (`u64`), which the models take as unbounded. For
  room ids it can be reached: `LoadRoom` of the id 2^64 - 1, which names no room, creates a
  database all the same, and the next start computes `max_id + 1` (`main.rs:280`).
  Connection ids saturate as in the code, under the assumption that fewer connections are
  ever made; beyond it two clients would share an id.
- A database that fails to open at startup: its room would be unknown and its id, and with
  it the data, might be given to a new room. `FreshIdsHoldNoData` holds for startups that
  open every database.
- In `Downstream`: the counters of updates (above), more than one key in a bucket, which
  buckets a load finds on disk (any), and that a deleted room is never loaded again. What a
  client is sent when its room is loaded after it connected is nothing, so its values stay
  missing there until they are written again; `LatestIsOnItsWay` and `LatestIsSeen` speak of
  written values only, and no document promises the others.
- Two merged steps in `Kernel`: `LoadRecords` reads the records of all bucket ids in one
  step (one database read per id in the code, `persistance/mod.rs:300`), and `UpdateCache`
  reads the cached records and puts them back changed in one (two acquisitions of the
  cache's lock, `persistance/mod.rs:257-267`). What another task could do in between is a
  `LoadRoom` that reads some records before and some after a bucket command, or whose own
  entry is put over, or an eviction that is undone: more of what `kernel_cache` shows. No
  property claims anything of the cache when a load and a bucket command overlap.
- A peer that vanishes silently: the connection task has no read timeout, and
  `ClosedClientsLeaveHub` starts when the task has left its loop.
- The encoding of updates: a deletion is sent as the value null, never with `deleted` set.
- `LoadRoom` restores only fragments of buckets that have a record, so a bucket created by
  a write alone is lost on reload; `DeleteBucket` leaves fragments on disk, so creating
  the bucket again and reloading brings them back. Both are in the model; no document says
  otherwise, so no property does.

## Plan

Done, in this order: `Room` and `RoomStore` with their proofs; `RoomSync` and its proofs;
`Downstream`; `Kernel`; `Tokens`; `Feed` and the refinement; `Service`, `Upstream` and the
refinement; `Client`; then the proofs about `Downstream`, its refinement of `Feed`,
`Kernel`, `Tokens`, `Client`, and `Upstream` with its refinement of `Service`; last, the
order, number and origin of what clients are given, the loop of `tx_end`, what `Kernel`
never reuses while it runs, and what follows a `disconnect()`.

What is left would need more from the code or from the tools: the liveness properties for
every value of the constants, a contract for concurrent commands once `io_locked` or its
like is set, and a room in `DataUpdate`, with which `OnlyOwnRoom` could be proved.
