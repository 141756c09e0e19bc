-------------------------------- MODULE Kernel --------------------------------
(***************************************************************************)
(* SyncpondKernel::handle_command (sp-kernel/src/kernel.rs) over AppState  *)
(* (RoomStore) and the per-room databases (sp-kernel/src/persistance), and *)
(* the server's restart (server/src/main.rs).  Requests run concurrently,  *)
(* one task each; a step is what a task does between two points where      *)
(* another task can get in: a lock it releases or a database call.         *)
(*                                                                         *)
(* The AppState lock is held across steps only by the commands that persist*)
(* under `state.write()`; state_lock names their task.  Every other use of *)
(* the lock is one step, enabled while nobody holds it.  A command that is *)
(* refused changes nothing and is not a step.                              *)
(***************************************************************************)
EXTENDS RoomStore, FiniteSets

CONSTANTS
    Tasks,        \* requests in flight at a time
    Ops,          \* the kinds of commands an instance issues
    Empty,        \* the empty string
    None, Free, Unknown,
    MaxCommands,  \* bound: commands issued
    MaxCrashes,   \* bound: crashes
    MaxFaults     \* bound: database calls that fail

AllOps == {"NewRoom", "NewBucket", "DeleteBucket", "NewMember", "DeleteMember",
           "WriteFragment", "LoadRoom", "UnloadRoom", "DeleteRoom"}

ASSUME KernelAssumption ==
    /\ Ops \subseteq AllOps
    /\ Empty \in RawNames \ LegalNames
    /\ Free \notin Tasks
    /\ Unknown \notin Values \cup {Null}
    /\ MaxCommands \in Nat /\ MaxCrashes \in Nat /\ MaxFaults \in Nat
    /\ MaxCommands <= MaxCounter   \* set_fragment's bound never stops a task

VARIABLES
    db,          \* room id -> its database, for every directory on disk
    cache,       \* room id -> bucket records (the LRU cache of load_buckets)
    state_lock,  \* the task holding state.write() across steps, or Free
    task,        \* task -> what it is executing
    sent,        \* the last update given to Downstream::broadcast
    acked,       \* room, slot -> value of the last write (see StartWrite)
    issued, crashes, faults

diskVars == <<db, cache>>
budget   == <<issued, crashes, faults>>
kernelVars == <<rooms, labels, next_room_id, db, cache, state_lock, task, sent,
                acked, issued, crashes, faults>>

Ids == 1..MaxRoomId

EmptyDb == [fragments |-> [s \in Slots |-> Absent],
            records   |-> << >>,      \* "bucket:<id>" keys
            list      |-> Absent,     \* "/room/<id>/buckets" key
            members   |-> {}]         \* "/room/<id>/members" key

Idle == [pc |-> "idle", cmd |-> None, local |-> None]

KernelInit ==
    /\ Init
    /\ db = << >>
    /\ cache = << >>
    /\ state_lock = Free
    /\ task = [t \in Tasks |-> Idle]
    /\ sent = None
    /\ acked = [rs \in Ids \X Slots |-> Unknown]
    /\ issued = 0 /\ crashes = 0 /\ faults = 0

-----------------------------------------------------------------------------
\* Maps: insert or replace, and remove.
With(f, x, v) == [y \in DOMAIN f \cup {x} |-> IF y = x THEN v ELSE f[y]]
Without(f, x) == [y \in DOMAIN f \ {x} |-> f[y]]

\* open_room_db creates the directory of a room that has none.
DbOf(r) == IF r \in DOMAIN db THEN db[r] ELSE EmptyDb
WriteDb(r, content) == db' = With(db, r, content)

Issue(op) == op \in Ops /\ issued < MaxCommands /\ issued' = issued + 1

Loaded(r) == r \in DOMAIN rooms /\ rooms[r].loaded

Begin(t, label, cmd, local) ==
    /\ task[t].pc = "idle"
    /\ task' = [task EXCEPT ![t] = [pc |-> label, cmd |-> cmd, local |-> local]]

Goto(t, label) == task' = [task EXCEPT ![t].pc = label]
Keep(t, label, local) ==
    task' = [task EXCEPT ![t] = [@ EXCEPT !.pc = label, !.local = local]]
Done(t) == task' = [task EXCEPT ![t] = Idle]

-----------------------------------------------------------------------------
(* Commands that are one critical section: the handler never lets go.       *)

\* The database directory is created right away unless that fails.
NewRoom(raw) ==
    /\ Issue("NewRoom")
    /\ state_lock = Free
    /\ next_room_id <= MaxRoomId
    /\ next_room_id' = next_room_id + 1
    /\ rooms' = With(rooms, next_room_id, EmptyRoom)
    /\ labels' = IF Trim[raw] \in LegalNames \ DOMAIN labels
                 THEN With(labels, Trim[raw], next_room_id) ELSE labels
    /\ \/ WriteDb(next_room_id, DbOf(next_room_id)) /\ UNCHANGED faults
       \/ faults < MaxFaults /\ faults' = faults + 1 /\ UNCHANGED db
    /\ UNCHANGED <<cache, state_lock, task, sent, acked, crashes>>

UnloadRoom(r) ==
    /\ Issue("UnloadRoom")
    /\ state_lock = Free
    /\ unload_room(r)
    /\ UNCHANGED <<diskVars, state_lock, task, sent, acked, crashes, faults>>

\* The database of a deleted room stays on disk.
DeleteRoom(r) ==
    /\ Issue("DeleteRoom")
    /\ state_lock = Free
    /\ delete_room(r)
    /\ UNCHANGED <<diskVars, state_lock, task, sent, acked, crashes, faults>>

-----------------------------------------------------------------------------
(* NewBucket and DeleteBucket: memory first, then the bucket's record, the  *)
(* list of bucket ids and the cache, all under the write lock.              *)

LabelOption(raw) == IF Trim[raw] = Empty THEN Absent ELSE Trim[raw]

LockFor(t, op, r) ==
    /\ Issue(op)
    /\ state_lock = Free
    /\ state_lock' = t
    /\ Loaded(r)
    /\ UNCHANGED <<diskVars, sent, acked, crashes, faults>>

\* Creating a bucket again keeps its entries and flags, and its label unless a
\* new one is given; the persisted record is replaced in any case.
NewBucket(t, r, b, raw) ==
    /\ LockFor(t, "NewBucket", r)
    /\ SetRoom(r, [rooms[r] EXCEPT
           !.buckets = @ \cup {b},
           !.bucket_labels = IF LabelOption(raw) = Absent THEN @
                             ELSE [@ EXCEPT ![b] = LabelOption(raw)]])
    /\ Begin(t, "record", [op |-> "NewBucket", room |-> r, bucket |-> b,
                           record |-> [label |-> LabelOption(raw), flags |-> {}]],
             None)

\* The bucket's fragments go from memory but stay in the database.
DeleteBucket(t, r, b) ==
    /\ LockFor(t, "DeleteBucket", r)
    /\ SetRoom(r, [rooms[r] EXCEPT
           !.buckets = @ \ {b},
           !.entries = [s \in Slots |-> IF s[1] = b THEN Absent ELSE @[s]],
           !.bucket_labels = [@ EXCEPT ![b] = Absent],
           !.bucket_flags = [@ EXCEPT ![b] = {}]])
    /\ Begin(t, "record", [op |-> "DeleteBucket", room |-> r, bucket |-> b], None)

\* What the command does to a map of bucket records.
Applied(cmd, records) ==
    IF cmd.op = "NewBucket" THEN With(records, cmd.bucket, cmd.record)
    ELSE Without(records, cmd.bucket)

PutRecord(t) ==
    LET cmd == task[t].cmd
    IN  /\ task[t].pc = "record"
        /\ WriteDb(cmd.room, [DbOf(cmd.room) EXCEPT !.records = Applied(cmd, @)])
        /\ Goto(t, "list")
        /\ UNCHANGED <<vars, cache, state_lock, sent, acked, budget>>

PutList_Slip(t) ==   \* deleting a bucket leaves the list alone
    LET cmd == task[t].cmd
        content == DbOf(cmd.room)
    IN  /\ task[t].pc = "list"
        /\ WriteDb(cmd.room, [content EXCEPT !.list =
               IF cmd.op = "NewBucket" THEN DOMAIN content.records ELSE @])
        /\ Goto(t, "cache")
        /\ UNCHANGED <<vars, cache, state_lock, sent, acked, budget>>
PutList(t) ==
    LET content == DbOf(task[t].cmd.room)
    IN  /\ task[t].pc = "list"
        /\ WriteDb(task[t].cmd.room, [content EXCEPT !.list = DOMAIN content.records])
        /\ Goto(t, "cache")
        /\ UNCHANGED <<vars, cache, state_lock, sent, acked, budget>>

UpdateCache_Slip(t) ==   \* the lock is never released
    LET cmd == task[t].cmd
    IN  /\ task[t].pc = "cache"
        /\ cache' = IF cmd.room \in DOMAIN cache
                    THEN [cache EXCEPT ![cmd.room] = Applied(cmd, @)] ELSE cache
        /\ Done(t)
        /\ UNCHANGED <<vars, db, state_lock, sent, acked, budget>>
UpdateCache_MissSlip(t) ==   \* a cached room is taken to be up to date
    /\ task[t].pc = "cache"
    /\ state_lock' = Free
    /\ Done(t)
    /\ UNCHANGED <<vars, db, cache, sent, acked, budget>>
\* Only a room that is in the cache has its entry replaced.
UpdateCache(t) ==
    LET cmd == task[t].cmd
    IN  /\ task[t].pc = "cache"
        /\ cache' = IF cmd.room \in DOMAIN cache
                    THEN [cache EXCEPT ![cmd.room] = Applied(cmd, @)] ELSE cache
        /\ state_lock' = Free
        /\ Done(t)
        /\ UNCHANGED <<vars, db, sent, acked, budget>>

\* More than BUCKET_CACHE_CAPACITY rooms were cached, and r the longest ago.
Evict(r) ==
    /\ cache' = Without(cache, r)
    /\ UNCHANGED <<vars, db, state_lock, task, sent, acked, budget>>

-----------------------------------------------------------------------------
(* NewMember and DeleteMember: memory, then the list in the database.       *)

NewMember(t, r, raw) ==
    /\ LockFor(t, "NewMember", r)
    /\ SetRoom(r, [rooms[r] EXCEPT !.members = @ \cup ({Trim[raw]} \ {Empty})])
    /\ Begin(t, "members", [op |-> "NewMember", room |-> r, member |-> Trim[raw]], None)

DeleteMember(t, r, raw) ==
    /\ LockFor(t, "DeleteMember", r)
    /\ SetRoom(r, [rooms[r] EXCEPT !.members = @ \ {Trim[raw]}])
    /\ Begin(t, "members", [op |-> "DeleteMember", room |-> r, member |-> Trim[raw]], None)

PutMembers_Slip(t) ==   \* removes the member from memory only
    LET cmd == task[t].cmd
    IN  /\ task[t].pc = "members"
        /\ WriteDb(cmd.room, [DbOf(cmd.room) EXCEPT !.members =
               IF cmd.op = "NewMember" THEN @ \cup ({cmd.member} \ {Empty}) ELSE @])
        /\ state_lock' = Free
        /\ Done(t)
        /\ UNCHANGED <<vars, cache, sent, acked, budget>>
PutMembers(t) ==
    LET cmd == task[t].cmd
    IN  /\ task[t].pc = "members"
        /\ WriteDb(cmd.room, [DbOf(cmd.room) EXCEPT !.members =
               IF cmd.op = "NewMember" THEN @ \cup ({cmd.member} \ {Empty})
               ELSE @ \ {cmd.member}])
        /\ state_lock' = Free
        /\ Done(t)
        /\ UNCHANGED <<vars, cache, sent, acked, budget>>

-----------------------------------------------------------------------------
(* WriteFragment: five steps, the state lock released between them.         *)

WritesSlot(t, r, s) ==
    task[t].pc \in {"apply", "fragment", "counter", "broadcast"}
      /\ task[t].cmd.room = r /\ task[t].cmd.slot = s

\* acked forgets the slot when a write of it begins; `alone` holds as long as no
\* other write of the slot overlaps this one.
StartWrite(t, r, s, v) ==
    /\ Issue("WriteFragment")
    /\ state_lock = Free
    /\ Loaded(r)
    /\ task[t].pc = "idle"
    /\ LET others == {u \in Tasks : WritesSlot(u, r, s)}
       IN  task' = [u \in Tasks |->
             IF u = t
             THEN [pc |-> "apply",
                   cmd |-> [op |-> "WriteFragment", room |-> r, slot |-> s, value |-> v],
                   local |-> [version |-> 0, counter |-> 0, alone |-> others = {}]]
             ELSE IF u \in others THEN [task[u] EXCEPT !.local.alone = FALSE]
             ELSE task[u]]
    /\ acked' = [acked EXCEPT ![<<r, s>>] = Unknown]
    /\ UNCHANGED <<vars, diskVars, state_lock, sent, crashes, faults>>

ApplyWrite_Slip(t) ==   \* trusts the check StartWrite made
    LET cmd == task[t].cmd
    IN  /\ task[t].pc = "apply"
        /\ state_lock = Free
        /\ IF cmd.room \in DOMAIN rooms
           THEN /\ SetRoom(cmd.room, Put(rooms[cmd.room], cmd.slot, cmd.value))
                /\ Keep(t, "fragment", [task[t].local EXCEPT
                            !.version = rooms[cmd.room].room_counter + 1])
           ELSE UNCHANGED vars /\ Goto(t, "fragment")
        /\ UNCHANGED <<diskVars, state_lock, sent, acked, budget>>
\* A room that was unloaded or deleted meanwhile is only an error in the log.
ApplyWrite(t) ==
    LET cmd == task[t].cmd
    IN  /\ task[t].pc = "apply"
        /\ state_lock = Free
        /\ IF Loaded(cmd.room)
           THEN /\ set_fragment(cmd.room, cmd.slot, cmd.value)
                /\ Keep(t, "fragment", [task[t].local EXCEPT
                            !.version = rooms[cmd.room].room_counter + 1])
           ELSE UNCHANGED vars /\ Goto(t, "fragment")
        /\ UNCHANGED <<diskVars, state_lock, sent, acked, budget>>

\* null deletes the key of the fragment.
Stored(v) == IF v = Null THEN Absent ELSE v

PutFragment_Slip(t) ==   \* a deletion is not persisted
    LET cmd == task[t].cmd
    IN  /\ task[t].pc = "fragment"
        /\ WriteDb(cmd.room, [DbOf(cmd.room) EXCEPT !.fragments =
               IF cmd.value = Null THEN @ ELSE [@ EXCEPT ![cmd.slot] = cmd.value]])
        /\ Goto(t, "counter")
        /\ UNCHANGED <<vars, cache, state_lock, sent, acked, budget>>
PutFragment(t) ==
    LET cmd == task[t].cmd
    IN  /\ task[t].pc = "fragment"
        /\ WriteDb(cmd.room, [DbOf(cmd.room) EXCEPT
               !.fragments = [@ EXCEPT ![cmd.slot] = Stored(cmd.value)]])
        /\ Goto(t, "counter")
        /\ UNCHANGED <<vars, cache, state_lock, sent, acked, budget>>

ReadCounter_Slip(t) ==   \* the counter before the write
    LET r == task[t].cmd.room
    IN  /\ task[t].pc = "counter"
        /\ state_lock = Free
        /\ Keep(t, "broadcast", [task[t].local EXCEPT !.counter =
               IF r \in DOMAIN rooms /\ rooms[r].room_counter > 0
               THEN rooms[r].room_counter - 1 ELSE 0])
        /\ UNCHANGED <<vars, diskVars, state_lock, sent, acked, budget>>
\* room_version(..).unwrap_or(0), under a lock of its own.
ReadCounter(t) ==
    LET r == task[t].cmd.room
    IN  /\ task[t].pc = "counter"
        /\ state_lock = Free
        /\ Keep(t, "broadcast", [task[t].local EXCEPT !.counter =
               IF r \in DOMAIN rooms THEN rooms[r].room_counter ELSE 0])
        /\ UNCHANGED <<vars, diskVars, state_lock, sent, acked, budget>>

\* The update goes to the notification channel and the caller is answered.
BroadcastWrite(t) ==
    LET cmd == task[t].cmd
        loc == task[t].local
    IN  /\ task[t].pc = "broadcast"
        /\ sent' = [room |-> cmd.room, slot |-> cmd.slot, value |-> cmd.value,
                    counter |-> loc.counter, version |-> loc.version]
        /\ acked' = IF loc.alone THEN [acked EXCEPT ![<<cmd.room, cmd.slot>>] = cmd.value]
                    ELSE acked
        /\ Done(t)
        /\ UNCHANGED <<vars, diskVars, state_lock, budget>>

-----------------------------------------------------------------------------
(* LoadRoom: the database is read without the state lock, key by key.       *)

Image == [defs |-> << >>, members |-> {}, fragments |-> EmptyDb.fragments]

\* Any id may be loaded: an unknown one gets a database before it is refused.
StartLoad(t, r) ==
    /\ Issue("LoadRoom")
    /\ WriteDb(r, DbOf(r))
    /\ LET cmd == [op |-> "LoadRoom", room |-> r]
       IN  IF r \in DOMAIN cache
           THEN Begin(t, "load_members", cmd, [Image EXCEPT !.defs = cache[r]])
           ELSE Begin(t, "load_list", cmd, Image)
    /\ UNCHANGED <<vars, cache, state_lock, sent, acked, crashes, faults>>

\* The list of bucket ids; without one the records are found by a scan.
LoadList(t) ==
    LET content == DbOf(task[t].cmd.room)
    IN  /\ task[t].pc = "load_list"
        /\ IF content.list = Absent
           THEN Keep(t, "load_cache", [task[t].local EXCEPT !.defs = content.records])
           ELSE task' = [task EXCEPT ![t] = [@ EXCEPT !.pc = "load_records",
                            !.cmd = [op |-> "LoadRoom", room |-> task[t].cmd.room,
                                     list |-> content.list]]]
        /\ UNCHANGED <<vars, diskVars, state_lock, sent, acked, budget>>

\* The record of each id in the list.
LoadRecords(t) ==
    LET records == DbOf(task[t].cmd.room).records
        found == task[t].cmd.list \cap DOMAIN records
    IN  /\ task[t].pc = "load_records"
        /\ Keep(t, "load_cache",
                [task[t].local EXCEPT !.defs = [b \in found |-> records[b]]])
        /\ UNCHANGED <<vars, diskVars, state_lock, sent, acked, budget>>

LoadCache(t) ==
    /\ task[t].pc = "load_cache"
    /\ cache' = With(cache, task[t].cmd.room, task[t].local.defs)
    /\ Goto(t, "load_members")
    /\ UNCHANGED <<vars, db, state_lock, sent, acked, budget>>

LoadMembers(t) ==
    /\ task[t].pc = "load_members"
    /\ Keep(t, "load_fragments", [task[t].local EXCEPT
                !.members = DbOf(task[t].cmd.room).members])
    /\ UNCHANGED <<vars, diskVars, state_lock, sent, acked, budget>>

LoadFragments(t) ==
    /\ task[t].pc = "load_fragments"
    /\ Keep(t, "install", [task[t].local EXCEPT
                !.fragments = DbOf(task[t].cmd.room).fragments])
    /\ UNCHANGED <<vars, diskVars, state_lock, sent, acked, budget>>

\* load_room_data, if the room still exists.
Install(t) ==
    /\ task[t].pc = "install"
    /\ state_lock = Free
    /\ IF task[t].cmd.room \in DOMAIN rooms
       THEN load_room_data(task[t].cmd.room, task[t].local)
       ELSE UNCHANGED vars
    /\ Done(t)
    /\ UNCHANGED <<diskVars, state_lock, sent, acked, budget>>

-----------------------------------------------------------------------------
\* A database write fails: the error is logged, the rest of that helper is
\* skipped, and the command goes on as if it had succeeded.
DiskFault(t) ==
    /\ faults < MaxFaults
    /\ faults' = faults + 1
    /\ \/ /\ task[t].pc = "fragment"
          /\ Keep(t, "counter", [task[t].local EXCEPT !.alone = FALSE])
          /\ UNCHANGED state_lock
       \/ /\ task[t].pc \in {"record", "list", "members"}
          /\ Done(t)
          /\ state_lock' = Free
    /\ UNCHANGED <<vars, diskVars, sent, acked, issued, crashes>>

\* The scan for the list of bucket ids ends early, which nobody notices.
ShortList(t) ==
    LET content == DbOf(task[t].cmd.room)
    IN  /\ task[t].pc = "list"
        /\ faults < MaxFaults
        /\ faults' = faults + 1
        /\ \E found \in SUBSET DOMAIN content.records :
              WriteDb(task[t].cmd.room, [content EXCEPT !.list = found])
        /\ Goto(t, "cache")
        /\ UNCHANGED <<vars, cache, state_lock, sent, acked, issued, crashes>>

\* A read of LoadRoom fails.  A list that cannot be read is taken for missing,
\* a scan or a record that cannot be read leaves a bucket out, of the cache too,
\* and members count as none; only failing to read the fragments ends the load.
ReadFault(t) ==
    LET content == DbOf(task[t].cmd.room)
        loc == task[t].local
    IN  /\ faults < MaxFaults
        /\ faults' = faults + 1
        /\ \/ /\ task[t].pc = "load_list"
              /\ \E found \in IF content.list = Absent THEN SUBSET DOMAIN content.records
                              ELSE {DOMAIN content.records} :
                    Keep(t, "load_cache",
                         [loc EXCEPT !.defs = [b \in found |-> content.records[b]]])
           \/ /\ task[t].pc = "load_records"
              /\ \E unread \in task[t].cmd.list :
                    LET found == (task[t].cmd.list \cap DOMAIN content.records) \ {unread}
                    IN  Keep(t, "load_cache",
                             [loc EXCEPT !.defs = [b \in found |-> content.records[b]]])
           \/ task[t].pc = "load_members" /\ Goto(t, "load_fragments")
           \/ task[t].pc = "load_fragments" /\ Done(t)
        /\ UNCHANGED <<vars, diskVars, state_lock, sent, acked, issued, crashes>>

Stub == [EmptyRoom EXCEPT !.loaded = FALSE]

Crash_Slip ==   \* ids start from 1 again
    /\ crashes < MaxCrashes
    /\ crashes' = crashes + 1
    /\ rooms' = [r \in DOMAIN db |-> Stub]
    /\ next_room_id' = 1
    /\ labels' = << >>
    /\ cache' = << >>
    /\ state_lock' = Free
    /\ task' = [t \in Tasks |-> Idle]
    /\ sent' = None
    /\ UNCHANGED <<db, acked, issued, faults>>
\* The process dies and starts again (main): every directory becomes an
\* unloaded room and ids continue above the largest.
Crash ==
    /\ crashes < MaxCrashes
    /\ crashes' = crashes + 1
    /\ rooms' = [r \in DOMAIN db |-> Stub]
    /\ next_room_id' = CHOOSE n \in 1..(MaxRoomId + 1) :
           /\ \A r \in DOMAIN db : r < n
           /\ n = 1 \/ n - 1 \in DOMAIN db
    /\ labels' = << >>
    /\ cache' = << >>
    /\ state_lock' = Free
    /\ task' = [t \in Tasks |-> Idle]
    /\ sent' = None
    /\ UNCHANGED <<db, acked, issued, faults>>

-----------------------------------------------------------------------------
\* Requests that end with the step that starts them, and those that go on.
AtOnce ==
    \/ \E raw \in RawNames : NewRoom(raw)
    \/ \E r \in DOMAIN rooms : UnloadRoom(r) \/ DeleteRoom(r)

Started ==
    \/ \E t \in Tasks, r \in DOMAIN rooms :
          \/ \E b \in BucketIds : DeleteBucket(t, r, b)
          \/ \E b \in BucketIds, raw \in RawNames : NewBucket(t, r, b, raw)
          \/ \E raw \in RawNames : NewMember(t, r, raw) \/ DeleteMember(t, r, raw)
          \/ \E s \in Slots, v \in Values \cup {Null} : StartWrite(t, r, s, v)
    \/ \E t \in Tasks, r \in Ids : StartLoad(t, r)

\* What a task does next.
Step(t) ==
    \/ PutRecord(t) \/ PutList(t) \/ UpdateCache(t)
    \/ PutMembers(t)
    \/ ApplyWrite(t) \/ PutFragment(t) \/ ReadCounter(t) \/ BroadcastWrite(t)
    \/ LoadList(t) \/ LoadRecords(t) \/ LoadCache(t)
    \/ LoadMembers(t) \/ LoadFragments(t) \/ Install(t)

Trouble ==
    \/ \E t \in Tasks : DiskFault(t) \/ ShortList(t) \/ ReadFault(t)
    \/ \E r \in DOMAIN cache : Evict(r)
    \/ Crash

KernelNext ==
    \/ AtOnce \/ Started
    \/ \E t \in Tasks : Step(t)
    \/ Trouble

KernelSpec == KernelInit /\ [][KernelNext]_kernelVars

\* tokio runs every task that is not waiting for a lock.
KernelFairSpec == KernelSpec /\ \A t \in Tasks : WF_kernelVars(Step(t))

-----------------------------------------------------------------------------
PcLabels == {"idle", "record", "list", "cache", "members", "apply", "fragment",
             "counter", "broadcast", "load_list", "load_records", "load_cache",
             "load_members", "load_fragments", "install"}

IsRecords(f) == DOMAIN f \subseteq BucketIds /\ \A b \in DOMAIN f : f[b] \in BucketDef

KernelTypeOK ==
    /\ TypeOK
    /\ DOMAIN db \subseteq Ids
    /\ \A r \in DOMAIN db :
          /\ db[r].fragments \in [Slots -> Values \cup {Absent}]
          /\ IsRecords(db[r].records)
          /\ db[r].list \in (SUBSET BucketIds) \cup {Absent}
          /\ db[r].members \subseteq RawNames \ {Empty}
    /\ DOMAIN cache \subseteq DOMAIN db
    /\ \A r \in DOMAIN cache : IsRecords(cache[r])
    /\ state_lock \in Tasks \cup {Free}
    /\ DOMAIN task = Tasks
    /\ \A t \in Tasks :
          /\ task[t].pc \in PcLabels
          /\ task[t].pc = "install" => IsImage(task[t].local)
          /\ state_lock = t <=> task[t].pc \in {"record", "list", "cache", "members"}
    /\ acked \in [Ids \X Slots -> Values \cup {Null, Unknown}]
    /\ issued \in 0..MaxCommands /\ crashes \in 0..MaxCrashes /\ faults \in 0..MaxFaults

(***************************************************************************)
(* A room never starts its life with an old room's data: whatever was      *)
(* deleted, left on disk, asked for by a wrong id or interrupted by a      *)
(* crash, an id NewRoom has yet to hand out has an empty database or none. *)
(***************************************************************************)
FreshIdsHoldNoData == \A r \in DOMAIN db : r >= next_room_id => db[r] = EmptyDb

(***************************************************************************)
(* Once WriteFragment has answered (and its database write did not fail),  *)
(* the value is on disk and stays there through every other command, loads *)
(* and crashes, until another write of the same key begins.                *)
(***************************************************************************)
AckedWritesAreDurable ==
    \A r \in Ids, s \in Slots :
        acked[<<r, s>>] # Unknown => DbOf(r).fragments[s] = Stored(acked[<<r, s>>])

(***************************************************************************)
(* An update is broadcast with a counter that is at least the version of   *)
(* its write, although the counter is read later and under another lock    *)
(* (kernel.rs reads room_version after the database write).  The exception *)
(* is a room that was deleted meanwhile: it has no counter any more, and   *)
(* its update goes out with 0, whatever clients were sent before.          *)
(***************************************************************************)
BroadcastNotTooOld ==
    sent # None => \/ sent.counter >= sent.version
                   \/ sent.counter = 0 /\ sent.room \notin DOMAIN rooms

(***************************************************************************)
(* What the comment on RoomState.io_locked promises ("Set to `true` while  *)
(* a SAVE or LOAD is in progress ... All other operations against the room *)
(* will return `RoomIoBusy`"): what a load has read is still what is on    *)
(* disk when it is put into memory.                                        *)
(***************************************************************************)
LoadIsExclusive ==
    \A t \in Tasks : task[t].pc = "install" =>
        /\ task[t].local.fragments = DbOf(task[t].cmd.room).fragments
        /\ task[t].local.members = DbOf(task[t].cmd.room).members

Quiet == \A t \in Tasks : task[t].pc = "idle"

(***************************************************************************)
(* load_buckets returns "all bucket records stored in the room DB": when   *)
(* no command is running, a cached room has exactly the records on disk,   *)
(* and the list names exactly those.                                       *)
(***************************************************************************)
CacheIsCurrent ==
    Quiet => /\ \A r \in DOMAIN cache : cache[r] = db[r].records
             /\ \A r \in DOMAIN db :
                   db[r].list # Absent => db[r].list = DOMAIN db[r].records

(***************************************************************************)
(* Between commands, what a loaded room shows is what is on disk: the same *)
(* members, a stored value for every live entry and none for a tombstone,  *)
(* a bucket for every record and its label if the record has one.  (Not    *)
(* the converse: buckets made by a write have no record, and a deleted     *)
(* bucket keeps its fragments on disk.)                                    *)
(***************************************************************************)
MemoryMatchesDisk ==
    Quiet => \A r \in DOMAIN rooms \cap DOMAIN db : rooms[r].loaded =>
        /\ rooms[r].members = db[r].members
        /\ \A s \in Slots : rooms[r].entries[s] # Absent =>
              db[r].fragments[s] = Stored(rooms[r].entries[s].value)
        /\ \A b \in DOMAIN db[r].records :
              /\ b \in rooms[r].buckets
              /\ db[r].records[b].label \in {Absent, rooms[r].bucket_labels[b]}

(***************************************************************************)
(* Every command a task begins ends: the state lock is always released,    *)
(* and no fault or race leaves a task waiting.                             *)
(***************************************************************************)
CommandsComplete == \A t \in Tasks : task[t].pc # "idle" ~> task[t].pc = "idle"
=============================================================================
