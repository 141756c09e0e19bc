------------------------------ MODULE Upstream ------------------------------
(***************************************************************************)
(* The gRPC interface (sp-upstream/src/grpc.rs) over the adapter           *)
(* KernelCommandHandler (server/src/main.rs) over Kernel.  It keeps no     *)
(* state: this module says what each call answers, calls that change       *)
(* nothing included, and what the interface promises when loads and the    *)
(* commands on the data of rooms come one at a time, on a server that does *)
(* not crash and whose disk works.  Other callers may read, create, unload *)
(* and delete rooms meanwhile.  What several such commands do to each      *)
(* other is Kernel's subject.                                              *)
(***************************************************************************)
EXTENDS Kernel

ASSUME UpstreamAssumption ==
    /\ \E t \in Tasks : Tasks = {t}
    /\ MaxCrashes = 0 /\ MaxFaults = 0
    /\ None \notin [room : Ids, place : Slots, value : Values \cup {Absent}]

\* The one task whose commands take several steps.
Caller == CHOOSE t \in Tasks : TRUE

-----------------------------------------------------------------------------
(* Errors, by the names the code gives them ("ok" for none), and the gRPC   *)
(* status codes they become.                                                *)

map_room_error_Slip(error) ==   \* a room that is not loaded is not found
    IF error = "ok" THEN "ok"
    ELSE IF error \in {"room_not_loaded", "room_not_found"} THEN "not_found"
    ELSE "internal"

map_room_error(error) ==
    CASE error = "ok" -> "ok"
      [] error = "room_not_loaded" -> "failed_precondition"
      [] error = "room_not_found" -> "not_found"
      [] OTHER -> "internal"

jwt_error(error) ==
    CASE error = "ok" -> "ok"
      [] error = "room_not_found" -> "not_found"
      [] error \in {"reserved_bucket_id", "invalid_member"} -> "invalid_argument"
      [] OTHER -> "internal"

\* Commands on buckets and members skip a room that is missing, and succeed.
edit_error(r) == IF r \in DOMAIN rooms /\ ~rooms[r].loaded THEN "room_not_loaded" ELSE "ok"

\* A write asks is_room_loaded, which says no for a missing room.
write_error(r) == IF Loaded(r) THEN "ok" ELSE "room_not_loaded"

\* delete_room, unload_room, and load_room_data at the end of a load.
room_error(r) == IF r \in DOMAIN rooms THEN "ok" ELSE "room_not_found"

create_room_token_error(r, raw, granted) ==
    IF r \notin DOMAIN rooms THEN "room_not_found"
    ELSE IF Trim[raw] = Empty \/ Trim[raw] \notin rooms[r].members THEN "invalid_member"
    ELSE IF ServerOnlyBucket \in granted THEN "reserved_bucket_id"
    ELSE "ok"

get_fragment_error(r, s) ==
    IF r \notin DOMAIN rooms THEN "room_not_found"
    ELSE IF ~rooms[r].loaded THEN "room_not_loaded"
    ELSE IF s[1] \notin rooms[r].buckets THEN "bucket_not_found"
    ELSE IF rooms[r].entries[s] = Absent THEN "fragment_not_found"
    ELSE IF rooms[r].entries[s].value = Null THEN "fragment_tombstone"
    ELSE "ok"

\* Two calls have one status code for all errors.
AnyError(error, status) == IF error = "ok" THEN "ok" ELSE status

new_bucket_status(r)  == map_room_error(edit_error(r))   \* and its three like
write_fragment_status(r) == map_room_error(write_error(r))
load_room_status(r)   == AnyError(room_error(r), "failed_precondition")
unload_room_status(r) == AnyError(room_error(r), "not_found")
delete_room_status(r) == AnyError(room_error(r), "not_found")

-----------------------------------------------------------------------------
(* Calls that change nothing.                                               *)

list_rooms == [r \in DOMAIN rooms |-> {l \in DOMAIN labels : labels[l] = r}]

\* Any error is an empty list.
list_members(r) == IF Loaded(r) THEN rooms[r].members ELSE {}

\* list_buckets does not look at `loaded`.
list_buckets(r) ==
    IF r \in DOMAIN rooms THEN [b \in rooms[r].buckets |-> rooms[r].bucket_labels[b]]
    ELSE << >>

\* The kernel: every error but room_not_loaded becomes None.
ReadFragment(r, s) ==
    LET error == get_fragment_error(r, s)
    IN  IF error = "room_not_loaded" THEN <<error, Absent>>
        ELSE IF error = "ok" THEN <<"ok", rooms[r].entries[s].value>>
        ELSE <<"ok", Absent>>

\* The call: Absent is `found == false`.
read_fragment(r, s) ==
    <<map_room_error(ReadFragment(r, s)[1]), ReadFragment(r, s)[2]>>

\* The token itself is the subject of Tokens.
issue_jwt(r, raw, granted) == jwt_error(create_room_token_error(r, raw, granted))

-----------------------------------------------------------------------------
(* The refinement.  A bucket or member command takes effect when it begins, *)
(* since the lock it holds keeps everybody out until it has ended; what it  *)
(* has yet to put into the database counts as saved.  A write takes effect  *)
(* at ApplyWrite, a load at Install.                                        *)

RoomSeen(room) ==
    [loaded |-> room.loaded,
     data   |-> [shown   |-> [s \in Slots |-> LiveValue(room, s)],
                 buckets |-> [b \in room.buckets |-> room.bucket_labels[b]],
                 members |-> room.members]]

\* The database of a room, and what the running command has yet to do to it.
DataSaved(r) ==
    LET content == DbOf(r)
        cmd == task[Caller].cmd
        pending(pc) == task[Caller].pc = pc /\ cmd.room = r
        records == IF pending("record") THEN Applied(cmd, content.records)
                   ELSE content.records
    IN  [shown   |-> IF pending("fragment")
                     THEN [content.fragments EXCEPT ![cmd.slot] = Stored(cmd.value)]
                     ELSE content.fragments,
         buckets |-> [b \in DOMAIN records |-> records[b].label],
         members |-> IF pending("members") THEN rooms[r].members ELSE content.members]

Asked ==
    LET cmd == task[Caller].cmd
    IN  IF task[Caller].pc = "apply"
        THEN [room |-> cmd.room, place |-> cmd.slot, value |-> Stored(cmd.value)]
        ELSE None

TrimmedNames == {Trim[raw] : raw \in RawNames}

Contract ==
    INSTANCE Service WITH
        Rooms     <- Ids,
        Buckets   <- BucketIds,
        Nothing   <- Absent,
        Names     <- TrimmedNames,
        GoodNames <- LegalNames,
        NoName    <- Empty,
        Reserved  <- ServerOnlyBucket,
        next      <- next_room_id,
        names     <- labels,
        rooms     <- [r \in DOMAIN rooms |-> RoomSeen(rooms[r])],
        saved     <- [r \in Ids |-> DataSaved(r)],
        asked     <- Asked

(***************************************************************************)
(* As long as loads and commands on data come one at a time, the interface *)
(* keeps its contract: every command takes effect at one moment, on what   *)
(* is seen and what is saved alike, a load brings back exactly what was    *)
(* saved, and a write overtaken by an unload or a deletion is saved only,  *)
(* although a command is several steps over memory, three kinds of         *)
(* database keys and a cache.                                              *)
(***************************************************************************)
ServiceSpec == Contract!Spec

(***************************************************************************)
(* At every moment each call is answered as the contract says, from what   *)
(* callers see and nothing else: error names pass two translations, half   *)
(* of the calls test for a missing room and half for one that is loaded,   *)
(* and tombstones, empty buckets and unloaded rooms must look alike.       *)
(***************************************************************************)
AnswersAsPromised ==
    /\ \A r \in DOMAIN rooms : list_rooms[r] = Contract!NamesOf(r)
    /\ \A r \in Ids :
          /\ list_members(r) = Contract!DataOf(r).members
          /\ list_buckets(r) = Contract!DataOf(r).buckets
          /\ \A s \in Slots : read_fragment(r, s) = Contract!ReadAnswer(r, s)
          /\ new_bucket_status(r) = Contract!ChangeStatus(r)
          /\ write_fragment_status(r) = Contract!WriteStatus(r)
          /\ load_room_status(r) = Contract!LoadStatus(r)
          /\ unload_room_status(r) = Contract!DropStatus(r)
          /\ delete_room_status(r) = Contract!DropStatus(r)
          /\ \A raw \in RawNames, granted \in SUBSET BucketIds :
                issue_jwt(r, raw, granted) = Contract!TokenStatus(r, Trim[raw], granted)

(***************************************************************************)
(* A read never goes back: between commands it finds the value of the last *)
(* answered write of its key or, once the bucket was deleted or reloaded   *)
(* without a record, nothing; never an older value, whatever unloads,      *)
(* loads, deletions and re-creations of the bucket came in between.        *)
(***************************************************************************)
ReadsAreNotStale ==
    Quiet => \A r \in Ids, s \in Slots :
        acked[<<r, s>>] # Unknown /\ Loaded(r) =>
            read_fragment(r, s) \in {<<"ok", Stored(acked[<<r, s>>])>>, <<"ok", Absent>>}
=============================================================================
