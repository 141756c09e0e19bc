--------------------------- MODULE DownstreamProofs ---------------------------
(***************************************************************************)
(* The invariants of Downstream, for any number of connections, rooms and  *)
(* writers and every capacity.                                             *)
(*                                                                         *)
(* What makes them inductive: connection ids are handed out once, every id *)
(* in a message is somebody's, and whatever travels towards a client (its  *)
(* ClientConnected, the initial sync, targeted notifications) stays within *)
(* that client's grant.                                                    *)
(***************************************************************************)
EXTENDS Downstream, FiniteSetTheorems, TLAPS

Elems(s) == {s[i] : i \in DOMAIN s}

Serving == {"added", "open", "locking", "sending", "closing"}

\* Tasks that may have used up a connection id.
Past == {c \in Conns : pc[c] \notin {"handshake", "authed"}}

\* Ids are never shared, and a task has one from registration on.
IdsOK ==
    /\ next_conn_id <= 1 + Cardinality(Past)
    /\ \A c \in Conns :
          /\ pc[c] \in {"handshake", "authed", "rejecting"} => conn_id[c] = 0
          /\ pc[c] \in Serving \cup {"leaving"} => conn_id[c] # 0
          /\ pc[c] \notin {"handshake", "done"} => ClaimedRoom[c] \in Rooms
    /\ \A c, d \in Conns : conn_id[c] = conn_id[d] /\ conn_id[c] # 0 => c = d

\* The hub's entries are those of running tasks, with their own grants.
HubOK ==
    /\ IsFiniteSet(DOMAIN connections)
    /\ \A i \in DOMAIN connections :
          /\ connections[i].room = ClaimedRoom[connections[i].task]
          /\ connections[i].buckets = Allowed(connections[i].task)
    /\ HubIndexAgrees
    /\ BucketLimit

\* What is on its way to a client keeps to the client's grant.
SentFor(n) ==
    n.to # None => \E c \in Conns : conn_id[c] = n.to /\ n.update.bucket \in Allowed(c)

ConnectedFor(m) ==
    m.type = "connected" => \E c \in Conns : conn_id[c] = m.id /\ m.buckets = Allowed(c)

SyncFor(c) ==
    /\ kernel.id = conn_id[c]
    /\ kernel.buckets = Allowed(c)
    /\ kernel.pc # "lookup" => kernel.room = ClaimedRoom[c] /\ kernel.room \in Rooms
    /\ \A u \in kernel.updates : u.bucket \in Allowed(c)

ChannelsOK ==
    /\ \A n \in Elems(notifications) : SentFor(n)
    /\ forwarding # None => SentFor(forwarding)
    /\ \A m \in Elems(downstream) : ConnectedFor(m)

ProcessorOK ==
    /\ kernel.pc = "idle" => kernel = Idle
    /\ kernel.pc # "idle" => kernel.id # 0 /\ \E c \in Conns : SyncFor(c)

\* A command that has yet to reach set_fragment has nothing to broadcast.
WritersOK == \A w \in Writers : checked[w] # None => writing[w] = None

IInv == /\ TypeOK /\ IdsOK /\ HubOK /\ ChannelsOK /\ ProcessorOK /\ WritersOK
        /\ NothingOutsideGrant

-----------------------------------------------------------------------------
(* Channels as sets of what they hold.                                      *)
LEMMA AppendElems ==
    ASSUME NEW S, NEW s \in Seq(S), NEW e \in S
    PROVE  /\ Append(s, e) \in Seq(S)
           /\ Elems(Append(s, e)) = Elems(s) \cup {e}
<1>1. /\ DOMAIN s = 1..Len(s) /\ DOMAIN Append(s, e) = 1..(Len(s) + 1)
      /\ Len(s) \in Nat /\ Append(s, e) \in Seq(S)
      /\ \A i \in 1..Len(s) : Append(s, e)[i] = s[i]
      /\ Append(s, e)[Len(s) + 1] = e
  OBVIOUS
<1>2. Elems(Append(s, e)) \subseteq Elems(s) \cup {e}
  BY <1>1 DEF Elems
<1>3. ASSUME NEW x \in Elems(s) PROVE x \in Elems(Append(s, e))
  <2>1. PICK i \in 1..Len(s) : x = s[i]
    BY <1>1 DEF Elems
  <2>2. i \in 1..(Len(s) + 1) /\ x = Append(s, e)[i]
    BY <1>1, <2>1
  <2> QED
    BY <1>1, <2>2 DEF Elems
<1>4. e \in Elems(Append(s, e))
  <2>1. Len(s) + 1 \in DOMAIN Append(s, e)
    BY <1>1
  <2> QED
    BY <1>1, <2>1, Zenon DEF Elems
<1> QED
  BY <1>1, <1>2, <1>3, <1>4

LEMMA TailElems ==
    ASSUME NEW S, NEW s \in Seq(S), s # << >>
    PROVE  /\ Head(s) \in S /\ Tail(s) \in Seq(S)
           /\ Elems(s) = {Head(s)} \cup Elems(Tail(s))
<1>1. /\ Head(s) \in S /\ Tail(s) \in Seq(S) /\ Head(s) = s[1]
      /\ Len(s) \in Nat \ {0} /\ Len(Tail(s)) = Len(s) - 1
      /\ DOMAIN s = 1..Len(s) /\ DOMAIN Tail(s) = 1..(Len(s) - 1)
      /\ \A i \in 1..(Len(s) - 1) : Tail(s)[i] = s[i + 1]
  OBVIOUS
<1>2. ASSUME NEW x \in Elems(s) PROVE x \in {Head(s)} \cup Elems(Tail(s))
  <2>1. PICK i \in 1..Len(s) : x = s[i]
    BY <1>1 DEF Elems
  <2>2. CASE i = 1
    BY <1>1, <2>1, <2>2
  <2>3. CASE i # 1
    <3>1. i - 1 \in 1..(Len(s) - 1) /\ (i - 1) + 1 = i
      BY <1>1, <2>3
    <3>2. x = Tail(s)[i - 1]
      BY <1>1, <2>1, <3>1
    <3> QED
      BY <1>1, <3>1, <3>2 DEF Elems
  <2> QED
    BY <2>2, <2>3
<1>3. ASSUME NEW x \in Elems(Tail(s)) PROVE x \in Elems(s)
  <2>1. PICK i \in 1..(Len(s) - 1) : x = Tail(s)[i]
    BY <1>1 DEF Elems
  <2>2. i + 1 \in 1..Len(s) /\ x = s[i + 1]
    BY <1>1, <2>1
  <2> QED
    BY <1>1, <2>2 DEF Elems
<1>4. Head(s) \in Elems(s)
  BY <1>1 DEF Elems
<1> QED
  BY <1>1, <1>2, <1>3, <1>4

LEMMA ElemsType ==
    ASSUME NEW S, NEW s \in Seq(S)
    PROVE  Elems(s) \subseteq S
  BY DEF Elems

LEMMA ConcatElems ==
    ASSUME NEW S, NEW s \in Seq(S), NEW t \in Seq(S)
    PROVE  s \o t \in Seq(S) /\ Elems(s \o t) = Elems(s) \cup Elems(t)
<1>1. /\ s \o t \in Seq(S) /\ Len(s) \in Nat /\ Len(t) \in Nat
      /\ DOMAIN s = 1..Len(s) /\ DOMAIN t = 1..Len(t)
      /\ DOMAIN (s \o t) = 1..(Len(s) + Len(t))
      /\ \A i \in 1..(Len(s) + Len(t)) :
            (s \o t)[i] = IF i <= Len(s) THEN s[i] ELSE t[i - Len(s)]
  OBVIOUS
<1>2. ASSUME NEW x \in Elems(s \o t) PROVE x \in Elems(s) \cup Elems(t)
  <2>1. PICK i \in 1..(Len(s) + Len(t)) : x = (s \o t)[i]
    BY <1>1 DEF Elems
  <2>2. CASE i <= Len(s)
    <3>1. i \in 1..Len(s) /\ x = s[i]
      BY <1>1, <2>1, <2>2
    <3> QED
      BY <1>1, <3>1 DEF Elems
  <2>3. CASE ~(i <= Len(s))
    <3>1. i - Len(s) \in 1..Len(t) /\ x = t[i - Len(s)]
      BY <1>1, <2>1, <2>3
    <3> QED
      BY <1>1, <3>1 DEF Elems
  <2> QED
    BY <2>2, <2>3
<1>3. ASSUME NEW x \in Elems(s) PROVE x \in Elems(s \o t)
  <2>1. PICK i \in 1..Len(s) : x = s[i]
    BY <1>1 DEF Elems
  <2>2. i \in 1..(Len(s) + Len(t)) /\ x = (s \o t)[i]
    BY <1>1, <2>1
  <2> QED
    BY <1>1, <2>2 DEF Elems
<1>4. ASSUME NEW x \in Elems(t) PROVE x \in Elems(s \o t)
  <2>1. PICK i \in 1..Len(t) : x = t[i]
    BY <1>1 DEF Elems
  <2>2. i + Len(s) \in 1..(Len(s) + Len(t)) /\ x = (s \o t)[i + Len(s)]
    BY <1>1, <2>1
  <2> QED
    BY <1>1, <2>2 DEF Elems
<1> QED
  BY <1>1, <1>2, <1>3, <1>4

(* Moving the head of the queue to the end of what was seen is no change.   *)
LEMMA ShiftKeepsStream ==
    ASSUME NEW S, NEW s \in Seq(S), NEW t \in Seq(S), t # << >>
    PROVE  Append(s, Head(t)) \o Tail(t) = s \o t
  OBVIOUS

LEMMA AppendToStream ==
    ASSUME NEW S, NEW s \in Seq(S), NEW t \in Seq(S), NEW e \in S
    PROVE  s \o Append(t, e) = Append(s \o t, e)
  OBVIOUS

-----------------------------------------------------------------------------
(* Type correctness.                                                        *)
LEMMA IdsBelowMax ==
    ASSUME TypeOK, IdsOK, NEW c \in Conns, pc[c] = "authed"
    PROVE  /\ next_conn_id < MaxConnId
           /\ IsFiniteSet(Past) /\ IsFiniteSet(Past \cup {c})
           /\ Cardinality(Past \cup {c}) = Cardinality(Past) + 1
           /\ Cardinality(Past) \in Nat
<1>1. IsFiniteSet(Conns) /\ Past \subseteq Conns /\ Past \cup {c} \subseteq Conns
  BY DownstreamAssumption DEF Past
<1>2. c \notin Past
  BY DEF Past
<1>3. /\ IsFiniteSet(Past) /\ IsFiniteSet(Past \cup {c})
      /\ Cardinality(Past \cup {c}) <= Cardinality(Conns)
  BY <1>1, FS_Subset
<1>4. Cardinality(Past \cup {c}) = Cardinality(Past) + 1
  BY <1>2, <1>3, FS_AddElement
<1>5. Cardinality(Past) \in Nat /\ Cardinality(Conns) \in Nat
  BY <1>1, <1>3, FS_CardinalityType
<1>6. next_conn_id <= 1 + Cardinality(Past) /\ next_conn_id \in Nat
  BY DEF IdsOK, TypeOK, ConnIds
<1>7. MaxConnId \in Nat /\ Cardinality(Conns) < MaxConnId
  BY DownstreamAssumption
<1>8. next_conn_id < MaxConnId
  BY <1>3, <1>4, <1>5, <1>6, <1>7
<1> QED
  BY <1>3, <1>4, <1>5, <1>8

LEMMA TryNotifyType ==
    ASSUME TypeOK, NEW n \in Notification, TryNotify(n)
    PROVE  /\ notifications' \in Seq(Notification)
           /\ lost' \in SUBSET Update /\ unsynced' \in SUBSET ConnIds
<1>1. /\ notifications \in Seq(Notification)
      /\ lost \in SUBSET Update /\ unsynced \in SUBSET ConnIds
  BY DEF TypeOK
<1>2. Append(notifications, n) \in Seq(Notification)
  BY <1>1, AppendElems
<1>3. n.update \in Update /\ (n.to # None => n.to \in ConnIds)
  BY DEF Notification
<1> QED
  BY <1>1, <1>2, <1>3 DEF TryNotify, dropped

LEMMA TryDownstreamType ==
    ASSUME TypeOK, NEW m \in DownstreamMessage, TryDownstream(m)
    PROVE  /\ downstream' \in Seq(DownstreamMessage) /\ unsynced' \in SUBSET ConnIds
           /\ lost' = lost
<1>1. downstream \in Seq(DownstreamMessage) /\ unsynced \in SUBSET ConnIds
  BY DEF TypeOK
<1>2. Append(downstream, m) \in Seq(DownstreamMessage)
  BY <1>1, AppendElems
<1>3. m.id \in ConnIds
  BY DEF DownstreamMessage
<1> QED
  BY <1>1, <1>2, <1>3 DEF TryDownstream

(* What add_client does to the hub, and what a refusal leaves alone.        *)
LEMMA RegisterAdds ==
    ASSUME NEW c \in Conns, Register(c), HasRoomFor(c)
    PROVE  /\ DOMAIN connections' = DOMAIN connections \cup {next_conn_id}
           /\ connections' = [i \in DOMAIN connections' |-> connections'[i]]
           /\ connections'[next_conn_id] =
                 [room |-> ClaimedRoom[c], buckets |-> Allowed(c), task |-> c]
           /\ \A i \in DOMAIN connections \ {next_conn_id} :
                 connections'[i] = connections[i]
           /\ index' = [b \in BucketIds |->
                 IF b \in Allowed(c) THEN index[b] \cup {next_conn_id} ELSE index[b]]
           /\ conn_id' = [conn_id EXCEPT ![c] = next_conn_id]
           /\ pc' = [pc EXCEPT ![c] = "added"]
           /\ hub_lock' = hub_lock
<1>1. connections' = [i \in DOMAIN connections \cup {next_conn_id} |->
                    IF i = next_conn_id
                    THEN [room |-> ClaimedRoom[c], buckets |-> Allowed(c), task |-> c]
                    ELSE connections[i]]
  BY Zenon DEF Register
<1>2. /\ index' = [b \in BucketIds |->
                 IF b \in Allowed(c) THEN index[b] \cup {next_conn_id} ELSE index[b]]
      /\ conn_id' = [conn_id EXCEPT ![c] = next_conn_id]
      /\ pc' = [pc EXCEPT ![c] = "added"]
      /\ hub_lock' = hub_lock
  BY Zenon DEF Register, Goto
<1> QED
  BY <1>1, <1>2

LEMMA RegisterRefuses ==
    ASSUME NEW c \in Conns, Register(c), ~HasRoomFor(c)
    PROVE  /\ pc' = [pc EXCEPT ![c] = "rejecting"]
           /\ hub_lock' = c
           /\ UNCHANGED <<connections, index, conn_id>>
  BY Zenon DEF Register, Goto

LEMMA RegisterKeeps ==
    ASSUME NEW c \in Conns, Register(c)
    PROVE  UNCHANGED <<writes, loaded, stored, changes, checked, writing, queue,
                       commands, seen, notifications, forwarding, downstream, kernel,
                       lost, unsynced>>
  BY Zenon DEF Register, storeVars, dropped

(* What the commands do to the store, the rest of the server does not see.  *)
LEMMA StoreKeeps ==
    ASSUME Store
    PROVE  UNCHANGED <<connections, index, next_conn_id, hub_lock, pc, conn_id, queue,
                       commands, seen, notifications, forwarding, downstream, kernel,
                       lost, unsynced>>
<1> USE DEF hubVars, taskVars, dropped
<1>1. ASSUME NEW w \in Writers, NEW r \in Rooms, NEW b \in BucketIds, StartWrite(w, r, b)
      PROVE  UNCHANGED <<hubVars, hub_lock, taskVars, notifications, forwarding,
                         downstream, kernel, dropped>>
  BY <1>1 DEF StartWrite
<1>2. ASSUME NEW w \in Writers, ApplyWrite(w)
      PROVE  UNCHANGED <<hubVars, hub_lock, taskVars, notifications, forwarding,
                         downstream, kernel, dropped>>
  BY <1>2, Zenon DEF ApplyWrite
<1>3. ASSUME NEW r \in Rooms, LoadRoom(r) \/ UnloadRoom(r)
      PROVE  UNCHANGED <<hubVars, hub_lock, taskVars, notifications, forwarding,
                         downstream, kernel, dropped>>
  BY <1>3, Zenon DEF LoadRoom, UnloadRoom
<1>4. ASSUME NEW r \in Rooms, NEW b \in BucketIds, DeleteBucket(r, b)
      PROVE  UNCHANGED <<hubVars, hub_lock, taskVars, notifications, forwarding,
                         downstream, kernel, dropped>>
  BY <1>4 DEF DeleteBucket
<1> QED
  BY <1>1, <1>2, <1>3, <1>4, Zenon DEF Store

LEMMA NextKeepsType ==
    ASSUME IInv, [Next]_vars
    PROVE  TypeOK'
<1> USE DEF storeVars, hubVars, taskVars, dropped, Goto
<1>0. TypeOK /\ IdsOK /\ HubOK /\ ProcessorOK
  BY DEF IInv
<1>1. ASSUME NEW c \in Conns, Register(c) PROVE TypeOK'
  <2>1. next_conn_id < MaxConnId
    BY <1>0, <1>1, IdsBelowMax DEF Register
  <2>2. next_conn_id' \in ConnIds /\ next_conn_id < next_conn_id' /\ next_conn_id \in ConnIds
    BY <1>0, <1>1, <2>1 DEF Register, allocate_connection_id, TypeOK, ConnIds
  <2>3. CASE HasRoomFor(c)
    <3>1. ClaimedRoom[c] \in Rooms /\ Allowed(c) \in SUBSET BucketIds
      BY <1>0, <1>1, DownstreamAssumption DEF Register, IdsOK, Allowed
    <3>2. /\ DOMAIN connections' = DOMAIN connections \cup {next_conn_id}
          /\ connections' = [i \in DOMAIN connections' |-> connections'[i]]
          /\ connections'[next_conn_id] =
                [room |-> ClaimedRoom[c], buckets |-> Allowed(c), task |-> c]
          /\ \A i \in DOMAIN connections \ {next_conn_id} :
                connections'[i] = connections[i]
          /\ index' = [b \in BucketIds |->
                IF b \in Allowed(c) THEN index[b] \cup {next_conn_id} ELSE index[b]]
          /\ conn_id' = [conn_id EXCEPT ![c] = next_conn_id]
      BY <1>1, <2>3, RegisterAdds
    <3>3. /\ DOMAIN connections' \subseteq ConnIds
          /\ connections' \in [DOMAIN connections' ->
                [room : Rooms, buckets : SUBSET BucketIds, task : Conns]]
          /\ index' \in [BucketIds -> SUBSET ConnIds]
      BY <1>0, <2>2, <3>1, <3>2 DEF TypeOK
    <3>4. conn_id' \in [Conns -> Nat] /\ \A d \in Conns : conn_id'[d] < next_conn_id'
      BY <1>0, <2>2, <3>2 DEF TypeOK, ConnIds
    <3>5. pc' \in [Conns -> Labels]
      BY <1>0, <1>1, <2>3, RegisterAdds DEF TypeOK, Labels
    <3>6. hub_lock' = hub_lock
      BY <1>0, <1>1, <2>3, RegisterAdds
    <3> QED
      BY <1>0, <1>1, <2>2, <3>3, <3>4, <3>5, <3>6, RegisterKeeps DEF TypeOK
  <2>4. CASE ~HasRoomFor(c)
    <3>1. pc' \in [Conns -> Labels]
      BY <1>0, <1>1, <2>4, RegisterRefuses DEF TypeOK, Labels
    <3>2. \A d \in Conns : conn_id'[d] < next_conn_id'
      BY <1>0, <1>1, <2>2, <2>4, RegisterRefuses DEF TypeOK, ConnIds
    <3> QED
      BY <1>0, <1>1, <2>2, <2>4, <3>1, <3>2, RegisterRefuses, RegisterKeeps DEF TypeOK
  <2> QED
    BY <2>3, <2>4
<1>2. ASSUME NEW c \in Conns, Rejected(c) PROVE TypeOK'
  BY <1>0, <1>2 DEF Rejected, TypeOK, Labels
<1>3. ASSUME NEW c \in Conns, Announce(c) PROVE TypeOK'
  <2>1. [type |-> "connected", id |-> conn_id[c], buckets |-> Allowed(c)] \in DownstreamMessage
    BY <1>0, <1>3, DownstreamAssumption
    DEF Announce, DownstreamMessage, TypeOK, IdsOK, ConnIds, Allowed, Serving
  <2>2. /\ downstream' \in Seq(DownstreamMessage) /\ unsynced' \in SUBSET ConnIds
        /\ lost' = lost
    BY <1>0, <1>3, <2>1, TryDownstreamType DEF Announce
  <2> QED
    BY <1>0, <1>3, <2>2 DEF Announce, TypeOK, Labels
<1>4. ASSUME NEW c \in Conns, LockHub(c) PROVE TypeOK'
  BY <1>0, <1>4 DEF LockHub, TypeOK, Labels
<1>5. ASSUME NEW c \in Conns, SendCommand(c) PROVE TypeOK'
  <2>1. [type |-> "message", id |-> conn_id[c], buckets |-> {}] \in DownstreamMessage
    BY <1>0, <1>5 DEF SendCommand, DownstreamMessage, TypeOK, IdsOK, ConnIds, Serving
  <2>2. downstream' \in Seq(DownstreamMessage)
    BY <1>0, <1>5, <2>1, AppendElems DEF SendCommand, TypeOK
  <2> QED
    BY <1>0, <1>5, <2>2 DEF SendCommand, TypeOK, Labels
<1>6. ASSUME NEW c \in Conns, WriteSocket(c) PROVE TypeOK'
  <2>1. queue[c] \in Seq(Update) /\ seen[c] \in Seq(Update) /\ queue[c] # << >>
    BY <1>0, <1>6 DEF WriteSocket, TypeOK
  <2>2. Head(queue[c]) \in Update /\ Tail(queue[c]) \in Seq(Update)
    BY <2>1, TailElems
  <2>3. Append(seen[c], Head(queue[c])) \in Seq(Update)
    BY <2>1, <2>2, AppendElems
  <2>4. queue' \in [Conns -> Seq(Update)] /\ seen' \in [Conns -> Seq(Update)]
    BY <1>0, <1>6, <2>2, <2>3 DEF WriteSocket, TypeOK
  <2> QED
    BY <1>0, <1>6, <2>4 DEF WriteSocket, TypeOK
<1>7. ASSUME NEW c \in Conns, Cleanup(c) PROVE TypeOK'
  BY <1>0, <1>7 DEF Cleanup, Unregister, TypeOK, Labels
<1>8. ASSUME NEW c \in Conns, Leave(c) PROVE TypeOK'
  <2>1. [type |-> "disconnected", id |-> conn_id[c], buckets |-> {}] \in DownstreamMessage
    BY <1>0, <1>8 DEF Leave, DownstreamMessage, TypeOK, IdsOK, ConnIds, Serving
  <2>2. /\ downstream' \in Seq(DownstreamMessage) /\ unsynced' \in SUBSET ConnIds
        /\ lost' = lost
    BY <1>0, <1>8, <2>1, TryDownstreamType DEF Leave
  <2> QED
    BY <1>0, <1>8, <2>2 DEF Leave, TypeOK, Labels
<1>9. ASSUME TakeNotification PROVE TypeOK'
  <2>1. Head(notifications) \in Notification /\ Tail(notifications) \in Seq(Notification)
    BY <1>0, <1>9, TailElems DEF TakeNotification, TypeOK
  <2> QED
    BY <1>0, <1>9, <2>1 DEF TakeNotification, TypeOK
<1>10. ASSUME Forward PROVE TypeOK'
  <2>1. forwarding.update \in Update
    BY <1>0, <1>10 DEF Forward, TypeOK, Notification
  <2>2. \A c \in Conns : Append(queue[c], forwarding.update) \in Seq(Update)
    BY <1>0, <2>1, AppendElems DEF TypeOK
  <2>3. queue' \in [Conns -> Seq(Update)]
    BY <1>0, <1>10, <2>2 DEF Forward, TypeOK
  <2> QED
    BY <1>0, <1>10, <2>3 DEF Forward, Unregister, TypeOK
<1>11. ASSUME TakeMessage PROVE TypeOK'
  <2>1. Head(downstream) \in DownstreamMessage /\ Tail(downstream) \in Seq(DownstreamMessage)
    BY <1>0, <1>11, TailElems DEF TakeMessage, TypeOK
  <2>2. Head(downstream).id \in Nat /\ Head(downstream).buckets \in SUBSET BucketIds
    BY <2>1 DEF DownstreamMessage, ConnIds
  <2> QED
    BY <1>0, <1>11, <2>1, <2>2 DEF TakeMessage, TypeOK
<1>12. ASSUME LookUpRoom PROVE TypeOK'
  BY <1>0, <1>12 DEF LookUpRoom, TypeOK, Idle
<1>13. ASSUME Collect PROVE TypeOK'
  <2>1. kernel.room \in Rooms /\ kernel.buckets \subseteq BucketIds
    BY <1>0, <1>13 DEF Collect, ProcessorOK, SyncFor, TypeOK
  <2>2. \A b \in BucketIds : stored[<<kernel.room, b>>] # None =>
          [room |-> kernel.room, bucket |-> b, value |-> stored[<<kernel.room, b>>]] \in Update
    BY <1>0, <2>1 DEF TypeOK, Update, Slots
  <2> DEFINE U == {[room |-> kernel.room, bucket |-> b, value |-> stored[<<kernel.room, b>>]] :
                     b \in {d \in kernel.buckets : stored[<<kernel.room, d>>] # None}}
  <2>3. U \in SUBSET Update
    BY <2>1, <2>2
  <2>4. kernel' = [kernel EXCEPT !.pc = "target", !.updates = U]
    BY <1>13, Zenon DEF Collect
  <2> HIDE DEF U
  <2> QED
    BY <1>0, <1>13, <2>3, <2>4 DEF Collect, TypeOK
<1>14. ASSUME Target PROVE TypeOK'
  <2>1. CASE kernel.updates = {}
    BY <1>0, <1>14, <2>1 DEF Target, TypeOK, Idle
  <2>2. CASE kernel.updates # {}
    <3>1. PICK u \in kernel.updates :
              /\ TryNotify([to |-> kernel.id, update |-> u])
              /\ kernel' = IF Len(notifications) < NotifyCap
                           THEN [kernel EXCEPT !.updates = @ \ {u}]
                           ELSE Idle
      BY <1>14, <2>2 DEF Target
    <3>2. [to |-> kernel.id, update |-> u] \in Notification
      BY <1>0, <1>14 DEF Target, ProcessorOK, TypeOK, Notification, ConnIds
    <3>3. /\ notifications' \in Seq(Notification)
          /\ lost' \in SUBSET Update /\ unsynced' \in SUBSET ConnIds
      BY <1>0, <3>1, <3>2, TryNotifyType
    <3>4. kernel' \in [pc : {"idle", "lookup", "collect", "target"}, id : Nat,
                       buckets : SUBSET BucketIds, room : Rooms \cup {NoRoom},
                       updates : SUBSET Update]
      BY <1>0, <3>1 DEF TypeOK, Idle
    <3> QED
      BY <1>0, <1>14, <3>3, <3>4 DEF Target, TypeOK
  <2> QED
    BY <2>1, <2>2
<1>15. ASSUME NEW w \in Writers, Broadcast(w) PROVE TypeOK'
  <2>1. [to |-> None, update |-> writing[w]] \in Notification
    BY <1>0, <1>15 DEF Broadcast, TypeOK, Notification
  <2>2. /\ notifications' \in Seq(Notification)
        /\ lost' \in SUBSET Update /\ unsynced' \in SUBSET ConnIds
    BY <1>0, <1>15, <2>1, TryNotifyType DEF Broadcast
  <2> QED
    BY <1>0, <1>15, <2>2 DEF Broadcast, TypeOK
<1>16. ASSUME NEW c \in Conns, Handshake(c) \/ ReadCommand(c) \/ PeerGone(c) PROVE TypeOK'
  <2>1. CASE Handshake(c)
    BY <1>0, <2>1 DEF Handshake, TypeOK, Labels
  <2>2. CASE ReadCommand(c)
    <3>1. MaxCommands \in Nat
      BY DownstreamAssumption
    <3> QED
      BY <1>0, <2>2, <3>1, SMTT(30) DEF ReadCommand, TypeOK, Labels
  <2>3. CASE PeerGone(c)
    BY <1>0, <2>3 DEF PeerGone, TypeOK, Labels
  <2> QED
    BY <1>16, <2>1, <2>2, <2>3
<1>17. CASE Store
  <2> DEFINE Others == UNCHANGED <<connections, index, next_conn_id, hub_lock, pc, conn_id,
                                   queue, commands, seen, notifications, forwarding,
                                   downstream, kernel, lost, unsynced>>
  <2>1. Others
    BY <1>17, StoreKeeps
  <2>2. SUFFICES /\ writes' \in Nat /\ loaded' \subseteq Rooms
                 /\ stored' \in [Slots -> Nat \cup {None}] /\ changes' \in 0..MaxChanges
                 /\ checked' \in [Writers -> Slots \cup {None}]
                 /\ writing' \in [Writers -> Update \cup {None}]
    BY <1>0, <2>1 DEF TypeOK
  <2>3. /\ writes \in Nat /\ loaded \subseteq Rooms
        /\ stored \in [Slots -> Nat \cup {None}] /\ changes \in 0..MaxChanges
        /\ checked \in [Writers -> Slots \cup {None}]
        /\ writing \in [Writers -> Update \cup {None}] /\ MaxChanges \in Nat
    BY <1>0, DownstreamAssumption DEF TypeOK
  <2> HIDE DEF Others
  <2>4. ASSUME NEW w \in Writers, NEW r \in Rooms, NEW b \in BucketIds, StartWrite(w, r, b)
        PROVE  /\ checked' \in [Writers -> Slots \cup {None}]
               /\ UNCHANGED <<writes, loaded, stored, changes, writing>>
    BY <2>3, <2>4 DEF StartWrite, Slots
  <2>5. ASSUME NEW w \in Writers, ApplyWrite(w)
        PROVE  /\ writes' \in Nat /\ stored' \in [Slots -> Nat \cup {None}]
               /\ checked' \in [Writers -> Slots \cup {None}]
               /\ writing' \in [Writers -> Update \cup {None}]
               /\ UNCHANGED <<loaded, changes>>
    <3>1. writes + 1 \in Nat /\ checked[w] \in Slots
      BY <2>3, <2>5 DEF ApplyWrite
    <3>2. checked[w][1] \in Rooms /\ checked[w][2] \in BucketIds
      BY <3>1 DEF Slots
    <3>3. [room |-> checked[w][1], bucket |-> checked[w][2], value |-> writes + 1] \in Update
      BY <3>1, <3>2 DEF Update
    <3>4. writing' \in [Writers -> Update \cup {None}]
      BY <2>3, <2>5, <3>3 DEF ApplyWrite
    <3>5. stored' \in [Slots -> Nat \cup {None}]
      BY <2>3, <2>5, <3>1 DEF ApplyWrite
    <3> QED
      BY <2>3, <2>5, <3>1, <3>4, <3>5 DEF ApplyWrite
  <2>6. ASSUME NEW r \in Rooms, LoadRoom(r) \/ UnloadRoom(r)
        PROVE  /\ loaded' \subseteq Rooms /\ stored' \in [Slots -> Nat \cup {None}]
               /\ changes' \in 0..MaxChanges /\ UNCHANGED <<writes, checked, writing>>
    BY <2>3, <2>6 DEF LoadRoom, UnloadRoom, Change
  <2>7. ASSUME NEW r \in Rooms, NEW b \in BucketIds, DeleteBucket(r, b)
        PROVE  /\ stored' \in [Slots -> Nat \cup {None}] /\ changes' \in 0..MaxChanges
               /\ UNCHANGED <<writes, loaded, checked, writing>>
    <3>1. stored' = [stored EXCEPT ![<<r, b>>] = None] /\ changes < MaxChanges
          /\ changes' = changes + 1 /\ UNCHANGED <<writes, loaded, checked, writing>>
      BY <2>7 DEF DeleteBucket, Change
    <3>2. stored' \in [Slots -> Nat \cup {None}]
      BY <2>3, <3>1
    <3> QED
      BY <2>3, <3>1, <3>2
  <2> QED
    BY <1>17, <2>3, <2>4, <2>5, <2>6, <2>7 DEF Store
<1>18. CASE UNCHANGED vars
  BY <1>0, <1>18 DEF vars, TypeOK
<1> QED
  BY <1>1, <1>2, <1>3, <1>4, <1>5, <1>6, <1>7, <1>8, <1>9, <1>10, <1>11, <1>12,
     <1>13, <1>14, <1>15, <1>16, <1>17, <1>18
  DEF Next, Task, Forwarder, Processor, Environment

-----------------------------------------------------------------------------
(* Connection ids.                                                          *)
LEMMA PastGrows ==
    ASSUME Past \subseteq Past'
    PROVE  /\ Cardinality(Past) \in Nat /\ Cardinality(Past') \in Nat
           /\ Cardinality(Past) <= Cardinality(Past')
<1>1. Past' \subseteq Conns /\ IsFiniteSet(Conns)
  BY DownstreamAssumption DEF Past
<1>2. IsFiniteSet(Past') /\ IsFiniteSet(Past) /\ Cardinality(Past) <= Cardinality(Past')
  BY <1>1, FS_Subset
<1> QED
  BY <1>2, FS_CardinalityType

(* A task that moves on keeps its id, or that it has none.                  *)
LEMMA MoveKeepsIds ==
    ASSUME TypeOK, IdsOK, NEW c \in Conns, NEW l \in Labels, Goto(c, l),
           UNCHANGED <<conn_id, next_conn_id>>,
           l \notin {"handshake", "rejecting"},
           l = "authed" => pc[c] = "handshake",
           l \in Serving \cup {"leaving"} => pc[c] \in Serving \cup {"leaving"},
           l # "done" => ClaimedRoom[c] \in Rooms
    PROVE  IdsOK'
<1>1. pc' = [pc EXCEPT ![c] = l] /\ pc \in [Conns -> Labels]
  BY DEF Goto, TypeOK
<1>2. Past \subseteq Past'
  BY <1>1 DEF Past
<1>3. next_conn_id' <= 1 + Cardinality(Past')
  <2>1. next_conn_id \in Nat /\ next_conn_id <= 1 + Cardinality(Past)
    BY DEF IdsOK, TypeOK, ConnIds
  <2> QED
    BY <1>2, <2>1, PastGrows
<1>4. \A d \in Conns :
          /\ pc'[d] \in {"handshake", "authed", "rejecting"} => conn_id'[d] = 0
          /\ pc'[d] \in Serving \cup {"leaving"} => conn_id'[d] # 0
          /\ pc'[d] \notin {"handshake", "done"} => ClaimedRoom[d] \in Rooms
  BY <1>1 DEF IdsOK
<1> QED
  BY <1>3, <1>4 DEF IdsOK

LEMMA RegisterKeepsIds ==
    ASSUME TypeOK, IdsOK, NEW c \in Conns, Register(c)
    PROVE  IdsOK'
<1>1. /\ pc[c] = "authed" /\ ClaimedRoom[c] \in Rooms
      /\ pc \in [Conns -> Labels] /\ conn_id \in [Conns -> Nat]
      /\ next_conn_id \in Nat \ {0} /\ \A d \in Conns : conn_id[d] < next_conn_id
  BY DEF Register, IdsOK, TypeOK, ConnIds
<1>2. next_conn_id' = next_conn_id + 1
  BY <1>1, IdsBelowMax DEF Register, allocate_connection_id
<1>3. ASSUME pc' = [pc EXCEPT ![c] = "added"] \/ pc' = [pc EXCEPT ![c] = "rejecting"]
      PROVE  next_conn_id' <= 1 + Cardinality(Past')
  <2>1. Past' = Past \cup {c}
    BY <1>1, <1>3 DEF Past
  <2>2. Cardinality(Past') = Cardinality(Past) + 1 /\ Cardinality(Past) \in Nat
    BY <1>1, <2>1, IdsBelowMax
  <2> QED
    BY <1>1, <1>2, <2>2 DEF IdsOK
<1>4. CASE HasRoomFor(c)
  <2>1. pc' = [pc EXCEPT ![c] = "added"] /\ conn_id' = [conn_id EXCEPT ![c] = next_conn_id]
    BY <1>4, RegisterAdds
  <2>2. \A d \in Conns :
          /\ pc'[d] \in {"handshake", "authed", "rejecting"} => conn_id'[d] = 0
          /\ pc'[d] \in Serving \cup {"leaving"} => conn_id'[d] # 0
          /\ pc'[d] \notin {"handshake", "done"} => ClaimedRoom[d] \in Rooms
    BY <1>1, <2>1 DEF IdsOK
  <2>3. \A d, e \in Conns : conn_id'[d] = conn_id'[e] /\ conn_id'[d] # 0 => d = e
    BY <1>1, <2>1 DEF IdsOK
  <2> QED
    BY <1>3, <2>1, <2>2, <2>3 DEF IdsOK
<1>5. CASE ~HasRoomFor(c)
  <2>1. pc' = [pc EXCEPT ![c] = "rejecting"] /\ conn_id' = conn_id
    BY <1>5, RegisterRefuses
  <2>2. \A d \in Conns :
          /\ pc'[d] \in {"handshake", "authed", "rejecting"} => conn_id'[d] = 0
          /\ pc'[d] \in Serving \cup {"leaving"} => conn_id'[d] # 0
          /\ pc'[d] \notin {"handshake", "done"} => ClaimedRoom[d] \in Rooms
    BY <1>1, <2>1 DEF IdsOK, Serving
  <2> QED
    BY <1>3, <2>1, <2>2 DEF IdsOK
<1> QED
  BY <1>4, <1>5

LEMMA SameIds ==
    ASSUME IdsOK, UNCHANGED <<pc, conn_id, next_conn_id>>
    PROVE  IdsOK'
  BY DEF IdsOK, Past

LEMMA NextKeepsIds ==
    ASSUME IInv, [Next]_vars
    PROVE  IdsOK'
<1> USE DEF storeVars, hubVars, taskVars, dropped
<1>0. TypeOK /\ IdsOK
  BY DEF IInv
<1>1. ASSUME NEW c \in Conns, Task(c) PROVE IdsOK'
  <2>1. CASE Register(c)
    BY <1>0, <2>1, RegisterKeepsIds
  <2>2. CASE WriteSocket(c)
    BY <1>0, <2>2, SameIds DEF WriteSocket
  <2>3. CASE Rejected(c) \/ Leave(c)
    <3>1. Goto(c, "done") /\ UNCHANGED <<conn_id, next_conn_id>>
      BY <2>3 DEF Rejected, Leave
    <3> QED
      BY <1>0, <3>1, MoveKeepsIds DEF Labels, Serving
  <2>4. CASE Announce(c) \/ SendCommand(c)
    <3>1. Goto(c, "open") /\ UNCHANGED <<conn_id, next_conn_id>>
      BY <2>4 DEF Announce, SendCommand
    <3>2. pc[c] \in Serving /\ ClaimedRoom[c] \in Rooms
      BY <1>0, <2>4 DEF Announce, SendCommand, Serving, IdsOK
    <3> QED
      BY <1>0, <3>1, <3>2, MoveKeepsIds DEF Labels
  <2>5. CASE LockHub(c)
    <3>1. PICK l \in {"sending", "open"} : Goto(c, l)
      BY <2>5 DEF LockHub
    <3>2. UNCHANGED <<conn_id, next_conn_id>>
      BY <2>5 DEF LockHub
    <3>3. pc[c] \in Serving /\ ClaimedRoom[c] \in Rooms
      BY <1>0, <2>5 DEF LockHub, Serving, IdsOK
    <3> QED
      BY <1>0, <3>1, <3>2, <3>3, MoveKeepsIds DEF Labels, Serving
  <2>6. CASE Cleanup(c)
    <3>1. Goto(c, "leaving") /\ UNCHANGED <<conn_id, next_conn_id>>
      BY <2>6 DEF Cleanup
    <3>2. pc[c] \in Serving /\ ClaimedRoom[c] \in Rooms
      BY <1>0, <2>6 DEF Cleanup, Serving, IdsOK
    <3> QED
      BY <1>0, <3>1, <3>2, MoveKeepsIds DEF Labels
  <2> QED
    BY <1>1, <2>1, <2>2, <2>3, <2>4, <2>5, <2>6 DEF Task
<1>2. ASSUME NEW c \in Conns, Handshake(c) \/ ReadCommand(c) \/ PeerGone(c) PROVE IdsOK'
  <2>1. UNCHANGED <<conn_id, next_conn_id>>
    BY <1>2 DEF Handshake, ReadCommand, PeerGone
  <2>2. CASE Handshake(c)
    <3>1. \/ Goto(c, "done")
          \/ Goto(c, "authed") /\ pc[c] = "handshake" /\ ClaimedRoom[c] \in Rooms
      BY <2>2, DownstreamAssumption DEF Handshake
    <3> QED
      BY <1>0, <2>1, <3>1, MoveKeepsIds DEF Labels, Serving
  <2>3. CASE ReadCommand(c) \/ PeerGone(c)
    <3>1. PICK l \in {"locking", "closing"} : Goto(c, l)
      BY <2>3 DEF ReadCommand, PeerGone
    <3>2. pc[c] \in Serving /\ ClaimedRoom[c] \in Rooms
      BY <1>0, <2>3 DEF ReadCommand, PeerGone, Serving, IdsOK
    <3> QED
      BY <1>0, <2>1, <3>1, <3>2, MoveKeepsIds DEF Labels, Serving
  <2> QED
    BY <1>2, <2>2, <2>3
<1>3. CASE Forwarder \/ Processor
  BY <1>0, <1>3, SameIds
  DEF Forwarder, Processor, TakeNotification, Forward, TakeMessage, LookUpRoom, Collect, Target
<1>4. ASSUME NEW w \in Writers, Broadcast(w) PROVE IdsOK'
  BY <1>0, <1>4, SameIds DEF Broadcast
<1>5. CASE Store
  BY <1>0, <1>5, StoreKeeps, SameIds
<1>6. CASE UNCHANGED vars
  BY <1>0, <1>6, SameIds DEF vars
<1> QED
  BY <1>1, <1>2, <1>3, <1>4, <1>5, <1>6 DEF Next, Environment

-----------------------------------------------------------------------------
(* The hub.                                                                 *)
LEMMA IndexFinite ==
    ASSUME TypeOK, HubOK, NEW b \in BucketIds
    PROVE  /\ index[b] \subseteq DOMAIN connections /\ IsFiniteSet(index[b])
           /\ Cardinality(index[b]) \in Nat
           /\ Cardinality(index[b]) <= MaxClientsPerBucket
<1>1. index[b] \subseteq DOMAIN connections
  BY DEF HubOK, HubIndexAgrees
<1>2. IsFiniteSet(index[b])
  BY <1>1, FS_Subset DEF HubOK
<1> QED
  BY <1>1, <1>2, FS_CardinalityType DEF HubOK, BucketLimit

LEMMA RegisterKeepsHub ==
    ASSUME TypeOK, HubOK, IdsOK, NEW c \in Conns, Register(c), HasRoomFor(c)
    PROVE  HubOK'
<1> DEFINE n == next_conn_id
<1>1. /\ DOMAIN connections' = DOMAIN connections \cup {n}
      /\ connections'[n] = [room |-> ClaimedRoom[c], buckets |-> Allowed(c), task |-> c]
      /\ \A i \in DOMAIN connections \ {n} : connections'[i] = connections[i]
      /\ index' = [b \in BucketIds |->
            IF b \in Allowed(c) THEN index[b] \cup {n} ELSE index[b]]
      /\ conn_id' = [conn_id EXCEPT ![c] = n]
      /\ pc' = [pc EXCEPT ![c] = "added"]
  BY RegisterAdds
<1>2. /\ pc[c] = "authed" /\ pc \in [Conns -> Labels] /\ conn_id \in [Conns -> Nat]
      /\ n \in Nat \ {0} /\ \A d \in Conns : conn_id[d] < n
      /\ conn_id[c] = 0
      /\ \A i \in DOMAIN connections : connections[i].task \in Conns /\ i \in Nat \ {0}
  BY DEF Register, TypeOK, IdsOK, ConnIds
<1>3. \A i \in DOMAIN connections : i # n /\ connections[i].task # c
  BY <1>2 DEF HubOK, HubIndexAgrees
<1>4. IsFiniteSet(DOMAIN connections')
  BY <1>1, FS_AddElement DEF HubOK
<1>5. \A i \in DOMAIN connections' :
          /\ connections'[i].room = ClaimedRoom[connections'[i].task]
          /\ connections'[i].buckets = Allowed(connections'[i].task)
  BY <1>1, <1>3 DEF HubOK
<1>6. \A i \in DOMAIN connections' :
          /\ conn_id'[connections'[i].task] = i
          /\ pc'[connections'[i].task] \in Serving
  <2>1. conn_id'[c] = n /\ pc'[c] \in Serving
    BY <1>1, <1>2 DEF Serving
  <2>2. \A i \in DOMAIN connections : conn_id[connections[i].task] = i
                                      /\ pc[connections[i].task] \in Serving
    BY DEF HubOK, HubIndexAgrees, Serving
  <2> QED
    BY <1>1, <1>2, <1>3, <2>1, <2>2
<1>7. ASSUME NEW b \in BucketIds
      PROVE  index'[b] = {i \in DOMAIN connections' : b \in connections'[i].buckets}
  <2>1. index[b] = {i \in DOMAIN connections : b \in connections[i].buckets}
    BY DEF HubOK, HubIndexAgrees
  <2> QED
    BY <1>1, <1>3, <2>1
<1>8. ASSUME NEW b \in BucketIds PROVE Cardinality(index'[b]) <= MaxClientsPerBucket
  <2>1. CASE b \in Allowed(c)
    <3>1. index'[b] = index[b] \cup {n} /\ n \notin index[b]
      BY <1>1, <1>3, <2>1, IndexFinite
    <3>2. Cardinality(index'[b]) = Cardinality(index[b]) + 1
      BY <3>1, IndexFinite, FS_AddElement
    <3>3. Cardinality(index[b]) < MaxClientsPerBucket
      BY <2>1 DEF HasRoomFor
    <3>4. MaxClientsPerBucket \in Nat
      BY DownstreamAssumption
    <3> QED
      BY <3>2, <3>3, <3>4, IndexFinite
  <2>2. CASE b \notin Allowed(c)
    BY <1>1, <2>2, IndexFinite
  <2> QED
    BY <2>1, <2>2
<1> QED
  BY <1>4, <1>5, <1>6, <1>7, <1>8 DEF HubOK, HubIndexAgrees, BucketLimit, Serving

LEMMA MoveKeepsHub ==
    ASSUME TypeOK, HubOK, NEW c \in Conns, NEW l \in Labels, Goto(c, l),
           UNCHANGED <<connections, index, conn_id>>,
           pc[c] \in Serving => l \in Serving
    PROVE  HubOK'
<1>1. pc' = [pc EXCEPT ![c] = l] /\ pc \in [Conns -> Labels]
  BY DEF Goto, TypeOK
<1>2. \A i \in DOMAIN connections : pc'[connections[i].task] \in Serving
  BY <1>1 DEF HubOK, HubIndexAgrees, Serving, TypeOK
<1> QED
  BY <1>2 DEF HubOK, HubIndexAgrees, BucketLimit, Serving

LEMMA SameHub ==
    ASSUME HubOK, UNCHANGED <<connections, index, conn_id, pc>>
    PROVE  HubOK'
  BY DEF HubOK, HubIndexAgrees, BucketLimit

LEMMA UnregisterKeepsHub ==
    ASSUME TypeOK, HubOK, NEW ids, Unregister(ids), conn_id' = conn_id,
           \A i \in DOMAIN connections \ ids : pc'[connections[i].task] \in Serving
    PROVE  HubOK'
<1>1. /\ DOMAIN connections' = DOMAIN connections \ ids
      /\ \A i \in DOMAIN connections \ ids : connections'[i] = connections[i]
      /\ \A b \in BucketIds : index'[b] =
            index[b] \ {i \in ids \cap DOMAIN connections : b \in connections[i].buckets}
  BY DEF Unregister
<1>2. IsFiniteSet(DOMAIN connections')
  BY <1>1, FS_Subset DEF HubOK
<1>3. \A i \in DOMAIN connections' :
          /\ connections'[i].room = ClaimedRoom[connections'[i].task]
          /\ connections'[i].buckets = Allowed(connections'[i].task)
          /\ conn_id'[connections'[i].task] = i
          /\ pc'[connections'[i].task] \in Serving
  BY <1>1 DEF HubOK, HubIndexAgrees
<1>4. ASSUME NEW b \in BucketIds
      PROVE  /\ index'[b] = {i \in DOMAIN connections' : b \in connections'[i].buckets}
             /\ Cardinality(index'[b]) <= MaxClientsPerBucket
  <2>1. index[b] = {i \in DOMAIN connections : b \in connections[i].buckets}
    BY DEF HubOK, HubIndexAgrees
  <2>2. index'[b] = {i \in DOMAIN connections' : b \in connections'[i].buckets}
    BY <1>1, <2>1
  <2>3. IsFiniteSet(index'[b]) /\ Cardinality(index'[b]) <= Cardinality(index[b])
    BY <1>1, IndexFinite, FS_Subset
  <2>4. Cardinality(index'[b]) \in Nat /\ MaxClientsPerBucket \in Nat
    BY <2>3, FS_CardinalityType, DownstreamAssumption
  <2> QED
    BY <2>2, <2>3, <2>4, IndexFinite
<1> QED
  BY <1>2, <1>3, <1>4 DEF HubOK, HubIndexAgrees, BucketLimit, Serving

LEMMA NextKeepsHub ==
    ASSUME IInv, [Next]_vars
    PROVE  HubOK'
<1> USE DEF storeVars, hubVars, taskVars, dropped
<1>0. TypeOK /\ IdsOK /\ HubOK
  BY DEF IInv
<1>1. ASSUME NEW c \in Conns, Task(c) PROVE HubOK'
  <2>1. CASE Register(c)
    <3>1. CASE HasRoomFor(c)
      BY <1>0, <2>1, <3>1, RegisterKeepsHub
    <3>2. CASE ~HasRoomFor(c)
      <4>1. Goto(c, "rejecting") /\ UNCHANGED <<connections, index, conn_id>>
        BY <2>1, <3>2, RegisterRefuses DEF Goto
      <4>2. pc[c] \notin Serving
        BY <2>1 DEF Register, Serving
      <4> QED
        BY <1>0, <4>1, <4>2, MoveKeepsHub DEF Labels
    <3> QED
      BY <3>1, <3>2
  <2>2. CASE WriteSocket(c)
    BY <1>0, <2>2, SameHub DEF WriteSocket
  <2>3. CASE Rejected(c) \/ Leave(c)
    <3>1. Goto(c, "done") /\ UNCHANGED <<connections, index, conn_id>>
      BY <2>3 DEF Rejected, Leave
    <3>2. pc[c] \notin Serving
      BY <2>3 DEF Rejected, Leave, Serving
    <3> QED
      BY <1>0, <3>1, <3>2, MoveKeepsHub DEF Labels
  <2>4. CASE Announce(c) \/ LockHub(c) \/ SendCommand(c)
    <3>1. PICK l \in {"open", "sending"} : Goto(c, l)
      BY <2>4 DEF Announce, LockHub, SendCommand
    <3>2. UNCHANGED <<connections, index, conn_id>>
      BY <2>4 DEF Announce, LockHub, SendCommand
    <3> QED
      BY <1>0, <3>1, <3>2, MoveKeepsHub DEF Labels, Serving
  <2>5. CASE Cleanup(c)
    <3>1. /\ Unregister({conn_id[c]}) /\ conn_id' = conn_id
          /\ pc' = [pc EXCEPT ![c] = "leaving"]
      BY <2>5 DEF Cleanup, Goto
    <3>2. \A i \in DOMAIN connections : connections[i].task \in Conns
                                        /\ conn_id[connections[i].task] = i
                                        /\ pc[connections[i].task] \in Serving
      BY <1>0 DEF HubOK, HubIndexAgrees, Serving, TypeOK
    <3>3. \A i \in DOMAIN connections \ {conn_id[c]} : pc'[connections[i].task] \in Serving
      BY <1>0, <3>1, <3>2 DEF TypeOK
    <3> QED
      BY <1>0, <3>1, <3>3, UnregisterKeepsHub
  <2> QED
    BY <1>1, <2>1, <2>2, <2>3, <2>4, <2>5 DEF Task
<1>2. ASSUME NEW c \in Conns, Handshake(c) \/ ReadCommand(c) \/ PeerGone(c) PROVE HubOK'
  <2>1. UNCHANGED <<connections, index, conn_id>>
    BY <1>2 DEF Handshake, ReadCommand, PeerGone
  <2>2. CASE Handshake(c)
    <3>1. PICK l \in {"authed", "done"} : Goto(c, l)
      BY <2>2 DEF Handshake
    <3>2. pc[c] \notin Serving
      BY <2>2 DEF Handshake, Serving
    <3> QED
      BY <1>0, <2>1, <3>1, <3>2, MoveKeepsHub DEF Labels
  <2>3. CASE ReadCommand(c) \/ PeerGone(c)
    <3>1. PICK l \in {"locking", "closing"} : Goto(c, l)
      BY <2>3 DEF ReadCommand, PeerGone
    <3> QED
      BY <1>0, <2>1, <3>1, MoveKeepsHub DEF Labels, Serving
  <2> QED
    BY <1>2, <2>2, <2>3
<1>3. CASE Forward
  <2>1. PICK full : Unregister(full)
    BY <1>3 DEF Forward
  <2>2. conn_id' = conn_id /\ pc' = pc
    BY <1>3 DEF Forward
  <2>3. \A i \in DOMAIN connections \ full : pc'[connections[i].task] \in Serving
    BY <1>0, <2>2 DEF HubOK, HubIndexAgrees, Serving
  <2> QED
    BY <1>0, <2>1, <2>2, <2>3, UnregisterKeepsHub
<1>4. CASE TakeNotification \/ Processor
  BY <1>0, <1>4, SameHub
  DEF Processor, TakeNotification, TakeMessage, LookUpRoom, Collect, Target
<1>5. ASSUME NEW w \in Writers, Broadcast(w) PROVE HubOK'
  BY <1>0, <1>5, SameHub DEF Broadcast
<1>6. CASE Store
  BY <1>0, <1>6, StoreKeeps, SameHub
<1>7. CASE UNCHANGED vars
  BY <1>0, <1>7, SameHub DEF vars
<1> QED
  BY <1>1, <1>2, <1>3, <1>4, <1>5, <1>6, <1>7 DEF Next, Environment, Forwarder

-----------------------------------------------------------------------------
(* A task that has an id keeps it: only registration gives one out.         *)
LEMMA IdsKept ==
    ASSUME TypeOK, IdsOK, [Next]_vars
    PROVE  \A c \in Conns : conn_id[c] # 0 => conn_id'[c] = conn_id[c]
<1> USE DEF storeVars, hubVars, taskVars, dropped
<1>1. ASSUME NEW c \in Conns, Register(c)
      PROVE  \A d \in Conns : conn_id[d] # 0 => conn_id'[d] = conn_id[d]
  <2>1. conn_id[c] = 0 /\ conn_id \in [Conns -> Nat]
    BY <1>1 DEF Register, IdsOK, TypeOK
  <2>2. CASE HasRoomFor(c)
    BY <1>1, <2>1, <2>2, RegisterAdds, ZenonT(40)
  <2>3. CASE ~HasRoomFor(c)
    BY <1>1, <2>3, RegisterRefuses
  <2> QED
    BY <2>2, <2>3
<1>2. ASSUME NEW c \in Conns, Task(c), ~Register(c) PROVE conn_id' = conn_id
  BY <1>2 DEF Task, Rejected, Announce, LockHub, SendCommand, WriteSocket, Cleanup, Leave
<1>3. CASE Forwarder \/ Processor
  BY <1>3
  DEF Forwarder, Processor, TakeNotification, Forward, TakeMessage, LookUpRoom, Collect, Target
<1>4. ASSUME NEW w \in Writers, Broadcast(w) PROVE conn_id' = conn_id
  BY <1>4 DEF Broadcast
<1>5. CASE Environment \/ Store
  BY <1>5, StoreKeeps DEF Environment, Handshake, ReadCommand, PeerGone
<1>6. CASE UNCHANGED vars
  BY <1>6 DEF vars
<1> QED
  BY <1>1, <1>2, <1>3, <1>4, <1>5, <1>6 DEF Next

(* Messages stay good, so only what enters a channel has to be.             *)
LEMMA ChannelsKept ==
    ASSUME TypeOK, ChannelsOK,
           \A c \in Conns : conn_id[c] # 0 => conn_id'[c] = conn_id[c],
           \A n \in Elems(notifications') :
              n \in Elems(notifications) \/ (n \in Notification /\ SentFor(n)),
           forwarding' # None => forwarding' \in Elems(notifications) \cup {forwarding},
           \A m \in Elems(downstream') :
              m \in Elems(downstream) \/ (m \in DownstreamMessage /\ ConnectedFor(m))
    PROVE  ChannelsOK'
<1>1. ASSUME NEW n \in Notification, SentFor(n) PROVE SentFor(n)'
  BY <1>1, NoneAssumption DEF SentFor, Notification, ConnIds
<1>2. ASSUME NEW m \in DownstreamMessage, ConnectedFor(m) PROVE ConnectedFor(m)'
  BY <1>2 DEF ConnectedFor, DownstreamMessage, ConnIds
<1>3. /\ Elems(notifications) \subseteq Notification
      /\ Elems(downstream) \subseteq DownstreamMessage
      /\ forwarding \in Notification \cup {None}
  BY ElemsType DEF TypeOK
<1>4. \A n \in Elems(notifications)' : SentFor(n)'
  BY <1>1, <1>3 DEF ChannelsOK, Elems
<1>5. \A m \in Elems(downstream)' : ConnectedFor(m)'
  BY <1>2, <1>3 DEF ChannelsOK, Elems
<1>6. forwarding' # None => SentFor(forwarding)'
  <2>1. SUFFICES ASSUME NEW n, n = forwarding', n # None PROVE SentFor(n)'
    BY DEF SentFor
  <2>2. n \in Elems(notifications) \cup {forwarding}
    BY <2>1
  <2>3. n \in Notification /\ SentFor(n)
    BY <1>3, <2>1, <2>2 DEF ChannelsOK
  <2> QED
    BY <1>1, <2>3
<1> QED
  BY <1>4, <1>5, <1>6 DEF ChannelsOK

LEMMA TryNotifyElems ==
    ASSUME TypeOK, NEW n \in Notification, TryNotify(n)
    PROVE  \/ /\ Len(notifications) < NotifyCap
              /\ notifications' = Append(notifications, n)
              /\ Elems(notifications') = Elems(notifications) \cup {n}
              /\ UNCHANGED <<lost, unsynced>>
           \/ /\ ~(Len(notifications) < NotifyCap)
              /\ notifications' = notifications
              /\ \/ n.to = None /\ lost' = lost \cup {n.update} /\ unsynced' = unsynced
                 \/ n.to # None /\ unsynced' = unsynced \cup {n.to} /\ lost' = lost
<1>1. notifications \in Seq(Notification)
  BY DEF TypeOK
<1>2. Elems(Append(notifications, n)) = Elems(notifications) \cup {n}
  BY <1>1, AppendElems
<1> QED
  BY <1>2 DEF TryNotify, dropped

LEMMA TryDownstreamElems ==
    ASSUME TypeOK, NEW m \in DownstreamMessage, TryDownstream(m)
    PROVE  \/ /\ downstream' = Append(downstream, m)
              /\ Elems(downstream') = Elems(downstream) \cup {m} /\ unsynced' = unsynced
              /\ lost' = lost
           \/ /\ downstream' = downstream /\ lost' = lost
              /\ unsynced' = unsynced \cup (IF m.type = "connected" THEN {m.id} ELSE {})
<1>1. downstream \in Seq(DownstreamMessage)
  BY DEF TypeOK
<1>2. Elems(Append(downstream, m)) = Elems(downstream) \cup {m}
  BY <1>1, AppendElems
<1> QED
  BY <1>2 DEF TryDownstream

(* The messages that enter the channels, by the step that sends them.       *)
LEMMA AnnouncesType ==
    ASSUME TypeOK, IdsOK, NEW c \in Conns, Announce(c)
    PROVE  [type |-> "connected", id |-> conn_id[c], buckets |-> Allowed(c)] \in DownstreamMessage
<1>1. conn_id[c] \in Nat \ {0}
  BY DEF Announce, TypeOK, IdsOK, Serving
<1>2. Allowed(c) \in SUBSET BucketIds
  BY DownstreamAssumption DEF Allowed
<1> QED
  BY <1>1, <1>2 DEF DownstreamMessage, ConnIds

LEMMA TargetsType ==
    ASSUME TypeOK, ProcessorOK, kernel.pc = "target", NEW u \in kernel.updates
    PROVE  [to |-> kernel.id, update |-> u] \in Notification
  BY DEF ProcessorOK, TypeOK, Notification, ConnIds

LEMMA BroadcastsType ==
    ASSUME TypeOK, NEW w \in Writers, Broadcast(w)
    PROVE  [to |-> None, update |-> writing[w]] \in Notification
  BY DEF Broadcast, TypeOK, Notification

LEMMA NextKeepsChannels ==
    ASSUME IInv, [Next]_vars
    PROVE  ChannelsOK'
<1> USE DEF storeVars, hubVars, taskVars, dropped
<1>0. TypeOK /\ IdsOK /\ ChannelsOK /\ ProcessorOK
      /\ \A c \in Conns : conn_id[c] # 0 => conn_id'[c] = conn_id[c]
  BY IdsKept DEF IInv
<1>1. ASSUME UNCHANGED <<notifications, forwarding, downstream>> PROVE ChannelsOK'
  BY <1>0, <1>1, ChannelsKept
<1>2. ASSUME NEW c \in Conns, Announce(c) PROVE ChannelsOK'
  <2> DEFINE m == [type |-> "connected", id |-> conn_id[c], buckets |-> Allowed(c)]
  <2>1. TryDownstream(m) /\ UNCHANGED <<notifications, forwarding>>
    BY <1>2 DEF Announce
  <2>2. m \in DownstreamMessage /\ ConnectedFor(m)
    BY <1>0, <1>2, AnnouncesType DEF ConnectedFor
  <2> HIDE DEF m
  <2>3. \A x \in Elems(downstream') : x \in Elems(downstream) \/ x = m
    BY <1>0, <2>1, <2>2, TryDownstreamElems
  <2> QED
    BY <1>0, <2>1, <2>2, <2>3, ChannelsKept
<1>3. ASSUME NEW c \in Conns, SendCommand(c) \/ Leave(c) PROVE ChannelsOK'
  <2>1. PICK t \in {"message", "disconnected"} :
            \/ downstream' = Append(downstream, [type |-> t, id |-> conn_id[c], buckets |-> {}])
            \/ downstream' = downstream
    BY <1>3 DEF SendCommand, Leave, TryDownstream
  <2>2. UNCHANGED <<notifications, forwarding>>
    BY <1>3 DEF SendCommand, Leave
  <2> DEFINE m == [type |-> t, id |-> conn_id[c], buckets |-> {}]
  <2>3. conn_id[c] \in Nat \ {0}
    BY <1>0, <1>3 DEF SendCommand, Leave, TypeOK, IdsOK, Serving
  <2>4. m \in DownstreamMessage /\ ConnectedFor(m)
    BY <2>3 DEF DownstreamMessage, ConnIds, ConnectedFor
  <2>5. downstream \in Seq(DownstreamMessage)
        /\ (downstream' = Append(downstream, m) \/ downstream' = downstream)
    BY <1>0, <2>1 DEF TypeOK
  <2> HIDE DEF m
  <2>6. \A x \in Elems(downstream') : x \in Elems(downstream) \/ x = m
    <3>1. Elems(Append(downstream, m)) = Elems(downstream) \cup {m}
      BY <2>4, <2>5, AppendElems
    <3> QED
      BY <2>5, <3>1
  <2> QED
    BY <1>0, <2>2, <2>4, <2>6, ChannelsKept
<1>4. ASSUME NEW c \in Conns, Task(c) PROVE ChannelsOK'
  BY <1>1, <1>2, <1>3, <1>4, RegisterKeeps
  DEF Task, Rejected, LockHub, WriteSocket, Cleanup
<1>5. CASE TakeNotification
  <2>1. notifications \in Seq(Notification) /\ notifications # << >>
    BY <1>0, <1>5 DEF TypeOK, TakeNotification
  <2>2. Elems(notifications) = {Head(notifications)} \cup Elems(Tail(notifications))
    BY <2>1, TailElems
  <2>3. /\ forwarding' = Head(notifications) /\ notifications' = Tail(notifications)
        /\ downstream' = downstream
    BY <1>5 DEF TakeNotification
  <2> QED
    BY <1>0, <2>2, <2>3, ChannelsKept
<1>6. CASE Forward
  <2>1. forwarding' = None /\ UNCHANGED <<notifications, downstream>>
    BY <1>6 DEF Forward
  <2> QED
    BY <1>0, <2>1, ChannelsKept
<1>7. CASE TakeMessage
  <2>1. downstream \in Seq(DownstreamMessage) /\ downstream # << >>
    BY <1>0, <1>7 DEF TypeOK, TakeMessage
  <2>2. Elems(Tail(downstream)) \subseteq Elems(downstream)
    BY <2>1, TailElems
  <2>3. UNCHANGED <<notifications, forwarding>> /\ downstream' = Tail(downstream)
    BY <1>7 DEF TakeMessage
  <2> QED
    BY <1>0, <2>2, <2>3, ChannelsKept
<1>8. CASE LookUpRoom \/ Collect
  BY <1>1, <1>8 DEF LookUpRoom, Collect
<1>9. CASE Target
  <2>1. CASE kernel.updates = {}
    BY <1>1, <1>9, <2>1 DEF Target
  <2>2. CASE kernel.updates # {}
    <3>1. PICK u \in kernel.updates : TryNotify([to |-> kernel.id, update |-> u])
      BY <1>9, <2>2 DEF Target
    <3> DEFINE n == [to |-> kernel.id, update |-> u]
    <3>2. n \in Notification
      BY <1>0, <1>9, TargetsType DEF Target
    <3>3. SentFor(n)
      BY <1>0, <1>9 DEF Target, SentFor, ProcessorOK, SyncFor
    <3> HIDE DEF n
    <3>4. \A x \in Elems(notifications') : x \in Elems(notifications) \/ x = n
      BY <1>0, <3>1, <3>2, TryNotifyElems DEF n
    <3>5. UNCHANGED <<forwarding, downstream>>
      BY <1>9 DEF Target
    <3> QED
      BY <1>0, <3>2, <3>3, <3>4, <3>5, ChannelsKept
  <2> QED
    BY <2>1, <2>2
<1>10. ASSUME NEW w \in Writers, Broadcast(w) PROVE ChannelsOK'
  <2> DEFINE n == [to |-> None, update |-> writing[w]]
  <2>1. n \in Notification /\ SentFor(n)
    BY <1>0, <1>10, BroadcastsType DEF SentFor
  <2>2. TryNotify(n) /\ UNCHANGED <<forwarding, downstream>>
    BY <1>10 DEF Broadcast
  <2> HIDE DEF n
  <2>3. \A x \in Elems(notifications') : x \in Elems(notifications) \/ x = n
    BY <1>0, <2>1, <2>2, TryNotifyElems
  <2> QED
    BY <1>0, <2>1, <2>2, <2>3, ChannelsKept
<1>11. CASE Environment \/ Store
  BY <1>1, <1>11, StoreKeeps DEF Environment, Handshake, ReadCommand, PeerGone
<1>12. CASE UNCHANGED vars
  BY <1>1, <1>12 DEF vars
<1> QED
  BY <1>4, <1>5, <1>6, <1>7, <1>8, <1>9, <1>10, <1>11, <1>12
  DEF Next, Forwarder, Processor

LEMMA NextKeepsProcessor ==
    ASSUME IInv, [Next]_vars
    PROVE  ProcessorOK'
<1> USE DEF storeVars, hubVars, taskVars, dropped
<1>0. TypeOK /\ IdsOK /\ HubOK /\ ChannelsOK /\ ProcessorOK
      /\ \A c \in Conns : conn_id[c] # 0 => conn_id'[c] = conn_id[c]
  BY IdsKept DEF IInv
<1>1. ASSUME UNCHANGED kernel PROVE ProcessorOK'
  BY <1>0, <1>1 DEF ProcessorOK, SyncFor
<1>2. ASSUME kernel' = Idle PROVE ProcessorOK'
  BY <1>2 DEF ProcessorOK, Idle
<1>3. CASE TakeMessage
  <2> DEFINE m == Head(downstream)
  <2>1. CASE m.type = "connected"
    <3>1. kernel' = [kernel EXCEPT !.pc = "lookup", !.id = m.id, !.buckets = m.buckets]
      BY <1>3, <2>1 DEF TakeMessage
    <3>2. downstream \in Seq(DownstreamMessage) /\ downstream # << >>
      BY <1>0, <1>3 DEF TypeOK, TakeMessage
    <3>3. m \in Elems(downstream) /\ m \in DownstreamMessage
      BY <3>2, TailElems
    <3>4. PICK c \in Conns : conn_id[c] = m.id /\ m.buckets = Allowed(c)
      BY <1>0, <2>1, <3>3 DEF ChannelsOK, ConnectedFor
    <3>5. m.id # 0
      BY <3>3 DEF DownstreamMessage, ConnIds
    <3>6. kernel = Idle
      BY <1>0, <1>3 DEF TakeMessage, ProcessorOK
    <3>7. /\ kernel'.pc = "lookup" /\ kernel'.id = m.id /\ kernel'.buckets = m.buckets
          /\ kernel'.updates = {}
      BY <3>1, <3>6 DEF Idle
    <3>8. conn_id' = conn_id
      BY <1>3 DEF TakeMessage
    <3> HIDE DEF m
    <3>9. SyncFor(c)'
      BY <3>4, <3>7, <3>8 DEF SyncFor
    <3> QED
      BY <3>5, <3>7, <3>9 DEF ProcessorOK
  <2>2. CASE m.type # "connected"
    BY <1>1, <1>3, <2>2 DEF TakeMessage
  <2> QED
    BY <2>1, <2>2
<1>4. CASE LookUpRoom
  <2>1. PICK c \in Conns : SyncFor(c)
    BY <1>0, <1>4 DEF LookUpRoom, ProcessorOK
  <2>2. CASE kernel.id \in DOMAIN connections
    <3>1. kernel' = [kernel EXCEPT !.pc = "collect", !.room = connections[kernel.id].room]
      BY <1>4, <2>2 DEF LookUpRoom
    <3>2. kernel.id # 0 /\ conn_id' = conn_id
      BY <1>0, <1>4 DEF LookUpRoom, ProcessorOK
    <3>3. /\ connections[kernel.id].room \in Rooms
          /\ connections[kernel.id].room = ClaimedRoom[c]
      <4>1. conn_id[connections[kernel.id].task] = conn_id[c]
        BY <1>0, <2>1, <2>2 DEF SyncFor, HubOK, HubIndexAgrees
      <4>2. connections[kernel.id].task = c
        BY <1>0, <2>1, <2>2, <3>2, <4>1 DEF SyncFor, IdsOK, TypeOK
      <4> QED
        BY <1>0, <2>2, <4>2 DEF HubOK, TypeOK
    <3>4. /\ kernel'.pc = "collect" /\ kernel'.id = kernel.id
          /\ kernel'.buckets = kernel.buckets /\ kernel'.updates = kernel.updates
          /\ kernel'.room = connections[kernel.id].room
      BY <1>0, <3>1 DEF TypeOK
    <3>5. SyncFor(c)'
      BY <2>1, <3>2, <3>3, <3>4 DEF SyncFor
    <3> QED
      BY <3>2, <3>4, <3>5 DEF ProcessorOK
  <2>3. CASE kernel.id \notin DOMAIN connections
    BY <1>2, <1>4, <2>3 DEF LookUpRoom
  <2> QED
    BY <2>2, <2>3
<1>5. CASE Collect
  <2>1. PICK c \in Conns : SyncFor(c)
    BY <1>0, <1>5 DEF Collect, ProcessorOK
  <2> DEFINE U == {[room |-> kernel.room, bucket |-> b, value |-> stored[<<kernel.room, b>>]] :
                     b \in {d \in kernel.buckets : stored[<<kernel.room, d>>] # None}}
  <2>2. kernel' = [kernel EXCEPT !.pc = "target", !.updates = U]
    BY <1>5, Zenon DEF Collect
  <2>3. ASSUME NEW u \in U PROVE u.bucket \in Allowed(c)
    <3>1. PICK b \in kernel.buckets :
              u = [room |-> kernel.room, bucket |-> b, value |-> stored[<<kernel.room, b>>]]
      BY Zenon
    <3> QED
      BY <2>1, <3>1 DEF SyncFor
  <2> HIDE DEF U
  <2>4. kernel.id # 0 /\ conn_id' = conn_id /\ kernel.pc = "collect"
    BY <1>0, <1>5 DEF Collect, ProcessorOK
  <2>5. /\ kernel'.pc = "target" /\ kernel'.id = kernel.id /\ kernel'.room = kernel.room
        /\ kernel'.buckets = kernel.buckets /\ kernel'.updates = U
    BY <1>0, <2>2 DEF TypeOK
  <2>6. SyncFor(c)'
    BY <2>1, <2>3, <2>4, <2>5 DEF SyncFor
  <2> QED
    BY <2>4, <2>5, <2>6 DEF ProcessorOK
<1>6. CASE Target
  <2>1. CASE kernel' = Idle
    BY <1>2, <2>1
  <2>2. CASE kernel' # Idle
    <3>1. PICK u : kernel' = [kernel EXCEPT !.updates = @ \ {u}]
      BY <1>6, <2>2 DEF Target
    <3>2. PICK c \in Conns : SyncFor(c)
      BY <1>0, <1>6 DEF Target, ProcessorOK
    <3>3. kernel.id # 0 /\ conn_id' = conn_id /\ kernel.pc = "target"
      BY <1>0, <1>6 DEF Target, ProcessorOK
    <3>4. /\ kernel'.pc = kernel.pc /\ kernel'.id = kernel.id /\ kernel'.room = kernel.room
          /\ kernel'.buckets = kernel.buckets /\ kernel'.updates = kernel.updates \ {u}
      BY <1>0, <3>1 DEF TypeOK
    <3>5. SyncFor(c)'
      BY <3>2, <3>3, <3>4 DEF SyncFor
    <3> QED
      BY <3>3, <3>4, <3>5 DEF ProcessorOK
  <2> QED
    BY <2>1, <2>2
<1>7. ASSUME NEW c \in Conns, Task(c) PROVE ProcessorOK'
  <2>1. kernel' = kernel
    BY <1>7, RegisterKeeps
    DEF Task, Rejected, Announce, LockHub, SendCommand, WriteSocket, Cleanup, Leave
  <2> QED
    BY <1>1, <2>1
<1>8. CASE Forwarder
  BY <1>1, <1>8 DEF Forwarder, TakeNotification, Forward
<1>9. ASSUME NEW w \in Writers, Broadcast(w) PROVE ProcessorOK'
  BY <1>1, <1>9 DEF Broadcast
<1>10. CASE Environment \/ Store
  BY <1>1, <1>10, StoreKeeps DEF Environment, Handshake, ReadCommand, PeerGone
<1>11. CASE UNCHANGED vars
  BY <1>1, <1>11 DEF vars
<1> QED
  BY <1>3, <1>4, <1>5, <1>6, <1>7, <1>8, <1>9, <1>10, <1>11 DEF Next, Processor

-----------------------------------------------------------------------------
(* What a client is given.                                                  *)
Given(c) == Elems(seen[c]) \cup Elems(queue[c])

LEMMA StreamGrant ==
    ASSUME NEW s \in Seq(Update), NEW q \in Seq(Update), NEW A
    PROVE  (\A i \in DOMAIN (s \o q) : (s \o q)[i].bucket \in A)
              <=> \A u \in Elems(s) \cup Elems(q) : u.bucket \in A
<1>1. Elems(s \o q) = Elems(s) \cup Elems(q)
  BY ConcatElems
<1> QED
  BY <1>1 DEF Elems

LEMMA GrantsByElems ==
    /\ TypeOK => (NothingOutsideGrant <=>
                    \A c \in Conns : \A u \in Given(c) : u.bucket \in Allowed(c))
    /\ TypeOK' => (NothingOutsideGrant' <=>
                    \A c \in Conns : \A u \in Given(c)' : u.bucket \in Allowed(c))
<1>1. TypeOK => \A c \in Conns : seen[c] \in Seq(Update) /\ queue[c] \in Seq(Update)
  BY DEF TypeOK
<1>2. TypeOK' => \A c \in Conns : seen'[c] \in Seq(Update) /\ queue'[c] \in Seq(Update)
  BY DEF TypeOK
<1>4. ASSUME NEW c \in Conns, NEW s \in Seq(Update), NEW q \in Seq(Update)
      PROVE  (\A i \in DOMAIN (s \o q) : /\ (s \o q)[i].bucket \in ClaimedBuckets[c] \cup {PublicBucket}
                                        /\ (s \o q)[i].bucket # ReservedBucket)
                <=> \A u \in Elems(s) \cup Elems(q) : u.bucket \in Allowed(c)
  <2>1. (\A i \in DOMAIN (s \o q) : (s \o q)[i].bucket \in Allowed(c))
           <=> \A u \in Elems(s) \cup Elems(q) : u.bucket \in Allowed(c)
    BY StreamGrant, Zenon
  <2>2. \A x : x.bucket \in Allowed(c) <=> /\ x.bucket \in ClaimedBuckets[c] \cup {PublicBucket}
                                           /\ x.bucket # ReservedBucket
    BY DEF Allowed
  <2> QED
    BY <2>1, <2>2, Zenon
<1>5. ASSUME TypeOK
      PROVE  NothingOutsideGrant <=>
                \A c \in Conns : \A u \in Given(c) : u.bucket \in Allowed(c)
  <2>1. \A c \in Conns : Given(c) = Elems(seen[c]) \cup Elems(queue[c])
    BY DEF Given
  <2> QED
    BY <1>1, <1>4, <1>5, <2>1, Zenon DEF NothingOutsideGrant, Stream
<1>6. ASSUME TypeOK'
      PROVE  NothingOutsideGrant' <=>
                \A c \in Conns : \A u \in Given(c)' : u.bucket \in Allowed(c)
  <2>1. \A c \in Conns : Given(c)' = Elems(seen'[c]) \cup Elems(queue'[c])
    BY DEF Given, Elems
  <2> QED
    BY <1>2, <1>4, <1>6, <2>1, Zenon DEF NothingOutsideGrant, Stream
<1> QED
  BY <1>5, <1>6

(* The queue of a client after the forwarder's step.                        *)
LEMMA ForwardGives ==
    ASSUME IInv, Forward, NEW c \in Conns
    PROVE  /\ \/ queue'[c] = queue[c] /\ Elems(queue'[c]) = Elems(queue[c])
              \/ /\ conn_id[c] \in Recipients(forwarding)
                 /\ queue'[c] = Append(queue[c], forwarding.update)
                 /\ Elems(queue'[c]) = Elems(queue[c]) \cup {forwarding.update}
           /\ \/ Recipients(forwarding) \cap {conn_id[c]} = {}
              \/ conn_id[c] \notin DOMAIN connections'
              \/ /\ Elems(queue'[c]) = Elems(queue[c]) \cup {forwarding.update}
                 /\ queue'[c] = Append(queue[c], forwarding.update)
<1> DEFINE R == Recipients(forwarding)
           full == {i \in R : QueueFull(i)}
           fine == R \ full
<1>0. TypeOK /\ IdsOK /\ HubOK
  BY DEF IInv
<1>1. queue' = [d \in Conns |-> IF \E i \in fine : connections[i].task = d
                                THEN Append(queue[d], forwarding.update) ELSE queue[d]]
  BY Zenon DEF Forward
<1>2. connections' = [i \in DOMAIN connections \ full |-> connections[i]]
  BY Zenon DEF Forward, Unregister
<1>3. forwarding \in Notification /\ forwarding.update \in Update /\ queue[c] \in Seq(Update)
  BY <1>0 DEF Forward, TypeOK, Notification
<1>4. R \subseteq DOMAIN connections
  BY <1>0, <1>3, IndexFinite DEF Recipients, Update
<1>5. \A i \in DOMAIN connections : connections[i].task = c => conn_id[c] = i
  BY <1>0 DEF HubOK, HubIndexAgrees
<1>6. ASSUME conn_id[c] \in DOMAIN connections PROVE connections[conn_id[c]].task = c
  <2>1. conn_id[connections[conn_id[c]].task] = conn_id[c] /\ conn_id[c] # 0
    BY <1>0, <1>6 DEF HubOK, HubIndexAgrees, TypeOK, ConnIds
  <2> QED
    BY <1>0, <1>6, <2>1 DEF IdsOK, TypeOK
<1> HIDE DEF R
<1>7. (\E i \in fine : connections[i].task = c) <=> conn_id[c] \in fine
  BY <1>4, <1>5, <1>6
<1>8. queue'[c] = IF conn_id[c] \in fine THEN Append(queue[c], forwarding.update) ELSE queue[c]
  BY <1>1, <1>7
<1>9. Elems(Append(queue[c], forwarding.update)) = Elems(queue[c]) \cup {forwarding.update}
  BY <1>3, AppendElems
<1>10. DOMAIN connections' = DOMAIN connections \ full
  BY <1>2
<1>11. CASE conn_id[c] \in fine
  <2>1. queue'[c] = Append(queue[c], forwarding.update) /\ conn_id[c] \in R
    BY <1>8, <1>11
  <2> QED
    BY <1>9, <2>1 DEF R
<1>12. CASE conn_id[c] \notin fine
  <2>1. queue'[c] = queue[c]
    BY <1>8, <1>12
  <2>2. conn_id[c] \notin R \/ conn_id[c] \notin DOMAIN connections'
    BY <1>10, <1>12
  <2> QED
    BY <2>1, <2>2 DEF R
<1> QED
  BY <1>11, <1>12

LEMMA NextKeepsGrants ==
    ASSUME IInv, [Next]_vars
    PROVE  NothingOutsideGrant'
<1> USE DEF storeVars, hubVars, taskVars, dropped
<1>0. TypeOK /\ IdsOK /\ HubOK /\ ChannelsOK /\ TypeOK'
      /\ \A c \in Conns : \A u \in Given(c) : u.bucket \in Allowed(c)
  BY NextKeepsType, GrantsByElems DEF IInv
<1> SUFFICES ASSUME NEW c \in Conns, NEW u \in Given(c)' PROVE u.bucket \in Allowed(c)
  <2>1. NothingOutsideGrant' <=> \A d \in Conns : \A x \in Given(d)' : x.bucket \in Allowed(d)
    BY <1>0, GrantsByElems
  <2> QED
    BY <2>1
<1>1. ASSUME UNCHANGED <<seen, queue>> PROVE u.bucket \in Allowed(c)
  BY <1>0, <1>1 DEF Given, Elems
<1>2. ASSUME NEW d \in Conns, WriteSocket(d) PROVE u.bucket \in Allowed(c)
  <2>1. queue[d] # << >> /\ seen[d] \in Seq(Update) /\ queue[d] \in Seq(Update)
        /\ seen \in [Conns -> Seq(Update)] /\ queue \in [Conns -> Seq(Update)]
    BY <1>0, <1>2 DEF WriteSocket, TypeOK
  <2>2. seen'[d] = Append(seen[d], Head(queue[d])) /\ queue'[d] = Tail(queue[d])
    BY <1>2, <2>1 DEF WriteSocket
  <2>3. Elems(seen'[d]) = Elems(seen[d]) \cup {Head(queue[d])}
        /\ Elems(queue[d]) = {Head(queue[d])} \cup Elems(queue'[d])
    BY <2>1, <2>2, AppendElems, TailElems
  <2>4. c # d => seen'[c] = seen[c] /\ queue'[c] = queue[c]
    BY <1>2, <2>1 DEF WriteSocket
  <2>5. Elems(seen'[c]) \cup Elems(queue'[c]) = Elems(seen[c]) \cup Elems(queue[c])
    BY <2>3, <2>4
  <2> QED
    BY <1>0, <2>5 DEF Given, Elems
<1>3. CASE Forward
  <2>1. u \in Given(c) \/ (conn_id[c] \in Recipients(forwarding) /\ u = forwarding.update)
    <3>1. u \in Elems(seen'[c]) \cup Elems(queue'[c]) /\ seen' = seen
      BY <1>3 DEF Given, Elems, Forward
    <3> QED
      BY <1>3, <3>1, ForwardGives DEF Given
  <2>2. ASSUME conn_id[c] \in Recipients(forwarding), u = forwarding.update
        PROVE  u.bucket \in Allowed(c)
    <3>1. forwarding \in Notification /\ u.bucket \in BucketIds /\ SentFor(forwarding)
      BY <1>0, <1>3, <2>2 DEF Forward, TypeOK, Notification, Update, ChannelsOK
    <3>2. conn_id[c] \in DOMAIN connections
      BY <1>0, <2>2, <3>1, IndexFinite DEF Recipients
    <3>3. conn_id[c] # 0 /\ connections[conn_id[c]].task \in Conns
          /\ conn_id[connections[conn_id[c]].task] = conn_id[c]
      BY <1>0, <3>2 DEF TypeOK, ConnIds, HubOK, HubIndexAgrees
    <3>4. connections[conn_id[c]].buckets = Allowed(c)
      BY <1>0, <3>2, <3>3 DEF HubOK, IdsOK
    <3>5. CASE forwarding.to = None
      BY <1>0, <2>2, <3>1, <3>4, <3>5 DEF Recipients, HubOK, HubIndexAgrees
    <3>6. CASE forwarding.to # None
      BY <1>0, <2>2, <3>1, <3>3, <3>6 DEF Recipients, SentFor, IdsOK
    <3> QED
      BY <3>5, <3>6
  <2> QED
    BY <1>0, <2>1, <2>2
<1>4. ASSUME NEW d \in Conns, Task(d), ~WriteSocket(d) PROVE u.bucket \in Allowed(c)
  BY <1>1, <1>4, RegisterKeeps
  DEF Task, Rejected, Announce, LockHub, SendCommand, Cleanup, Leave
<1>5. CASE TakeNotification \/ Processor
  BY <1>1, <1>5 DEF Processor, TakeNotification, TakeMessage, LookUpRoom, Collect, Target
<1>6. ASSUME NEW w \in Writers, Broadcast(w) PROVE u.bucket \in Allowed(c)
  BY <1>1, <1>6 DEF Broadcast
<1>7. CASE Environment \/ Store
  BY <1>1, <1>7, StoreKeeps DEF Environment, Handshake, ReadCommand, PeerGone
<1>8. CASE UNCHANGED vars
  BY <1>1, <1>8 DEF vars
<1> QED
  BY <1>2, <1>3, <1>4, <1>5, <1>6, <1>7, <1>8 DEF Next, Forwarder

-----------------------------------------------------------------------------
(* The writers.                                                             *)
LEMMA OnlyStoreStores ==
    ASSUME [Next]_vars, ~Store
    PROVE  UNCHANGED <<writes, loaded, stored, changes, checked>>
<1> USE DEF storeVars, hubVars, taskVars, dropped
<1>1. ASSUME NEW d \in Conns, Task(d)
      PROVE  UNCHANGED <<writes, loaded, stored, changes, checked>>
  BY <1>1, RegisterKeeps
  DEF Task, Rejected, Announce, LockHub, SendCommand, WriteSocket, Cleanup, Leave
<1>2. ASSUME NEW w \in Writers, Broadcast(w)
      PROVE  UNCHANGED <<writes, loaded, stored, changes, checked>>
  BY <1>2 DEF Broadcast
<1>3. CASE Forwarder \/ Processor
  BY <1>3 DEF Forwarder, Processor, TakeNotification, Forward, TakeMessage, LookUpRoom,
              Collect, Target
<1>4. CASE Environment
  BY <1>4 DEF Environment, Handshake, ReadCommand, PeerGone
<1>5. CASE UNCHANGED vars
  BY <1>5 DEF vars
<1> QED
  BY <1>1, <1>2, <1>3, <1>4, <1>5 DEF Next

LEMMA NextKeepsWriters ==
    ASSUME IInv, [Next]_vars
    PROVE  WritersOK'
<1> USE DEF storeVars, hubVars, taskVars, dropped
<1>0. /\ WritersOK /\ checked \in [Writers -> Slots \cup {None}]
      /\ writing \in [Writers -> Update \cup {None}]
  BY DEF IInv, TypeOK
<1>1. ASSUME UNCHANGED <<checked, writing>> PROVE WritersOK'
  BY <1>0, <1>1 DEF WritersOK
<1>2. ASSUME NEW w \in Writers, NEW r \in Rooms, NEW b \in BucketIds, StartWrite(w, r, b)
      PROVE  WritersOK'
  BY <1>0, <1>2 DEF StartWrite, WritersOK
<1>3. ASSUME NEW w \in Writers, ApplyWrite(w) PROVE WritersOK'
  BY <1>0, <1>3 DEF ApplyWrite, WritersOK
<1>4. ASSUME NEW r \in Rooms, LoadRoom(r) \/ UnloadRoom(r) PROVE WritersOK'
  BY <1>1, <1>4 DEF LoadRoom, UnloadRoom
<1>5. ASSUME NEW r \in Rooms, NEW b \in BucketIds, DeleteBucket(r, b) PROVE WritersOK'
  BY <1>1, <1>5 DEF DeleteBucket
<1>6. ASSUME NEW w \in Writers, Broadcast(w) PROVE WritersOK'
  BY <1>0, <1>6 DEF Broadcast, WritersOK
<1>7. ASSUME NEW c \in Conns, Task(c) PROVE UNCHANGED writing
  BY <1>7, RegisterKeeps
  DEF Task, Rejected, Announce, LockHub, SendCommand, WriteSocket, Cleanup, Leave
<1>8. CASE Forwarder \/ Processor \/ Environment \/ UNCHANGED vars
  BY <1>1, <1>8 DEF Forwarder, Processor, TakeNotification, Forward, TakeMessage, LookUpRoom,
     Collect, Target, Environment, Handshake, ReadCommand, PeerGone, vars
<1>9. CASE ~Store
  BY <1>1, <1>6, <1>7, <1>8, <1>9, OnlyStoreStores DEF Next
<1>10. CASE Store
  BY <1>2, <1>3, <1>4, <1>5, <1>10 DEF Store
<1> QED
  BY <1>9, <1>10

-----------------------------------------------------------------------------
LEMMA InitIInv == Init => IInv
<1> SUFFICES ASSUME Init PROVE IInv
  OBVIOUS
<1>1. DOMAIN connections = {} /\ Elems(<< >>) = {}
  BY DEF Init, Elems
<1>2. MaxCommands \in Nat /\ MaxChanges \in Nat /\ MaxClientsPerBucket \in Nat
  BY DownstreamAssumption
<1>3. TypeOK
  <2>1. connections \in [DOMAIN connections ->
                [room : Rooms, buckets : SUBSET BucketIds, task : Conns]]
    BY DEF Init
  <2> QED
    BY <1>1, <1>2, <2>1 DEF Init, TypeOK, ConnIds, Labels, Idle
<1>4. IdsOK
  <2>1. Past = {}
    BY DEF Init, Past
  <2>2. Cardinality(Past) = 0
    BY <2>1, FS_EmptySet
  <2> QED
    BY <2>2 DEF Init, IdsOK, Serving
<1>5. HubOK
  <2>1. IsFiniteSet({}) /\ Cardinality({}) = 0
    BY FS_EmptySet
  <2> QED
    BY <1>1, <1>2, <2>1 DEF Init, HubOK, HubIndexAgrees, BucketLimit
<1>6. ChannelsOK /\ ProcessorOK /\ WritersOK
  BY <1>1 DEF Init, ChannelsOK, ProcessorOK, WritersOK, Idle
<1>7. NothingOutsideGrant
  BY <1>1, <1>3, GrantsByElems DEF Init, Given
<1> QED
  BY <1>3, <1>4, <1>5, <1>6, <1>7 DEF IInv

LEMMA NextKeepsIInv == IInv /\ [Next]_vars => IInv'
<1> SUFFICES ASSUME IInv, [Next]_vars PROVE IInv'
  OBVIOUS
<1> QED
  BY NextKeepsType, NextKeepsIds, NextKeepsHub, NextKeepsChannels, NextKeepsProcessor,
     NextKeepsGrants, NextKeepsWriters DEF IInv

LEMMA IInvAlways == Spec => []IInv
  BY InitIInv, NextKeepsIInv, PTL DEF Spec

-----------------------------------------------------------------------------
(* Every variable keeps its type; in particular connection ids never reach  *)
(* the value at which allocate_connection_id saturates (hub.rs), since one  *)
(* is used per accepted socket.                                             *)
THEOREM TypeCorrect == Spec => []TypeOK
<1>1. IInv => TypeOK
  BY DEF IInv
<1> QED
  BY <1>1, IInvAlways, PTL

(* The hub's two tables agree and name running tasks only (add_client,      *)
(* remove_client, and the removal of a slow client in broadcast_update).    *)
THEOREM HubCorrect == Spec => []HubIndexAgrees
<1>1. IInv => HubIndexAgrees
  BY DEF IInv, HubOK
<1> QED
  BY <1>1, IInvAlways, PTL

(* No bucket has more subscribers than MAX_WS_CLIENTS_PER_BUCKET            *)
(* (has_bucket_capacity, checked under the lock that add_client takes).     *)
THEOREM LimitHolds == Spec => []BucketLimit
<1>1. IInv => BucketLimit
  BY DEF IInv, HubOK
<1> QED
  BY <1>1, IInvAlways, PTL

(* No client is handed an update of a bucket outside its token's grant, by  *)
(* broadcast or by initial sync (connection.rs, hub.rs, kernel.rs).         *)
THEOREM GrantsRespected == Spec => []NothingOutsideGrant
<1>1. IInv => NothingOutsideGrant
  BY DEF IInv
<1> QED
  BY <1>1, IInvAlways, PTL

-----------------------------------------------------------------------------
(* Nothing falls between the initial sync and live updates.  Way is the     *)
(* right-hand side of LatestIsOnItsWay, with channels as sets.              *)
Latest(c, b) == [room |-> ClaimedRoom[c], bucket |-> b, value |-> stored[<<ClaimedRoom[c], b>>]]

Way(c, u) ==
    \/ u \in Given(c)
    \/ \E to \in {None, conn_id[c]} :
          [to |-> to, update |-> u] \in Elems(notifications) \cup {forwarding}
    \/ \E w \in Writers : writing[w] = u
    \/ pc[c] = "added"
    \/ \E m \in Elems(downstream) : m.type = "connected" /\ m.id = conn_id[c]
    \/ kernel.id = conn_id[c] /\ (kernel.pc \in {"lookup", "collect"} \/ u \in kernel.updates)
    \/ u \in lost
    \/ conn_id[c] \in unsynced

Wanted(c, b) == Registered(c) /\ b \in Allowed(c) /\ Written(<<ClaimedRoom[c], b>>)

LEMMA LatestByWay ==
    ASSUME TypeOK
    PROVE  LatestIsOnItsWay <=>
              \A c \in Conns, b \in BucketIds : Wanted(c, b) => Way(c, Latest(c, b))
<1>1. ASSUME NEW c \in Conns, NEW u
      PROVE  InBuffer(Stream(c), u) <=> u \in Given(c)
  <2>1. Elems(Stream(c)) = Given(c)
    BY ConcatElems DEF TypeOK, Stream, Given
  <2>2. InBuffer(Stream(c), u) <=> u \in Elems(Stream(c))
    BY DEF InBuffer, Elems
  <2> QED
    BY <2>1, <2>2
<1>2. \A n : InBuffer(notifications, n) <=> n \in Elems(notifications)
  BY DEF InBuffer, Elems
<1>3. \A id : (\E i \in DOMAIN downstream : downstream[i].type = "connected" /\ downstream[i].id = id)
                <=> \E m \in Elems(downstream) : m.type = "connected" /\ m.id = id
  BY DEF Elems
<1>4. ASSUME NEW c \in Conns, NEW u
      PROVE  Way(c, u) <=>
               \/ InBuffer(Stream(c), u)
               \/ \E to \in {None, conn_id[c]} :
                     LET n == [to |-> to, update |-> u]
                     IN  InBuffer(notifications, n) \/ forwarding = n
               \/ \E w \in Writers : writing[w] = u
               \/ pc[c] = "added"
               \/ \E i \in DOMAIN downstream :
                     downstream[i].type = "connected" /\ downstream[i].id = conn_id[c]
               \/ kernel.id = conn_id[c] /\ (kernel.pc \in {"lookup", "collect"}
                                              \/ u \in kernel.updates)
               \/ u \in lost
               \/ conn_id[c] \in unsynced
  BY <1>1, <1>2, <1>3, Zenon DEF Way
<1> QED
  BY <1>4, Zenon DEF LatestIsOnItsWay, Wanted, Latest

(* A client is registered already, or its own registration does it.         *)
LEMMA RegisteredBefore ==
    ASSUME IInv, [Next]_vars, NEW c \in Conns, Registered(c)'
    PROVE  \/ Registered(c) /\ conn_id'[c] = conn_id[c] /\ conn_id[c] # 0
           \/ Register(c) /\ HasRoomFor(c)
<1> USE DEF storeVars, hubVars, taskVars, dropped
<1>0. TypeOK /\ IdsOK
  BY DEF IInv
<1>1. \A i \in DOMAIN connections : i # 0
  BY <1>0 DEF TypeOK, ConnIds
<1>2. ASSUME conn_id' = conn_id, DOMAIN connections' \subseteq DOMAIN connections
      PROVE  Registered(c) /\ conn_id'[c] = conn_id[c] /\ conn_id[c] # 0
  BY <1>1, <1>2 DEF Registered
<1>3. ASSUME NEW d \in Conns, Register(d)
      PROVE  \/ Registered(c) /\ conn_id'[c] = conn_id[c] /\ conn_id[c] # 0
             \/ Register(c) /\ HasRoomFor(c)
  <2>1. CASE HasRoomFor(d)
    <3>1. /\ DOMAIN connections' = DOMAIN connections \cup {next_conn_id}
          /\ conn_id' = [conn_id EXCEPT ![d] = next_conn_id]
      BY <1>3, <2>1, RegisterAdds
    <3>2. CASE c = d
      BY <1>3, <2>1, <3>2
    <3>3. CASE c # d
      <4>1. conn_id'[c] = conn_id[c] /\ conn_id[c] # next_conn_id
        BY <1>0, <3>1, <3>3 DEF TypeOK, ConnIds
      <4> QED
        BY <1>1, <3>1, <4>1 DEF Registered
    <3> QED
      BY <3>2, <3>3
  <2>2. CASE ~HasRoomFor(d)
    BY <1>2, <1>3, <2>2, RegisterRefuses
  <2> QED
    BY <2>1, <2>2
<1>4. ASSUME NEW d \in Conns, Task(d), ~Register(d)
      PROVE  conn_id' = conn_id /\ DOMAIN connections' \subseteq DOMAIN connections
  BY <1>4 DEF Task, Rejected, Announce, LockHub, SendCommand, WriteSocket, Cleanup, Leave,
              Unregister
<1>5. CASE Forwarder \/ Processor
  BY <1>2, <1>5
  DEF Forwarder, Processor, TakeNotification, Forward, Unregister, TakeMessage, LookUpRoom,
      Collect, Target
<1>6. ASSUME NEW w \in Writers, Broadcast(w)
      PROVE  Registered(c) /\ conn_id'[c] = conn_id[c] /\ conn_id[c] # 0
  BY <1>2, <1>6 DEF Broadcast
<1>7. CASE Environment \/ Store
  BY <1>2, <1>7, StoreKeeps DEF Environment, Handshake, ReadCommand, PeerGone
<1>8. CASE UNCHANGED vars
  BY <1>2, <1>8 DEF vars
<1> QED
  BY <1>2, <1>3, <1>4, <1>5, <1>6, <1>7, <1>8 DEF Next

(* A value on its way stays on its way, in every step that stores nothing.  *)
LEMMA WayKept ==
    ASSUME IInv, [Next]_vars, NEW c \in Conns, NEW b \in BucketIds,
           Wanted(c, b), Registered(c)', conn_id'[c] = conn_id[c], conn_id[c] # 0,
           Way(c, Latest(c, b)),
           ~Store
    PROVE  Way(c, Latest(c, b))'
<1> DEFINE u == Latest(c, b)
<1> USE DEF storeVars, hubVars, taskVars, dropped
<1>0. TypeOK /\ IdsOK /\ HubOK /\ ChannelsOK /\ ProcessorOK
  BY DEF IInv
<1>1. Latest(c, b)' = u
  <2>1. stored' = stored
    BY OnlyStoreStores
  <2> QED
    BY <2>1 DEF Latest
<1>2. u.bucket = b /\ u = [room |-> ClaimedRoom[c], bucket |-> b, value |-> stored[<<ClaimedRoom[c], b>>]]
  BY DEF Latest
<1> DEFINE Way2 ==
      \/ u \in Elems(seen'[c]) \cup Elems(queue'[c])
      \/ \E to \in {None, conn_id[c]} :
            [to |-> to, update |-> u] \in Elems(notifications') \cup {forwarding'}
      \/ \E w \in Writers : writing'[w] = u
      \/ pc'[c] = "added"
      \/ \E m \in Elems(downstream') : m.type = "connected" /\ m.id = conn_id[c]
      \/ kernel'.id = conn_id[c] /\ (kernel'.pc \in {"lookup", "collect"} \/ u \in kernel'.updates)
      \/ u \in lost'
      \/ conn_id[c] \in unsynced'
<1>3. SUFFICES Way2
  BY <1>1 DEF Way, Given, Elems
<1>4. Way(c, u)
  OBVIOUS
<1> HIDE DEF u
<1>5. ASSUME UNCHANGED <<seen, queue, notifications, forwarding, writing, downstream, kernel, lost, unsynced>>,
             pc[c] = "added" => pc'[c] = "added"
      PROVE  Way2
  BY <1>4, <1>5 DEF Way, Given
<1> HIDE DEF Way2
<1>6. ASSUME NEW d \in Conns, Task(d) PROVE Way2
  <2>1. CASE Register(d)
    <3>1. pc'[c] = pc[c] \/ pc[d] = "authed"
      BY <2>1 DEF Register
    <3>2. pc'[c] = pc[c] \/ c = d
      BY <1>0, <2>1, RegisterAdds, RegisterRefuses DEF TypeOK
    <3>3. pc[c] # "authed"
      BY <1>0 DEF IdsOK
    <3> QED
      BY <1>5, <2>1, <3>1, <3>2, <3>3, RegisterKeeps DEF Register
  <2>2. CASE Announce(d)
    <3>1. [type |-> "connected", id |-> conn_id[d], buckets |-> Allowed(d)] \in DownstreamMessage
      BY <1>0, <2>2, AnnouncesType
    <3> DEFINE m == [type |-> "connected", id |-> conn_id[d], buckets |-> Allowed(d)]
    <3>2. \/ Elems(downstream') = Elems(downstream) \cup {m} /\ unsynced' = unsynced
          \/ downstream' = downstream /\ unsynced' = unsynced \cup {conn_id[d]}
      BY <1>0, <2>2, <3>1, TryDownstreamElems DEF Announce
    <3>3. m.type = "connected" /\ m.id = conn_id[d]
      OBVIOUS
    <3>4. pc'[c] = pc[c] \/ c = d
      BY <1>0, <2>2 DEF Announce, Goto, TypeOK
    <3>5. UNCHANGED <<seen, queue, notifications, forwarding, writing, kernel, lost>>
      BY <2>2 DEF Announce, TryDownstream
    <3> HIDE DEF m
    <3> QED
      BY <1>4, <3>2, <3>3, <3>4, <3>5 DEF Way, Given, Way2
  <2>3. CASE WriteSocket(d)
    <3>1. queue[d] # << >> /\ seen[d] \in Seq(Update) /\ queue[d] \in Seq(Update)
          /\ seen \in [Conns -> Seq(Update)] /\ queue \in [Conns -> Seq(Update)]
      BY <1>0, <2>3 DEF WriteSocket, TypeOK
    <3>2. seen'[d] = Append(seen[d], Head(queue[d])) /\ queue'[d] = Tail(queue[d])
      BY <2>3, <3>1 DEF WriteSocket
    <3>3. Elems(seen'[d]) = Elems(seen[d]) \cup {Head(queue[d])}
          /\ Elems(queue[d]) = {Head(queue[d])} \cup Elems(queue'[d])
      BY <3>1, <3>2, AppendElems, TailElems
    <3>4. c # d => seen'[c] = seen[c] /\ queue'[c] = queue[c]
      BY <2>3, <3>1 DEF WriteSocket
    <3>5. Elems(seen'[c]) \cup Elems(queue'[c]) = Given(c)
      BY <3>3, <3>4 DEF Given
    <3>6. UNCHANGED <<notifications, forwarding, writing, pc, downstream, kernel, lost, unsynced>>
      BY <2>3 DEF WriteSocket
    <3> QED
      BY <1>4, <3>5, <3>6 DEF Way, Way2
  <2>4. CASE SendCommand(d) \/ Leave(d)
    <3>1. \/ downstream' = downstream
          \/ \E m \in DownstreamMessage : downstream' = Append(downstream, m)
      <4>1. conn_id[d] \in ConnIds
        BY <1>0, <2>4 DEF SendCommand, Leave, TypeOK, IdsOK, Serving, ConnIds
      <4>2. \A t \in {"message", "disconnected"} :
                [type |-> t, id |-> conn_id[d], buckets |-> {}] \in DownstreamMessage
        BY <4>1 DEF DownstreamMessage
      <4> QED
        BY <2>4, <4>2 DEF SendCommand, Leave, TryDownstream
    <3>2. Elems(downstream) \subseteq Elems(downstream')
      <4>1. downstream \in Seq(DownstreamMessage)
        BY <1>0 DEF TypeOK
      <4>2. \A m \in DownstreamMessage : Elems(downstream) \subseteq Elems(Append(downstream, m))
        BY <4>1, AppendElems
      <4> QED
        BY <3>1, <4>2
    <3>3. unsynced \subseteq unsynced'
          /\ UNCHANGED <<seen, queue, notifications, forwarding, writing, kernel, lost>>
      BY <2>4 DEF SendCommand, Leave, TryDownstream
    <3>4. pc[c] = "added" => pc'[c] = "added"
      BY <1>0, <2>4 DEF SendCommand, Leave, Goto, TypeOK
    <3> QED
      BY <1>4, <3>2, <3>3, <3>4 DEF Way, Given, Way2
  <2>5. CASE Rejected(d) \/ LockHub(d) \/ Cleanup(d)
    <3>1. pc[c] = "added" => pc'[c] = "added"
      BY <1>0, <2>5 DEF Rejected, LockHub, Cleanup, Goto, TypeOK
    <3> QED
      BY <1>5, <2>5, <3>1 DEF Rejected, LockHub, Cleanup
  <2> QED
    BY <1>6, <2>1, <2>2, <2>3, <2>4, <2>5 DEF Task
<1>7. CASE TakeNotification
  <2>1. notifications \in Seq(Notification) /\ notifications # << >>
    BY <1>0, <1>7 DEF TypeOK, TakeNotification
  <2>2. Elems(notifications) = {Head(notifications)} \cup Elems(Tail(notifications))
    BY <2>1, TailElems
  <2>3. /\ forwarding = None /\ forwarding' = Head(notifications)
        /\ notifications' = Tail(notifications)
        /\ UNCHANGED <<seen, queue, pc, writing, downstream, kernel, lost, unsynced>>
    BY <1>7 DEF TakeNotification
  <2>4. \A to \in {None, conn_id[c]} : [to |-> to, update |-> u] # None
    <3>1. ClaimedRoom[c] \in Rooms
      BY <1>0 DEF Wanted, Registered, TypeOK, HubOK, HubIndexAgrees, IdsOK
    <3>2. stored[<<ClaimedRoom[c], b>>] \in Nat
      BY <1>0, <3>1 DEF Wanted, Written, TypeOK, Slots
    <3>3. u \in Update
      BY <3>1, <3>2 DEF u, Latest, Update
    <3> QED
      BY <1>0, <3>3, NoneAssumption DEF Notification, ConnIds, TypeOK
  <2> QED
    BY <1>4, <2>2, <2>3, <2>4 DEF Way, Given, Way2
<1>8. CASE Forward
  <2>1. CASE \E to \in {None, conn_id[c]} : forwarding = [to |-> to, update |-> u]
    <3>1. forwarding.update = u /\ forwarding.to \in {None, conn_id[c]}
      BY <2>1
    <3>2. conn_id[c] \in DOMAIN connections /\ conn_id[c] \in DOMAIN connections'
      BY DEF Wanted, Registered
    <3>3. b \in connections[conn_id[c]].buckets
      <4>1. conn_id[connections[conn_id[c]].task] = conn_id[c]
            /\ connections[conn_id[c]].task \in Conns
            /\ connections[conn_id[c]].buckets = Allowed(connections[conn_id[c]].task)
        BY <1>0, <3>2 DEF HubOK, HubIndexAgrees, TypeOK
      <4>2. connections[conn_id[c]].task = c
        BY <1>0, <4>1 DEF IdsOK
      <4> QED
        BY <4>1, <4>2 DEF Wanted
    <3>4. conn_id[c] \in index[b]
      BY <1>0, <3>2, <3>3 DEF HubOK, HubIndexAgrees
    <3>5. conn_id[c] \in Recipients(forwarding)
      BY <1>2, <3>1, <3>2, <3>4 DEF Recipients
    <3>6. u \in Elems(queue'[c])
      BY <1>8, <3>1, <3>2, <3>5, ForwardGives
    <3> QED
      BY <3>6 DEF Way2
  <2>2. CASE ~\E to \in {None, conn_id[c]} : forwarding = [to |-> to, update |-> u]
    <3>1. UNCHANGED <<seen, pc, notifications, writing, downstream, kernel, lost, unsynced>>
      BY <1>8 DEF Forward
    <3>2. Elems(queue[c]) \subseteq Elems(queue'[c])
      BY <1>8, ForwardGives
    <3> QED
      BY <1>4, <2>2, <3>1, <3>2 DEF Way, Given, Way2
  <2> QED
    BY <2>1, <2>2
<1>9. CASE TakeMessage
  <2>1. downstream \in Seq(DownstreamMessage) /\ downstream # << >>
    BY <1>0, <1>9 DEF TypeOK, TakeMessage
  <2>2. Elems(downstream) = {Head(downstream)} \cup Elems(Tail(downstream))
    BY <2>1, TailElems
  <2>3. downstream' = Tail(downstream) /\ kernel.pc = "idle"
        /\ UNCHANGED <<seen, queue, pc, writing, notifications, forwarding, lost, unsynced>>
    BY <1>9 DEF TakeMessage
  <2>4. kernel.id = 0 /\ kernel.updates = {}
    BY <1>0, <2>3 DEF ProcessorOK, Idle
  <2>5. CASE Head(downstream).type = "connected" /\ Head(downstream).id = conn_id[c]
    <3>1. kernel' = [kernel EXCEPT !.pc = "lookup", !.id = Head(downstream).id,
                                   !.buckets = Head(downstream).buckets]
      BY <1>9, <2>5 DEF TakeMessage
    <3>2. kernel'.pc = "lookup" /\ kernel'.id = conn_id[c]
      BY <1>0, <2>5, <3>1 DEF TypeOK
    <3> QED
      BY <3>2 DEF Way2
  <2>6. CASE ~(Head(downstream).type = "connected" /\ Head(downstream).id = conn_id[c])
    BY <1>4, <2>2, <2>3, <2>4, <2>6 DEF Way, Given, Way2
  <2> QED
    BY <2>5, <2>6
<1>10. CASE LookUpRoom
  <2>1. UNCHANGED <<seen, queue, pc, writing, notifications, forwarding, downstream, lost, unsynced>>
        /\ kernel.pc = "lookup"
    BY <1>10 DEF LookUpRoom
  <2>2. CASE kernel.id = conn_id[c]
    <3>1. kernel' = [kernel EXCEPT !.pc = "collect", !.room = connections[kernel.id].room]
      BY <1>10, <2>2 DEF LookUpRoom, Wanted, Registered
    <3>2. kernel'.pc = "collect" /\ kernel'.id = conn_id[c]
      BY <1>0, <2>2, <3>1 DEF TypeOK
    <3> QED
      BY <3>2 DEF Way2
  <2>3. CASE kernel.id # conn_id[c]
    BY <1>4, <2>1, <2>3 DEF Way, Given, Way2
  <2> QED
    BY <2>2, <2>3
<1>11. CASE Collect
  <2>1. UNCHANGED <<seen, queue, pc, writing, notifications, forwarding, downstream, lost, unsynced>>
        /\ kernel.pc = "collect"
    BY <1>11 DEF Collect
  <2>2. CASE kernel.id = conn_id[c]
    <3> DEFINE U == {[room |-> kernel.room, bucket |-> x, value |-> stored[<<kernel.room, x>>]] :
                     x \in {d \in kernel.buckets : stored[<<kernel.room, d>>] # None}}
    <3>1. kernel' = [kernel EXCEPT !.pc = "target", !.updates = U]
      BY <1>11, Zenon DEF Collect
    <3>2. PICK d \in Conns : SyncFor(d)
      BY <1>0, <2>1 DEF ProcessorOK
    <3>3. d = c
      BY <1>0, <2>2, <3>2 DEF SyncFor, IdsOK
    <3>4. kernel.room = ClaimedRoom[c] /\ b \in kernel.buckets
          /\ stored[<<kernel.room, b>>] # None
      BY <2>1, <3>2, <3>3 DEF SyncFor, Wanted, Written
    <3>5. u \in U
      BY <1>2, <3>4, Zenon
    <3> HIDE DEF U
    <3>6. kernel'.id = conn_id[c] /\ kernel'.updates = U
      BY <1>0, <2>2, <3>1 DEF TypeOK
    <3> QED
      BY <3>5, <3>6 DEF Way2
  <2>3. CASE kernel.id # conn_id[c]
    BY <1>4, <2>1, <2>3 DEF Way, Given, Way2
  <2> QED
    BY <2>2, <2>3
<1>12. CASE Target
  <2>1. UNCHANGED <<seen, queue, pc, writing, forwarding, downstream>>
        /\ kernel.pc = "target"
    BY <1>12 DEF Target
  <2>2. CASE kernel.updates = {}
    <3>1. UNCHANGED <<notifications, lost, unsynced>>
      BY <1>12, <2>2 DEF Target
    <3> QED
      BY <1>4, <2>1, <2>2, <3>1 DEF Way, Given, Way2
  <2>3. CASE kernel.updates # {}
    <3>1. PICK x \in kernel.updates :
              /\ TryNotify([to |-> kernel.id, update |-> x])
              /\ kernel' = IF Len(notifications) < NotifyCap
                           THEN [kernel EXCEPT !.updates = @ \ {x}]
                           ELSE Idle
      BY <1>12, <2>3 DEF Target
    <3> DEFINE n == [to |-> kernel.id, update |-> x]
    <3>2. n \in Notification
      BY <1>0, <2>1, TargetsType
    <3>3. n.to = kernel.id /\ (x = u /\ kernel.id = conn_id[c] => n = [to |-> conn_id[c], update |-> u])
      OBVIOUS
    <3> HIDE DEF n
    <3>4. CASE Len(notifications) < NotifyCap
      <4>1. Elems(notifications') = Elems(notifications) \cup {n}
            /\ UNCHANGED <<lost, unsynced>>
        BY <1>0, <3>1, <3>2, <3>4, TryNotifyElems DEF n
      <4>2. kernel' = [kernel EXCEPT !.updates = @ \ {x}]
        BY <3>1, <3>4
      <4>3. kernel'.id = kernel.id /\ kernel'.updates = kernel.updates \ {x}
        BY <1>0, <4>2 DEF TypeOK
      <4> QED
        BY <1>4, <2>1, <3>3, <4>1, <4>3 DEF Way, Given, Way2
    <3>5. CASE ~(Len(notifications) < NotifyCap)
      <4>1. /\ notifications' = notifications /\ lost' = lost
            /\ unsynced' = unsynced \cup {kernel.id}
        <5>1. n.to # None
          BY <1>0, <2>1, <3>3, NoneAssumption DEF ProcessorOK, TypeOK
        <5> QED
          BY <1>0, <3>1, <3>2, <3>3, <3>5, <5>1, TryNotifyElems DEF n
      <4> QED
        BY <1>4, <2>1, <3>3, <4>1 DEF Way, Given, Way2
    <3> QED
      BY <3>4, <3>5
  <2> QED
    BY <2>2, <2>3
<1>13. ASSUME NEW w \in Writers, Broadcast(w) PROVE Way2
  <2> DEFINE n == [to |-> None, update |-> writing[w]]
  <2>1. n \in Notification /\ TryNotify(n)
    BY <1>0, <1>13, BroadcastsType DEF Broadcast
  <2>2. writing[w] = u => n = [to |-> None, update |-> u]
    OBVIOUS
  <2> HIDE DEF n
  <2>3. /\ \/ Elems(notifications') = Elems(notifications) \cup {n} /\ lost' = lost
           \/ notifications' = notifications /\ lost' = lost \cup {writing[w]}
        /\ unsynced' = unsynced
    BY <1>0, <2>1, TryNotifyElems DEF n
  <2>4. \A v \in Writers : v # w => writing'[v] = writing[v]
    BY <1>0, <1>13 DEF Broadcast, TypeOK
  <2>5. UNCHANGED <<seen, queue, pc, forwarding, downstream, kernel>>
    BY <1>13 DEF Broadcast
  <2> QED
    BY <1>4, <2>2, <2>3, <2>4, <2>5 DEF Way, Given, Way2
<1>14. ASSUME NEW d \in Conns, Handshake(d) \/ ReadCommand(d) \/ PeerGone(d) PROVE Way2
  <2>1. pc[c] = "added" => pc'[c] = "added"
    BY <1>0, <1>14 DEF Handshake, ReadCommand, PeerGone, Goto, TypeOK
  <2> QED
    BY <1>5, <1>14, <2>1 DEF Handshake, ReadCommand, PeerGone
<1>15. CASE UNCHANGED vars
  BY <1>5, <1>15 DEF vars
<1> QED
  BY <1>6, <1>7, <1>8, <1>9, <1>10, <1>11, <1>12, <1>13, <1>14, <1>15
  DEF Next, Forwarder, Processor, Environment

LEMMA LatestByWayNext ==
    ASSUME TypeOK'
    PROVE  LatestIsOnItsWay' <=>
              \A c \in Conns, b \in BucketIds : Wanted(c, b)' => Way(c, Latest(c, b))'
<1>1. \A c \in Conns : Given(c)' = Elems(seen'[c]) \cup Elems(queue'[c])
  BY DEF Given, Elems
<1>2. ASSUME NEW c \in Conns, NEW u
      PROVE  InBuffer((seen'[c] \o queue'[c]), u) <=> u \in Given(c)'
  <2>1. seen'[c] \in Seq(Update) /\ queue'[c] \in Seq(Update)
    BY DEF TypeOK
  <2>2. Elems(seen'[c] \o queue'[c]) = Elems(seen'[c]) \cup Elems(queue'[c])
    BY <2>1, ConcatElems
  <2>3. InBuffer((seen'[c] \o queue'[c]), u) <=> u \in Elems(seen'[c] \o queue'[c])
    BY DEF InBuffer, Elems
  <2> QED
    BY <1>1, <2>2, <2>3
<1>3. \A n : InBuffer(notifications', n) <=> n \in Elems(notifications')
  BY DEF InBuffer, Elems
<1>4. \A id : (\E i \in DOMAIN downstream' :
                  downstream'[i].type = "connected" /\ downstream'[i].id = id)
                <=> \E m \in Elems(downstream') : m.type = "connected" /\ m.id = id
  BY DEF Elems
<1>5. ASSUME NEW c \in Conns, NEW b \in BucketIds
      PROVE  Way(c, Latest(c, b))' <=>
               \/ InBuffer(Stream(c), Latest(c, b))'
               \/ \E to \in {None, conn_id'[c]} :
                     LET n == [to |-> to, update |-> Latest(c, b)']
                     IN  InBuffer(notifications', n) \/ forwarding' = n
               \/ \E w \in Writers : writing'[w] = Latest(c, b)'
               \/ pc'[c] = "added"
               \/ \E i \in DOMAIN downstream' :
                     downstream'[i].type = "connected" /\ downstream'[i].id = conn_id'[c]
               \/ kernel'.id = conn_id'[c] /\ (kernel'.pc \in {"lookup", "collect"}
                                              \/ Latest(c, b)' \in kernel'.updates)
               \/ Latest(c, b)' \in lost'
               \/ conn_id'[c] \in unsynced'
  BY <1>2, <1>3, <1>4, Zenon DEF Way, Stream, Elems
<1> QED
  BY <1>5, Zenon DEF LatestIsOnItsWay, Wanted, Latest

LEMMA NextKeepsLatest ==
    ASSUME IInv, LatestIsOnItsWay, [Next]_vars
    PROVE  LatestIsOnItsWay'
<1> USE DEF storeVars, hubVars, taskVars, dropped
<1>0. TypeOK /\ TypeOK' /\ pc \in [Conns -> Labels]
      /\ stored \in [Slots -> Nat \cup {None}]
  BY NextKeepsType DEF IInv, TypeOK
<1> SUFFICES ASSUME NEW c \in Conns, NEW b \in BucketIds, Wanted(c, b)'
             PROVE  Way(c, Latest(c, b))'
  BY <1>0, LatestByWayNext
<1> DEFINE slot == <<ClaimedRoom[c], b>>
<1>1. Registered(c)' /\ b \in Allowed(c) /\ stored'[slot] \notin {0, None}
  BY DEF Wanted, Written
<1>2. CASE Register(c) /\ HasRoomFor(c)
  <2>1. pc'[c] = "added"
    BY <1>0, <1>2, RegisterAdds
  <2> QED
    BY <2>1 DEF Way
<1>3. CASE Registered(c) /\ conn_id'[c] = conn_id[c] /\ conn_id[c] # 0
  <2>1. ClaimedRoom[c] \in Rooms /\ slot \in Slots
    BY <1>3 DEF IInv, TypeOK, HubOK, HubIndexAgrees, IdsOK, Registered, ConnIds, Slots
  <2>2. CASE Store
    <3>1. UNCHANGED <<seen, queue, pc, notifications, forwarding, downstream, kernel,
                      lost, unsynced, connections, conn_id>>
      BY <2>2, StoreKeeps
    <3>2. ASSUME stored'[slot] = stored[slot],
                 \A w \in Writers : writing[w] # None => writing'[w] = writing[w]
          PROVE  Way(c, Latest(c, b))'
      <4>1. Latest(c, b)' = Latest(c, b) /\ Wanted(c, b)
        BY <1>1, <1>3, <3>1, <3>2 DEF Latest, Wanted, Written
      <4>2. Way(c, Latest(c, b))
        BY <1>0, <4>1, LatestByWay
      <4>3. Latest(c, b) # None
        <5>1. Latest(c, b) \in Update
          BY <1>0, <2>1, <4>1 DEF Latest, Update, Wanted, Written
        <5> QED
          BY <5>1, NoneAssumption
      <4>4. \A w \in Writers : writing[w] = Latest(c, b) => writing'[w] = Latest(c, b)
        BY <3>2, <4>3
      <4> QED
        BY <3>1, <4>1, <4>2, <4>4 DEF Way, Given, Elems
    <3>3. ASSUME NEW w \in Writers, NEW r \in Rooms, NEW d \in BucketIds, StartWrite(w, r, d)
          PROVE  Way(c, Latest(c, b))'
      BY <3>2, <3>3 DEF StartWrite
    <3>4. ASSUME NEW w \in Writers, ApplyWrite(w) PROVE Way(c, Latest(c, b))'
      <4>1. checked[w] \in Slots /\ writing[w] = None
            /\ writing \in [Writers -> Update \cup {None}]
        BY <3>4 DEF ApplyWrite, IInv, TypeOK, WritersOK
      <4>2. /\ stored' = stored \/ \E v \in {writes + 1, None} :
                                      stored' = [stored EXCEPT ![checked[w]] = v]
            /\ writing' = [writing EXCEPT ![w] =
                  [room |-> checked[w][1], bucket |-> checked[w][2], value |-> writes + 1]]
        BY <3>4 DEF ApplyWrite
      <4>3. \A v \in Writers : writing[v] # None => writing'[v] = writing[v]
        BY <4>1, <4>2
      <4>4. CASE stored'[slot] = stored[slot]
        BY <3>2, <4>3, <4>4
      <4>5. CASE stored'[slot] # stored[slot]
        <5>1. checked[w] = slot /\ stored'[slot] = writes + 1
          BY <1>0, <1>1, <2>1, <4>1, <4>2, <4>5
        <5>2. checked[w][1] = ClaimedRoom[c] /\ checked[w][2] = b
          BY <5>1
        <5>3. Latest(c, b)' = writing'[w]
          BY <4>1, <4>2, <5>1, <5>2 DEF Latest
        <5> QED
          BY <5>3 DEF Way
      <4> QED
        BY <4>4, <4>5
    <3>5. ASSUME NEW r \in Rooms, LoadRoom(r) \/ UnloadRoom(r) PROVE Way(c, Latest(c, b))'
      <4>1. stored'[slot] \in {stored[slot], 0, None} /\ writing' = writing
        BY <2>1, <3>5 DEF LoadRoom, UnloadRoom
      <4> QED
        BY <1>1, <3>2, <4>1
    <3>6. ASSUME NEW r \in Rooms, NEW d \in BucketIds, DeleteBucket(r, d)
          PROVE  Way(c, Latest(c, b))'
      <4>1. stored'[slot] \in {stored[slot], None} /\ writing' = writing
        BY <1>0, <2>1, <3>6 DEF DeleteBucket
      <4> QED
        BY <1>1, <3>2, <4>1
    <3> QED
      BY <2>2, <3>3, <3>4, <3>5, <3>6 DEF Store
  <2>3. CASE ~Store
    <3>1. stored' = stored
      BY <2>3, OnlyStoreStores
    <3>2. Wanted(c, b) /\ Registered(c)'
      BY <1>1, <1>3, <3>1 DEF Wanted, Written
    <3>3. Way(c, Latest(c, b))
      BY <1>0, <3>2, LatestByWay
    <3> QED
      BY <1>3, <2>3, <3>2, <3>3, WayKept
  <2> QED
    BY <2>2, <2>3
<1> QED
  BY <1>1, <1>2, <1>3, RegisteredBefore

(* The value of every bucket of a registered client, if it was written      *)
(* since the room was last loaded, has reached the client or is on its way, *)
(* whatever the order of registration, initial sync and broadcasts, and     *)
(* whatever rooms are loaded, unloaded or deleted, unless a full channel    *)
(* dropped it (connection.rs registers before it announces, kernel.rs       *)
(* stores before it broadcasts).  Nothing is claimed of values that         *)
(* LoadRoom restores: kernel.rs tells nobody of them.                       *)
THEOREM NoGap == Spec => []LatestIsOnItsWay
<1>1. Init => LatestIsOnItsWay
  BY DEF Init, LatestIsOnItsWay, Registered
<1>2. IInv /\ LatestIsOnItsWay /\ [Next]_vars => LatestIsOnItsWay'
  BY NextKeepsLatest
<1> QED
  BY <1>1, <1>2, IInvAlways, PTL DEF Spec

-----------------------------------------------------------------------------
(* The hub lock.  Two places await while they hold it: the rejection of a   *)
(* client (its AuthError is written to a socket) and a command of a client  *)
(* (it waits for room in the downstream channel).                           *)
LockOK == \A c \in Conns : hub_lock = c <=> pc[c] \in {"rejecting", "sending"}

\* What an action may do with the lock, given LockOK: take it when it is free,
\* release it, or leave it, and only for the task that moves.
LEMMA LockMoves ==
    ASSUME TypeOK, LockOK, NEW c \in Conns, NEW l, Goto(c, l),
           \/ UNCHANGED hub_lock
                /\ (l \in {"rejecting", "sending"} <=> pc[c] \in {"rejecting", "sending"})
           \/ hub_lock = Free /\ hub_lock' = c /\ l \in {"rejecting", "sending"}
           \/ hub_lock = c /\ hub_lock' = Free /\ l \notin {"rejecting", "sending"}
    PROVE  LockOK'
<1>1. \A d \in Conns : pc'[d] = IF d = c THEN l ELSE pc[d]
  BY DEF Goto, TypeOK
<1>2. Free \notin Conns
  BY DownstreamAssumption
<1> QED
  BY <1>1, <1>2 DEF LockOK

LEMMA NextKeepsLock == TypeOK /\ LockOK /\ [Next]_vars => LockOK'
<1> SUFFICES ASSUME TypeOK, LockOK, [Next]_vars PROVE LockOK'
  OBVIOUS
<1>1. ASSUME UNCHANGED <<hub_lock, pc>> PROVE LockOK'
  BY <1>1 DEF LockOK
<1>2. ASSUME NEW c \in Conns, Task(c) PROVE LockOK'
  <2>1. CASE Register(c)
    <3>1. CASE HasRoomFor(c)
      BY <2>1, <3>1, LockMoves, Zenon DEF Register
    <3>2. CASE ~HasRoomFor(c)
      BY <2>1, <3>2, LockMoves, Zenon DEF Register
    <3> QED
      BY <3>1, <3>2
  <2>2. CASE Rejected(c)
    BY <2>2, LockMoves DEF Rejected, LockOK
  <2>3. CASE Announce(c)
    BY <2>3, LockMoves DEF Announce
  <2>4. CASE LockHub(c)
    BY <2>4, LockMoves DEF LockHub
  <2>5. CASE SendCommand(c)
    BY <2>5, LockMoves DEF SendCommand, LockOK
  <2>6. CASE WriteSocket(c)
    BY <1>1, <2>6 DEF WriteSocket
  <2>7. CASE Cleanup(c)
    BY <2>7, LockMoves DEF Cleanup
  <2>8. CASE Leave(c)
    BY <2>8, LockMoves DEF Leave
  <2> QED
    BY <1>2, <2>1, <2>2, <2>3, <2>4, <2>5, <2>6, <2>7, <2>8 DEF Task
<1>3. CASE Forwarder \/ Processor
  BY <1>1, <1>3 DEF Forwarder, Processor, TakeNotification, Forward, TakeMessage,
     LookUpRoom, Collect, Target, taskVars
<1>4. CASE \E w \in Writers : Broadcast(w)
  BY <1>1, <1>4 DEF Broadcast, taskVars
<1>5. CASE Environment
  <2>1. ASSUME NEW c \in Conns, Handshake(c) \/ ReadCommand(c) \/ PeerGone(c) PROVE LockOK'
    BY <2>1, LockMoves DEF Handshake, ReadCommand, PeerGone
  <2> QED
    BY <1>5, <2>1 DEF Environment
<1>6. CASE Store
  BY <1>1, <1>6, StoreKeeps
<1>7. CASE UNCHANGED vars
  BY <1>1, <1>7 DEF vars
<1> QED
  BY <1>2, <1>3, <1>4, <1>5, <1>6, <1>7 DEF Next

(* Across an await the hub is locked by at most one task, which is writing  *)
(* a rejection or waiting to pass on a client's command; every other task   *)
(* holds the lock only within a step.                                       *)
THEOREM LockHeldAcrossAwait == Spec => []LockOK
<1>1. Init => LockOK
  BY DownstreamAssumption DEF Init, LockOK
<1>2. IInv => TypeOK
  BY DEF IInv
<1> QED
  BY <1>1, <1>2, NextKeepsLock, IInvAlways, PTL DEF Spec

(***************************************************************************)
(* The deadlock behind ProcessorKeepsConsuming: a task waits, under the    *)
(* hub lock, for room in the downstream channel (process_client_message),  *)
(* and the only consumer of that channel waits for the lock to look up a   *)
(* client's room (handle_client_connected).                                *)
(***************************************************************************)
Deadlocked ==
    /\ kernel.pc = "lookup"
    /\ \E c \in Conns : hub_lock = c /\ pc[c] = "sending"
    /\ Len(downstream) >= DownCap

LEMMA DeadlockStays ==
    TypeOK /\ LockOK /\ [Next]_vars /\ Deadlocked =>
        /\ Deadlocked'
        /\ UNCHANGED <<kernel, hub_lock, connections, index, next_conn_id>>
        /\ \A c \in Conns : Len(queue'[c]) <= Len(queue[c])
<1> DEFINE Still == UNCHANGED <<kernel, hub_lock, connections, index, next_conn_id>>
           Drains == \A c \in Conns : Len(queue'[c]) <= Len(queue[c])
<1> SUFFICES ASSUME TypeOK, LockOK, [Next]_vars, Deadlocked
             PROVE  Deadlocked' /\ Still /\ Drains
  OBVIOUS
<1>1. PICK h \in Conns : hub_lock = h /\ pc[h] = "sending"
  BY DEF Deadlocked
<1>2. /\ hub_lock # Free /\ kernel.pc = "lookup" /\ Len(downstream) >= DownCap
      /\ \A c \in Conns : c # h => pc[c] \notin {"rejecting", "sending"}
      /\ DownCap \in Nat /\ Len(downstream) \in Nat
      /\ \A c \in Conns : Len(queue[c]) \in Nat
  BY <1>1, DownstreamAssumption, SMTT(30) DEF Deadlocked, LockOK, TypeOK
<1>3. ASSUME UNCHANGED <<kernel, hub_lock, connections, index, next_conn_id, downstream, queue>>,
             UNCHANGED pc \/ \E c \in Conns : \E l : pc[c] # "sending" /\ Goto(c, l)
      PROVE  Deadlocked' /\ Still /\ Drains
  <2>1. pc'[h] = "sending"
    BY <1>1, <1>3 DEF Goto, TypeOK
  <2> QED
    BY <1>1, <1>2, <1>3, <2>1 DEF Deadlocked
<1>4. ASSUME NEW m, TryDownstream(m) PROVE UNCHANGED downstream
  BY <1>2, <1>4 DEF TryDownstream
<1>5. ASSUME NEW c \in Conns, Task(c) PROVE Deadlocked' /\ Still /\ Drains
  <2>1. CASE Register(c) \/ LockHub(c) \/ Cleanup(c)
    BY <1>2, <2>1 DEF Register, LockHub, Cleanup
  <2>2. CASE Rejected(c)
    BY <1>1, <1>2, <2>2 DEF Rejected
  <2>3. CASE SendCommand(c)
    BY <1>2, <2>3 DEF SendCommand
  <2>4. CASE Announce(c)
    BY <1>3, <1>4, <2>4 DEF Announce, hubVars
  <2>5. CASE Leave(c)
    BY <1>3, <1>4, <2>5 DEF Leave, hubVars
  <2>6. CASE WriteSocket(c)
    <3>1. UNCHANGED <<kernel, hub_lock, connections, index, next_conn_id, downstream, pc>>
      BY <2>6 DEF WriteSocket, hubVars
    <3>2. queue[c] # << >> /\ queue' = [queue EXCEPT ![c] = Tail(@)]
      BY <2>6 DEF WriteSocket
    <3>3. Len(Tail(queue[c])) <= Len(queue[c])
      BY <3>2 DEF TypeOK
    <3>4. Drains
      BY <1>2, <3>2, <3>3 DEF TypeOK
    <3> QED
      BY <1>1, <1>2, <3>1, <3>4 DEF Deadlocked
  <2> QED
    BY <1>5, <2>1, <2>2, <2>3, <2>4, <2>5, <2>6 DEF Task
<1>6. CASE Forwarder
  BY <1>2, <1>3, <1>6 DEF Forwarder, TakeNotification, Forward, hubVars, taskVars
<1>7. CASE Processor
  BY <1>2, <1>7 DEF Processor, TakeMessage, LookUpRoom, Collect, Target
<1>8. CASE \E w \in Writers : Broadcast(w)
  BY <1>3, <1>8 DEF Broadcast, hubVars, taskVars
<1>9. CASE Environment
  <2>1. ASSUME NEW c \in Conns, Handshake(c) \/ ReadCommand(c) \/ PeerGone(c)
        PROVE  /\ UNCHANGED <<kernel, hub_lock, connections, index, next_conn_id,
                              downstream, queue>>
               /\ \E l : pc[c] # "sending" /\ Goto(c, l)
    <3>1. /\ UNCHANGED <<kernel, hub_lock, connections, index, next_conn_id,
                         downstream, queue>>
          /\ pc[c] # "sending"
      BY <2>1 DEF Handshake, ReadCommand, PeerGone, hubVars
    <3>2. Goto(c, "authed") \/ Goto(c, "done") \/ Goto(c, "locking") \/ Goto(c, "closing")
      BY <2>1 DEF Handshake, ReadCommand, PeerGone
    <3> QED
      BY <3>1, <3>2
  <2> QED
    BY <1>3, <1>9, <2>1 DEF Environment
<1>10. CASE Store
  BY <1>3, <1>10, StoreKeeps
<1>11. CASE UNCHANGED vars
  BY <1>3, <1>11 DEF vars
<1> QED
  BY <1>5, <1>6, <1>7, <1>8, <1>9, <1>10, <1>11 DEF Next

(* Once reached, the deadlock is for ever and stops the whole websocket     *)
(* side: no client is registered, removed or synchronised any more, and     *)
(* nothing is added to any client's queue, whatever the tasks, the writers  *)
(* and the peers do.                                                        *)
THEOREM DeadlockIsForever ==
    Spec => /\ [](Deadlocked => []Deadlocked)
            /\ [][Deadlocked =>
                    /\ UNCHANGED <<kernel, hub_lock, connections, index, next_conn_id>>
                    /\ \A c \in Conns : Len(queue'[c]) <= Len(queue[c])]_vars
<1>1. IInv => TypeOK
  BY DEF IInv
<1>2. TypeOK /\ LockOK /\ [Next]_vars =>
        [Deadlocked =>
            /\ UNCHANGED <<kernel, hub_lock, connections, index, next_conn_id>>
            /\ \A c \in Conns : Len(queue'[c]) <= Len(queue[c])]_vars
  BY DeadlockStays
<1>3. TypeOK /\ LockOK /\ [Next]_vars /\ Deadlocked => Deadlocked'
  BY DeadlockStays
<1> QED
  BY <1>1, <1>2, <1>3, IInvAlways, LockHeldAcrossAwait, PTL DEF Spec
=============================================================================
