------------------------------ MODULE FeedProofs ------------------------------
(***************************************************************************)
(* Downstream implements Feed, for any number of connections, rooms and    *)
(* writers and every capacity: each step of the tasks is one step of the   *)
(* multicast, or invisible to it.  The second half proves, on the          *)
(* multicast's state, in which order, how often and from which rooms a     *)
(* client is given updates.                                                *)
(***************************************************************************)
EXTENDS DownstreamProofs

-----------------------------------------------------------------------------
(* The abstract state, as FeedSpec reads it off the tasks.                  *)
Unsent == ({writing[w] : w \in Writers} \ {None}) \cup Pending(None)

Member == [c \in Conns |-> IF conn_id[c] = 0 THEN "new"
                           ELSE IF Registered(c) THEN "in" ELSE "out"]

Due == {c \in Conns : SyncDue(c)}

Handing == [c \in Conns |->
              IF conn_id[c] = 0 THEN {}
              ELSE Pending(conn_id[c])
                   \cup (IF SyncPhase(c, {"target"}) THEN kernel.updates ELSE {})]

Streams == [c \in Conns |-> Stream(c)]

store == <<writes, stored>>

(* One lemma per kind of step of Feed: what the tasks have to do to make it. *)
LEMMA Stutters ==
    ASSUME UNCHANGED <<store, Unsent, Member, Due, Handing, Streams>>
    PROVE  [Multicast!Next]_(Multicast!vars)
  BY DEF store, Multicast!vars, Unsent, Member, Due, Handing, Streams

LEMMA Writes ==
    ASSUME NEW r \in Rooms, NEW b \in BucketIds,
           writes' = writes + 1,
           \/ \E v \in {writes + 1, None} : stored' = [stored EXCEPT ![<<r, b>>] = v]
           \/ UNCHANGED stored,
           Unsent' = Unsent \cup {[room |-> r, bucket |-> b, value |-> writes + 1]},
           UNCHANGED <<Member, Due, Handing, Streams>>
    PROVE  [Multicast!Next]_(Multicast!vars)
<1>1. Multicast!Write(r, b)
  BY DEF Multicast!Write, Multicast!UpdateOf, Unsent, Member, Due, Handing, Streams
<1> QED
  BY <1>1 DEF Multicast!Next

LEMMA Replaces ==
    ASSUME writes' = writes, stored' \in [Slots -> Nat \cup {None}],
           \A s \in Slots : stored'[s] \in {stored[s], 0, None},
           UNCHANGED <<Unsent, Member, Due, Handing, Streams>>
    PROVE  [Multicast!Next]_(Multicast!vars)
<1>1. Multicast!Replace
  BY DEF Multicast!Replace, Slots, Unsent, Member, Due, Handing, Streams
<1> QED
  BY <1>1 DEF Multicast!Next

LEMMA Loses ==
    ASSUME NEW u \in Unsent, Unsent' = Unsent \ {u},
           UNCHANGED <<store, Member, Due, Handing, Streams>>
    PROVE  [Multicast!Next]_(Multicast!vars)
<1>1. Multicast!Lose(u)
  BY DEF Multicast!Lose, Multicast!store, store, Unsent, Member, Due, Handing, Streams
<1> QED
  BY <1>1 DEF Multicast!Next, Unsent

LEMMA Publishes ==
    ASSUME NEW u \in Unsent, NEW D \in SUBSET Conns,
           \A c \in D : Member[c] = "in" /\ u.bucket \in Allowed(c),
           Unsent' = Unsent \ {u},
           Member' = [c \in Conns |-> IF c \in D THEN "out" ELSE Member[c]],
           Streams' = [c \in Conns |->
              IF c \notin D /\ Member[c] = "in" /\ u.bucket \in Allowed(c)
              THEN Append(Streams[c], u) ELSE Streams[c]],
           UNCHANGED <<store, Due, Handing>>
    PROVE  [Multicast!Next]_(Multicast!vars)
<1> DEFINE S == {c \in Conns : Member[c] = "in" /\ u.bucket \in [d \in Conns |-> Allowed(d)][c]}
<1>1. Multicast!Publish(u) <=>
          /\ Unsent' = Unsent \ {u}
          /\ \E X \in SUBSET S :
                /\ Member' = [c \in Conns |-> IF c \in X THEN "out" ELSE Member[c]]
                /\ Streams' = [c \in Conns |->
                      IF c \in S \ X THEN Append(Streams[c], u) ELSE Streams[c]]
          /\ UNCHANGED <<<<writes, stored>>, Due, Handing>>
  BY DEF Multicast!Publish, Multicast!store, Multicast!Subscribers, Unsent, Member, Due,
         Handing, Streams
<1>2. S = {c \in Conns : Member[c] = "in" /\ u.bucket \in Allowed(c)}
  OBVIOUS
<1> HIDE DEF S
<1>3. D \in SUBSET S
  BY <1>2
<1>4. Streams' = [c \in Conns |-> IF c \in S \ D THEN Append(Streams[c], u) ELSE Streams[c]]
  BY <1>2
<1>5. Multicast!Publish(u)
  BY <1>1, <1>3, <1>4 DEF store
<1> QED
  BY <1>5 DEF Multicast!Next, Unsent

LEMMA Joins ==
    ASSUME NEW c \in Conns, Member[c] = "new", Member' = [Member EXCEPT ![c] = "in"],
           Due' = Due \cup {c}, UNCHANGED <<store, Unsent, Handing, Streams>>
    PROVE  [Multicast!Next]_(Multicast!vars)
<1>1. Multicast!Join(c)
  BY DEF Multicast!Join, Multicast!store, store, Unsent, Member, Due, Handing, Streams
<1> QED
  BY <1>1 DEF Multicast!Next

LEMMA Leaves ==
    ASSUME NEW c \in Conns, Member[c] = "in", Member' = [Member EXCEPT ![c] = "out"],
           UNCHANGED <<store, Unsent, Due, Handing, Streams>>
    PROVE  [Multicast!Next]_(Multicast!vars)
<1>1. Multicast!Leave(c)
  BY DEF Multicast!Leave, Multicast!store, store, Unsent, Member, Due, Handing, Streams
<1> QED
  BY <1>1 DEF Multicast!Next

Stored(c) ==
    {[room |-> ClaimedRoom[c], bucket |-> b, value |-> stored[<<ClaimedRoom[c], b>>]] :
        b \in {d \in Allowed(c) : stored[<<ClaimedRoom[c], d>>] # None}}

LEMMA Synchronises ==
    ASSUME NEW c \in Conns, c \in Due, Due' = Due \ {c},
           Handing' = Handing \/ Handing' = [Handing EXCEPT ![c] = Stored(c)],
           UNCHANGED <<store, Unsent, Member, Streams>>
    PROVE  [Multicast!Next]_(Multicast!vars)
<1> DEFINE S == {[room |-> ClaimedRoom[c], bucket |-> b, value |-> stored[<<ClaimedRoom[c], b>>]] :
                   b \in {d \in [e \in Conns |-> Allowed(e)][c] : stored[<<ClaimedRoom[c], d>>] # None}}
<1>1. Multicast!Synchronise(c) <=>
          /\ c \in Due
          /\ Due' = Due \ {c}
          /\ Handing' \in {Handing, [Handing EXCEPT ![c] = S]}
          /\ UNCHANGED <<<<writes, stored>>, Unsent, Member, Streams>>
  BY DEF Multicast!Synchronise, Multicast!store, Multicast!StoredFor, Multicast!UpdateOf,
         Unsent, Member, Due, Handing, Streams
<1>2. S = Stored(c)
  <2>1. [e \in Conns |-> Allowed(e)][c] = Allowed(c)
    OBVIOUS
  <2> QED
    BY <2>1 DEF Stored
<1> HIDE DEF S
<1>3. Multicast!Synchronise(c)
  BY <1>1, <1>2 DEF store
<1> QED
  BY <1>3 DEF Multicast!Next

LEMMA Hands ==
    ASSUME NEW c \in Conns, NEW u \in Handing[c], Member[c] = "in",
           Handing' = [Handing EXCEPT ![c] = @ \ {u}],
           \/ Streams' = [Streams EXCEPT ![c] = Append(@, u)] /\ UNCHANGED Member
           \/ Member' = [Member EXCEPT ![c] = "out"] /\ UNCHANGED Streams,
           UNCHANGED <<store, Unsent, Due>>
    PROVE  [Multicast!Next]_(Multicast!vars)
<1>1. Multicast!Hand(c, u) <=>
          /\ Member[c] = "in"
          /\ Handing' = [Handing EXCEPT ![c] = @ \ {u}]
          /\ \/ Streams' = [Streams EXCEPT ![c] = Append(@, u)] /\ UNCHANGED Member
             \/ Member' = [Member EXCEPT ![c] = "out"] /\ UNCHANGED Streams
          /\ UNCHANGED <<<<writes, stored>>, Unsent, Due>>
  BY DEF Multicast!Hand, Multicast!store, Unsent, Member, Due, Handing, Streams
<1>2. Multicast!Hand(c, u)
  BY <1>1 DEF store
<1> QED
  BY <1>2 DEF Multicast!Next, Handing

LEMMA GivesUp ==
    ASSUME NEW c \in Conns, NEW S \in SUBSET Handing[c],
           Handing' = [Handing EXCEPT ![c] = @ \ S],
           UNCHANGED <<store, Unsent, Member, Due, Streams>>
    PROVE  [Multicast!Next]_(Multicast!vars)
<1>1. Multicast!GiveUp(c, S)
  BY DEF Multicast!GiveUp, Multicast!store, store, Unsent, Member, Due, Handing, Streams
<1> QED
  BY <1>1 DEF Multicast!Next, Handing

-----------------------------------------------------------------------------
(* The invariant of the refinement: a client's synchronisation is in one    *)
(* place at a time, and nothing in flight is there twice.                   *)
Flying == (Elems(notifications) \cup {forwarding}) \ {None}

Added(c)   == pc[c] = "added"
Sent(c)    == \E m \in Elems(downstream) : m.type = "connected" /\ m.id = conn_id[c]
Reading(c) == kernel.id = conn_id[c] /\ kernel.pc \in {"lookup", "collect"}
Handed(c)  == \/ kernel.id = conn_id[c] /\ kernel.pc = "target"
              \/ \E n \in Flying : n.to = conn_id[c]

ConnectsOnce(s) ==
    \A i, j \in DOMAIN s :
       s[i].type = "connected" /\ s[j].type = "connected" /\ s[i].id = s[j].id => i = j

OneSync ==
    /\ \A c \in Conns : conn_id[c] # 0 =>
          /\ Added(c) => ~Sent(c) /\ ~Reading(c) /\ ~Handed(c)
          /\ Sent(c) => ~Reading(c) /\ ~Handed(c)
          /\ Reading(c) => ~Handed(c)
    /\ ConnectsOnce(downstream)

NoRepeats(s) == \A i, j \in DOMAIN s : s[i] = s[j] => i = j

ToAll(u) == [to |-> None, update |-> u]
ToOne(u) == [to |-> kernel.id, update |-> u]

\* Values yet to be published are past ones, so that a new one is new.
EachOnce ==
    /\ NoRepeats(notifications)
    /\ forwarding \notin Elems(notifications)
    /\ \A w \in Writers : writing[w] # None => ToAll(writing[w]) \notin Flying
    /\ \A w, v \in Writers : writing[w] # None /\ writing[w] = writing[v] => w = v
    /\ \A u \in kernel.updates : ToOne(u) \notin Flying
    /\ \A u \in Unsent : u.value <= writes

FeedInv == IInv /\ OneSync /\ EachOnce

-----------------------------------------------------------------------------
(* The abstract state, member by member.                                    *)
PendingIs == \A to, u : u \in Pending(to) <=> [to |-> to, update |-> u] \in Flying

UnsentIs ==
    \A u : u \in Unsent <=> \/ \E w \in Writers : writing[w] = u /\ u # None
                            \/ ToAll(u) \in Flying

HandingIs ==
    \A c \in Conns :
       /\ conn_id[c] = 0 => Handing[c] = {}
       /\ conn_id[c] # 0 => \A u : u \in Handing[c] <=>
             \/ [to |-> conn_id[c], update |-> u] \in Flying
             \/ kernel.id = conn_id[c] /\ kernel.pc = "target" /\ u \in kernel.updates

DueIs ==
    \A c \in Conns : c \in Due <=>
       Added(c) \/ Sent(c) \/ (conn_id[c] # 0 /\ Reading(c))

LEMMA AbstractState == TypeOK => PendingIs /\ UnsentIs /\ HandingIs /\ DueIs
<1> SUFFICES ASSUME TypeOK PROVE PendingIs /\ UnsentIs /\ HandingIs /\ DueIs
  OBVIOUS
<1>1. ASSUME NEW to, NEW u PROVE u \in Pending(to) <=> [to |-> to, update |-> u] \in Flying
  <2>1. notifications \in Seq(Notification) /\ forwarding \in Notification \cup {None}
    BY DEF TypeOK
  <2>2. Elems(notifications) \subseteq Notification
    BY <2>1, ElemsType
  <2>3. \A n \in Notification : n = [to |-> n.to, update |-> n.update]
    BY DEF Notification
  <2>4. ASSUME u \in Pending(to) PROVE [to |-> to, update |-> u] \in Flying
    <3>1. \/ \E i \in DOMAIN notifications : notifications[i].to = to /\ u = notifications[i].update
          \/ forwarding # None /\ forwarding.to = to /\ u = forwarding.update
      BY <2>4 DEF Pending
    <3>2. \E n \in Elems(notifications) \cup ({forwarding} \ {None}) : n.to = to /\ u = n.update
      BY <3>1 DEF Elems
    <3>3. PICK n \in Notification : n \in Flying /\ n.to = to /\ u = n.update
      BY <2>1, <2>2, <3>2, NoneAssumption DEF Flying
    <3> QED
      BY <2>3, <3>3
  <2>5. ASSUME [to |-> to, update |-> u] \in Flying PROVE u \in Pending(to)
    <3>1. PICK n : n = [to |-> to, update |-> u] /\ n.to = to /\ n.update = u /\ n \in Flying
      BY <2>5
    <3>2. CASE n \in Elems(notifications)
      <4>1. PICK i \in DOMAIN notifications : n = notifications[i]
        BY <3>2 DEF Elems
      <4> QED
        BY <3>1, <4>1 DEF Pending
    <3>3. CASE n = forwarding /\ n # None
      BY <3>1, <3>3 DEF Pending
    <3> QED
      BY <3>1, <3>2, <3>3 DEF Flying
  <2> QED
    BY <2>4, <2>5
<1>2. PendingIs
  BY <1>1 DEF PendingIs
<1>3. UnsentIs
  BY <1>1 DEF UnsentIs, Unsent, ToAll
<1>4. HandingIs
  BY <1>1 DEF HandingIs, Handing, SyncPhase
<1>5. DueIs
  <2>1. \A c \in Conns : (\E i \in DOMAIN downstream :
            downstream[i].type = "connected" /\ downstream[i].id = conn_id[c]) <=> Sent(c)
    BY DEF Sent, Elems
  <2> QED
    BY <2>1, Zenon DEF DueIs, Due, SyncDue, SyncPhase, Added, Reading
<1> QED
  BY <1>2, <1>3, <1>4, <1>5

LEMMA AbstractStateNext == TypeOK' => PendingIs' /\ UnsentIs' /\ HandingIs' /\ DueIs'
<1>1. (TypeOK => PendingIs /\ UnsentIs /\ HandingIs /\ DueIs)'
  BY AbstractState, PTL
<1> QED
  BY <1>1

-----------------------------------------------------------------------------
(* Channels without repetitions.                                            *)
LEMMA AppendNoRepeats ==
    ASSUME NEW S, NEW s \in Seq(S), NEW e \in S, NoRepeats(s), e \notin Elems(s)
    PROVE  NoRepeats(Append(s, e))
<1>1. /\ DOMAIN s = 1..Len(s) /\ DOMAIN Append(s, e) = 1..(Len(s) + 1) /\ Len(s) \in Nat
      /\ \A i \in 1..Len(s) : Append(s, e)[i] = s[i]
      /\ Append(s, e)[Len(s) + 1] = e
  OBVIOUS
<1>2. \A i \in 1..Len(s) : s[i] # e
  BY <1>1 DEF Elems
<1> QED
  BY <1>1, <1>2 DEF NoRepeats

LEMMA TailNoRepeats ==
    ASSUME NEW S, NEW s \in Seq(S), s # << >>, NoRepeats(s)
    PROVE  NoRepeats(Tail(s)) /\ Head(s) \notin Elems(Tail(s))
<1>1. /\ Head(s) = s[1] /\ Len(s) \in Nat \ {0} /\ DOMAIN s = 1..Len(s)
      /\ DOMAIN Tail(s) = 1..(Len(s) - 1)
      /\ \A i \in 1..(Len(s) - 1) : Tail(s)[i] = s[i + 1]
  OBVIOUS
<1>2. \A i \in 1..(Len(s) - 1) : i + 1 \in 1..Len(s) /\ i + 1 # 1 /\ 1 \in 1..Len(s)
  BY <1>1
<1> QED
  BY <1>1, <1>2 DEF NoRepeats, Elems

LEMMA AppendConnectsOnce ==
    ASSUME NEW S, NEW s \in Seq(S), NEW m \in S, ConnectsOnce(s),
           m.type = "connected" => ~\E x \in Elems(s) : x.type = "connected" /\ x.id = m.id
    PROVE  ConnectsOnce(Append(s, m))
<1>1. /\ DOMAIN s = 1..Len(s) /\ DOMAIN Append(s, m) = 1..(Len(s) + 1) /\ Len(s) \in Nat
      /\ \A i \in 1..Len(s) : Append(s, m)[i] = s[i]
      /\ Append(s, m)[Len(s) + 1] = m
  OBVIOUS
<1>2. \A i \in 1..Len(s) : ~(m.type = "connected" /\ s[i].type = "connected" /\ s[i].id = m.id)
  BY <1>1 DEF Elems
<1> QED
  BY <1>1, <1>2 DEF ConnectsOnce

LEMMA TailConnectsOnce ==
    ASSUME NEW S, NEW s \in Seq(S), s # << >>, ConnectsOnce(s)
    PROVE  /\ ConnectsOnce(Tail(s))
           /\ Head(s).type = "connected" =>
                 ~\E x \in Elems(Tail(s)) : x.type = "connected" /\ x.id = Head(s).id
<1>1. /\ Head(s) = s[1] /\ Len(s) \in Nat \ {0} /\ DOMAIN s = 1..Len(s)
      /\ DOMAIN Tail(s) = 1..(Len(s) - 1)
      /\ \A i \in 1..(Len(s) - 1) : Tail(s)[i] = s[i + 1]
  OBVIOUS
<1>2. \A i \in 1..(Len(s) - 1) : i + 1 \in 1..Len(s) /\ i + 1 # 1 /\ 1 \in 1..Len(s)
  BY <1>1
<1> QED
  BY <1>1, <1>2 DEF ConnectsOnce, Elems

(* What is in flight after each step of the channel.                        *)
LEMMA FlyingType ==
    ASSUME TypeOK
    PROVE  Flying \subseteq Notification /\ Elems(downstream) \subseteq DownstreamMessage
<1>1. Elems(notifications) \subseteq Notification /\ Elems(downstream) \subseteq DownstreamMessage
  BY ElemsType DEF TypeOK
<1> QED
  BY <1>1 DEF Flying, TypeOK

LEMMA SameFlying ==
    ASSUME UNCHANGED <<notifications, forwarding>>
    PROVE  Flying' = Flying
  BY DEF Flying, Elems

LEMMA NotifyFlies ==
    ASSUME TypeOK, NEW n \in Notification, TryNotify(n), forwarding' = forwarding
    PROVE  \/ /\ Len(notifications) < NotifyCap
              /\ notifications' = Append(notifications, n)
              /\ Flying' = Flying \cup {n}
           \/ /\ ~(Len(notifications) < NotifyCap)
              /\ notifications' = notifications /\ Flying' = Flying
<1>1. Flying' = (Elems(notifications') \cup {forwarding'}) \ {None}
  BY DEF Flying, Elems
<1>2. n # None
  BY NoneAssumption
<1> QED
  BY <1>1, <1>2, TryNotifyElems DEF Flying

LEMMA TakeFlies ==
    ASSUME TypeOK, TakeNotification
    PROVE  /\ Flying' = Flying
           /\ Elems(notifications) = {forwarding'} \cup Elems(notifications')
<1>1. notifications \in Seq(Notification) /\ notifications # << >>
  BY DEF TypeOK, TakeNotification
<1>2. Elems(notifications) = {Head(notifications)} \cup Elems(Tail(notifications))
  BY <1>1, TailElems
<1>3. Flying' = (Elems(notifications') \cup {forwarding'}) \ {None}
  BY DEF Flying, Elems
<1>4. forwarding = None /\ forwarding' = Head(notifications) /\ notifications' = Tail(notifications)
  BY DEF TakeNotification
<1> QED
  BY <1>2, <1>3, <1>4 DEF Flying

LEMMA ForwardFlies ==
    ASSUME TypeOK, EachOnce, Forward
    PROVE  Flying' = Flying \ {forwarding} /\ forwarding \in Flying
<1>1. Flying' = (Elems(notifications') \cup {forwarding'}) \ {None}
  BY DEF Flying, Elems
<1>2. forwarding' = None /\ notifications' = notifications /\ forwarding # None
  BY DEF Forward
<1> QED
  BY <1>1, <1>2 DEF Flying, EachOnce

-----------------------------------------------------------------------------
(* A client's synchronisation stays in one place.                           *)
LEMMA SyncKept ==
    ASSUME OneSync, TypeOK, conn_id' = conn_id, kernel' = kernel,
           \A n \in Flying' : n \in Flying \/ n.to = None,
           \A m \in Elems(downstream') : m \in Elems(downstream) \/ m.type # "connected",
           ConnectsOnce(downstream'),
           \A c \in Conns : pc'[c] = "added" => pc[c] = "added"
    PROVE  OneSync'
<1>1. ASSUME NEW c \in Conns, conn_id[c] # 0
      PROVE  /\ Added(c)' => Added(c)
             /\ Sent(c)' => Sent(c)
             /\ Reading(c)' => Reading(c)
             /\ Handed(c)' => Handed(c)
  <2>1. conn_id[c] # None
    BY <1>1, NoneAssumption DEF TypeOK, ConnIds
  <2>2. Sent(c)' => Sent(c)
    BY DEF Sent, Elems
  <2> QED
    BY <2>1, <2>2 DEF Added, Reading, Handed
<1> QED
  BY <1>1 DEF OneSync

\* The id that Register hands out next is nowhere yet.
LEMMA FreshId ==
    ASSUME TypeOK, ChannelsOK, ProcessorOK
    PROVE  /\ \A n \in Flying : n.to # next_conn_id
           /\ \A m \in Elems(downstream) : m.type = "connected" => m.id # next_conn_id
           /\ kernel.id # next_conn_id
           /\ next_conn_id \notin DOMAIN connections \/ ~HubOK
<1>0. next_conn_id \in ConnIds /\ \A c \in Conns : conn_id[c] < next_conn_id
  BY DEF TypeOK
<1>1. ASSUME NEW n \in Flying PROVE n.to # next_conn_id
  <2>1. n \in Notification /\ SentFor(n)
    BY FlyingType DEF ChannelsOK, Flying
  <2> QED
    BY <1>0, <2>1, NoneAssumption DEF SentFor, Notification, ConnIds
<1>2. \A m \in Elems(downstream) : m.type = "connected" => m.id # next_conn_id
  BY <1>0 DEF ChannelsOK, ConnectedFor, ConnIds
<1>3. kernel.id # next_conn_id
  <2>1. CASE kernel.pc = "idle"
    BY <1>0, <2>1 DEF ProcessorOK, Idle, ConnIds
  <2>2. CASE kernel.pc # "idle"
    BY <1>0, <2>2 DEF ProcessorOK, SyncFor, ConnIds
  <2> QED
    BY <2>1, <2>2
<1>4. HubOK => next_conn_id \notin DOMAIN connections
  <2> SUFFICES ASSUME HubOK, next_conn_id \in DOMAIN connections PROVE FALSE
    OBVIOUS
  <2>1. conn_id[connections[next_conn_id].task] = next_conn_id
    BY DEF HubOK, HubIndexAgrees
  <2>2. connections[next_conn_id].task \in Conns
    BY DEF TypeOK
  <2> QED
    BY <1>0, <2>1, <2>2 DEF ConnIds
<1> QED
  BY <1>1, <1>2, <1>3, <1>4

LEMMA NextKeepsOneSync ==
    ASSUME FeedInv, [Next]_vars
    PROVE  OneSync'
<1> USE DEF storeVars, hubVars, taskVars, dropped
<1>0. /\ TypeOK /\ IdsOK /\ ChannelsOK /\ ProcessorOK /\ OneSync /\ EachOnce
      /\ pc \in [Conns -> Labels] /\ conn_id \in [Conns -> Nat]
      /\ \A c \in Conns : conn_id[c] < next_conn_id
      /\ next_conn_id \in ConnIds
      /\ ConnectsOnce(downstream)
      /\ downstream \in Seq(DownstreamMessage)
  BY DEF FeedInv, IInv, TypeOK, OneSync
<1>1. ASSUME UNCHANGED <<conn_id, kernel, notifications, forwarding, downstream>>,
             \A c \in Conns : pc'[c] = "added" => pc[c] = "added"
      PROVE  OneSync'
  <2>1. Flying' = Flying
    BY <1>1, SameFlying
  <2> QED
    BY <1>0, <1>1, <2>1, SyncKept
<1>2. ASSUME NEW c \in Conns, Register(c) PROVE OneSync'
  <2>1. CASE HasRoomFor(c)
    <3>1. /\ pc' = [pc EXCEPT ![c] = "added"]
          /\ conn_id' = [conn_id EXCEPT ![c] = next_conn_id]
      BY <1>2, <2>1, RegisterAdds
    <3>2. UNCHANGED <<notifications, forwarding, downstream, kernel>>
      BY <1>2, RegisterKeeps
    <3>3. Flying' = Flying /\ conn_id[c] = 0
      BY <1>0, <1>2, <3>2, SameFlying DEF Register, IdsOK
    <3>4. \A n \in Flying : n.to # next_conn_id
      BY <1>0, FreshId
    <3>5. \A m \in Elems(downstream) : m.type = "connected" => m.id # next_conn_id
      BY <1>0, FreshId
    <3>6. kernel.id # next_conn_id
      BY <1>0, FreshId
    <3>7. ~Sent(c)' /\ ~Reading(c)' /\ ~Handed(c)'
      BY <1>0, <3>1, <3>2, <3>3, <3>4, <3>5, <3>6 DEF Sent, Reading, Handed, Elems
    <3>8. ASSUME NEW d \in Conns, d # c
          PROVE  /\ conn_id'[d] = conn_id[d] /\ Added(d)' = Added(d) /\ Sent(d)' = Sent(d)
                 /\ Reading(d)' = Reading(d) /\ Handed(d)' = Handed(d)
      BY <1>0, <3>1, <3>2, <3>3, <3>8 DEF Added, Sent, Reading, Handed, Elems
    <3>9. ConnectsOnce(downstream)'
      BY <1>0, <3>2 DEF ConnectsOnce
    <3>10. ASSUME NEW d \in Conns, conn_id'[d] # 0
           PROVE  /\ Added(d)' => ~Sent(d)' /\ ~Reading(d)' /\ ~Handed(d)'
                  /\ Sent(d)' => ~Reading(d)' /\ ~Handed(d)'
                  /\ Reading(d)' => ~Handed(d)'
      <4>1. CASE d = c
        BY <3>7, <4>1
      <4>2. CASE d # c
        BY <1>0, <3>8, <3>10, <4>2 DEF OneSync
      <4> QED
        BY <4>1, <4>2
    <3> QED
      BY <3>9, <3>10 DEF OneSync
  <2>2. CASE ~HasRoomFor(c)
    <3>1. pc' = [pc EXCEPT ![c] = "rejecting"] /\ conn_id' = conn_id
      BY <1>2, <2>2, RegisterRefuses
    <3> QED
      BY <1>0, <1>1, <1>2, <3>1, RegisterKeeps
  <2> QED
    BY <2>1, <2>2
<1>3. ASSUME NEW c \in Conns, Announce(c) PROVE OneSync'
  <2> DEFINE m == [type |-> "connected", id |-> conn_id[c], buckets |-> Allowed(c)]
  <2>1. m \in DownstreamMessage /\ m.type = "connected" /\ m.id = conn_id[c]
    BY <1>0, <1>3, AnnouncesType
  <2>2. /\ TryDownstream(m) /\ pc[c] = "added" /\ pc' = [pc EXCEPT ![c] = "open"]
        /\ UNCHANGED <<conn_id, kernel, notifications, forwarding>>
    BY <1>3 DEF Announce, Goto
  <2>3. conn_id[c] # 0
    BY <1>0, <2>2 DEF IdsOK, Serving
  <2> HIDE DEF m
  <2>4. ~Sent(c) /\ ~Reading(c) /\ ~Handed(c)
    BY <1>0, <2>2, <2>3 DEF OneSync, Added
  <2>5. CASE downstream' = downstream
    BY <1>0, <1>1, <2>2, <2>5
  <2>6. CASE downstream' = Append(downstream, m) /\ Elems(downstream') = Elems(downstream) \cup {m}
    <3>1. Flying' = Flying
      BY <2>2, SameFlying
    <3>2. ConnectsOnce(downstream')
      BY <1>0, <2>1, <2>4, <2>6, AppendConnectsOnce DEF Sent
    <3>3. ~Added(c)' /\ ~Reading(c)' /\ ~Handed(c)'
      BY <1>0, <2>2, <2>4, <3>1 DEF Added, Reading, Handed
    <3>4. ASSUME NEW d \in Conns, d # c, conn_id[d] # 0
          PROVE  /\ Added(d)' = Added(d) /\ Sent(d)' = Sent(d)
                 /\ Reading(d)' = Reading(d) /\ Handed(d)' = Handed(d)
      <4>1. conn_id[d] # conn_id[c]
        BY <1>0, <3>4 DEF IdsOK
      <4>2. Sent(d)' = \E x \in Elems(downstream') : x.type = "connected" /\ x.id = conn_id[d]
        BY <2>2 DEF Sent, Elems
      <4>3. Sent(d)' = Sent(d)
        BY <2>1, <2>6, <4>1, <4>2 DEF Sent
      <4> QED
        BY <1>0, <2>2, <3>1, <3>4, <4>3 DEF Added, Reading, Handed
    <3>5. ASSUME NEW d \in Conns, conn_id'[d] # 0
          PROVE  /\ Added(d)' => ~Sent(d)' /\ ~Reading(d)' /\ ~Handed(d)'
                 /\ Sent(d)' => ~Reading(d)' /\ ~Handed(d)'
                 /\ Reading(d)' => ~Handed(d)'
      <4>1. CASE d = c
        BY <3>3, <4>1
      <4>2. CASE d # c
        BY <1>0, <2>2, <3>4, <3>5, <4>2 DEF OneSync
      <4> QED
        BY <4>1, <4>2
    <3> QED
      BY <3>2, <3>5 DEF OneSync
  <2> QED
    BY <1>0, <2>1, <2>2, <2>5, <2>6, TryDownstreamElems
<1>4. ASSUME NEW c \in Conns, SendCommand(c) \/ Leave(c) PROVE OneSync'
  <2>1. PICK t \in {"message", "disconnected"} :
            \/ downstream' = Append(downstream, [type |-> t, id |-> conn_id[c], buckets |-> {}])
            \/ downstream' = downstream
    BY <1>4 DEF SendCommand, Leave, TryDownstream
  <2>2. /\ UNCHANGED <<conn_id, kernel, notifications, forwarding>>
        /\ \A d \in Conns : pc'[d] = "added" => pc[d] = "added"
    BY <1>0, <1>4 DEF SendCommand, Leave, Goto
  <2> DEFINE m == [type |-> t, id |-> conn_id[c], buckets |-> {}]
  <2>3. conn_id[c] \in Nat \ {0}
    BY <1>0, <1>4 DEF SendCommand, Leave, IdsOK, Serving
  <2>4. m \in DownstreamMessage /\ m.type # "connected"
    BY <2>3 DEF DownstreamMessage, ConnIds
  <2>5. downstream' = Append(downstream, m) \/ downstream' = downstream
    BY <2>1
  <2> HIDE DEF m
  <2>6. Elems(Append(downstream, m)) = Elems(downstream) \cup {m}
        /\ ConnectsOnce(Append(downstream, m))
    BY <1>0, <2>4, AppendElems, AppendConnectsOnce
  <2>7. /\ \A x \in Elems(downstream') : x \in Elems(downstream) \/ x.type # "connected"
        /\ ConnectsOnce(downstream')
    BY <1>0, <2>4, <2>5, <2>6
  <2>8. Flying' = Flying
    BY <2>2, SameFlying
  <2> QED
    BY <1>0, <2>2, <2>7, <2>8, SyncKept
<1>5. ASSUME NEW c \in Conns, Rejected(c) \/ LockHub(c) \/ WriteSocket(c) \/ Cleanup(c)
      PROVE  OneSync'
  <2>1. /\ UNCHANGED <<conn_id, kernel, notifications, forwarding, downstream>>
        /\ \A d \in Conns : pc'[d] = "added" => pc[d] = "added"
    BY <1>0, <1>5 DEF Rejected, LockHub, WriteSocket, Cleanup, Goto
  <2> QED
    BY <1>1, <2>1
<1>6. CASE TakeNotification
  <2>1. Flying' = Flying
    BY <1>0, <1>6, TakeFlies
  <2>2. UNCHANGED <<conn_id, kernel, downstream, pc>>
    BY <1>6 DEF TakeNotification
  <2> QED
    BY <1>0, <2>1, <2>2, SyncKept
<1>7. CASE Forward
  <2>1. Flying' \subseteq Flying
    BY <1>0, <1>7, ForwardFlies
  <2>2. UNCHANGED <<conn_id, kernel, downstream, pc>>
    BY <1>7 DEF Forward
  <2> QED
    BY <1>0, <2>1, <2>2, SyncKept
<1>8. CASE TakeMessage
  <2>1. downstream # << >> /\ downstream' = Tail(downstream) /\ kernel.pc = "idle"
        /\ UNCHANGED <<conn_id, pc, notifications, forwarding>>
    BY <1>8 DEF TakeMessage
  <2>2. /\ Elems(downstream) = {Head(downstream)} \cup Elems(downstream')
        /\ Head(downstream) \in DownstreamMessage
        /\ ConnectsOnce(downstream')
        /\ Head(downstream).type = "connected" =>
              ~\E x \in Elems(downstream') : x.type = "connected" /\ x.id = Head(downstream).id
    BY <1>0, <2>1, TailElems, TailConnectsOnce
  <2>3. Flying' = Flying
    BY <2>1, SameFlying
  <2>4. CASE Head(downstream).type = "connected"
    <3>1. kernel' = [kernel EXCEPT !.pc = "lookup", !.id = Head(downstream).id,
                                   !.buckets = Head(downstream).buckets]
      BY <1>8, <2>4 DEF TakeMessage
    <3>2. kernel'.pc = "lookup" /\ kernel'.id = Head(downstream).id
      BY <1>0, <3>1 DEF TypeOK
    <3>3. ASSUME NEW d \in Conns, conn_id[d] # 0
          PROVE  /\ Added(d)' = Added(d)
                 /\ Sent(d)' => (Sent(d) /\ kernel'.id # conn_id[d])
                 /\ Reading(d)' => (Sent(d) /\ kernel'.id = conn_id[d])
                 /\ Handed(d)' => Handed(d)
      <4>1. Sent(d)' = \E x \in Elems(downstream') : x.type = "connected" /\ x.id = conn_id[d]
        BY <2>1 DEF Sent, Elems
      <4>2. Sent(d)' => (Sent(d) /\ kernel'.id # conn_id[d])
        BY <2>2, <2>4, <3>2, <4>1 DEF Sent
      <4>3. Reading(d)' => (Sent(d) /\ kernel'.id = conn_id[d])
        BY <2>1, <2>2, <2>4, <3>2 DEF Reading, Sent
      <4>4. Added(d)' = Added(d) /\ (Handed(d)' => Handed(d))
        BY <2>1, <2>3, <3>2 DEF Added, Handed
      <4> QED
        BY <4>2, <4>3, <4>4
    <3>4. ASSUME NEW d \in Conns, conn_id'[d] # 0
          PROVE  /\ Added(d)' => ~Sent(d)' /\ ~Reading(d)' /\ ~Handed(d)'
                 /\ Sent(d)' => ~Reading(d)' /\ ~Handed(d)'
                 /\ Reading(d)' => ~Handed(d)'
      <4>1. conn_id[d] # 0
        BY <2>1, <3>4
      <4>2. Reading(d)' => kernel'.id = conn_id[d]
        BY <3>3, <4>1
      <4>3. /\ Added(d) => ~Sent(d) /\ ~Reading(d) /\ ~Handed(d)
            /\ Sent(d) => ~Reading(d) /\ ~Handed(d)
            /\ Reading(d) => ~Handed(d)
        BY <1>0, <4>1 DEF OneSync
      <4> QED
        BY <3>3, <4>1, <4>2, <4>3
    <3>5. ConnectsOnce(downstream)'
      BY <2>2 DEF ConnectsOnce
    <3> QED
      BY <3>4, <3>5 DEF OneSync
  <2>5. CASE Head(downstream).type # "connected"
    <3>1. kernel' = kernel
      BY <1>8, <2>5 DEF TakeMessage
    <3> QED
      BY <1>0, <2>1, <2>2, <2>3, <3>1, SyncKept
  <2> QED
    BY <2>4, <2>5
<1>9. CASE LookUpRoom \/ Collect \/ Target
  <2>1. UNCHANGED <<conn_id, pc, downstream, forwarding>>
    BY <1>9 DEF LookUpRoom, Collect, Target
  <2>2. ASSUME NEW d \in Conns, conn_id[d] # 0
        PROVE  /\ Added(d)' = Added(d) /\ Sent(d)' = Sent(d)
               /\ Reading(d)' => Reading(d)
               /\ Handed(d)' => ~Reading(d)' /\ (Reading(d) \/ Handed(d))
    <3>1. Added(d)' = Added(d) /\ Sent(d)' = Sent(d)
      BY <2>1 DEF Added, Sent, Elems
    <3>2. CASE LookUpRoom
      <4>1. \/ kernel'.pc = "collect" /\ kernel'.id = kernel.id
            \/ kernel'.pc = "idle"
        BY <1>0, <3>2 DEF LookUpRoom, Idle, TypeOK
      <4>2. Flying' = Flying /\ kernel.pc = "lookup"
        BY <3>2, SameFlying DEF LookUpRoom
      <4>3. Handed(d)' => ~Reading(d)
        BY <1>0, <2>1, <2>2, <4>1, <4>2 DEF OneSync, Handed
      <4> QED
        BY <2>1, <3>1, <4>1, <4>2, <4>3 DEF Reading, Handed
    <3>3. CASE Collect
      <4>1. kernel'.pc = "target" /\ kernel'.id = kernel.id
        BY <1>0, <3>3 DEF Collect, TypeOK
      <4>2. Flying' = Flying /\ kernel.pc = "collect"
        BY <3>3, SameFlying DEF Collect
      <4> QED
        BY <2>1, <3>1, <4>1, <4>2 DEF Reading, Handed
    <3>4. CASE Target
      <4>1. kernel.pc = "target"
        BY <3>4 DEF Target
      <4>2. \/ kernel'.pc = "target" /\ kernel'.id = kernel.id
            \/ kernel'.pc = "idle"
        <5>1. CASE kernel.updates = {}
          BY <3>4, <5>1 DEF Target, Idle
        <5>2. CASE kernel.updates # {}
          <6>1. PICK u \in kernel.updates :
                   kernel' = IF Len(notifications) < NotifyCap
                             THEN [kernel EXCEPT !.updates = @ \ {u}]
                             ELSE Idle
            BY <3>4, <5>2 DEF Target
          <6>2. CASE kernel' = [kernel EXCEPT !.updates = @ \ {u}]
            BY <1>0, <4>1, <6>2 DEF TypeOK
          <6>3. CASE kernel' = Idle
            BY <6>3 DEF Idle
          <6> QED
            BY <6>1, <6>2, <6>3
        <5> QED
          BY <5>1, <5>2
      <4>3. \A n \in Flying' : n \in Flying \/ n.to = kernel.id
        <5>1. CASE UNCHANGED notifications
          BY <2>1, <5>1, SameFlying
        <5>2. CASE \E u \in kernel.updates : TryNotify([to |-> kernel.id, update |-> u])
          <6>1. PICK u \in kernel.updates : TryNotify([to |-> kernel.id, update |-> u])
            BY <5>2
          <6> DEFINE n == [to |-> kernel.id, update |-> u]
          <6>2. n \in Notification /\ n.to = kernel.id
            BY <1>0, <4>1, TargetsType
          <6> HIDE DEF n
          <6>3. Flying' = Flying \cup {n} \/ Flying' = Flying
            BY <1>0, <2>1, <6>1, <6>2, NotifyFlies DEF n
          <6> QED
            BY <6>2, <6>3
        <5> QED
          BY <3>4, <5>1, <5>2 DEF Target
      <4> QED
        BY <2>1, <3>1, <4>1, <4>2, <4>3 DEF Reading, Handed
    <3> QED
      BY <1>9, <3>2, <3>3, <3>4
  <2>3. ASSUME NEW d \in Conns, conn_id'[d] # 0
        PROVE  /\ Added(d)' => ~Sent(d)' /\ ~Reading(d)' /\ ~Handed(d)'
               /\ Sent(d)' => ~Reading(d)' /\ ~Handed(d)'
               /\ Reading(d)' => ~Handed(d)'
    BY <1>0, <2>1, <2>2, <2>3 DEF OneSync
  <2>4. ConnectsOnce(downstream)'
    BY <1>0, <2>1 DEF ConnectsOnce
  <2> QED
    BY <2>3, <2>4 DEF OneSync
<1>10. ASSUME NEW w \in Writers, Broadcast(w) PROVE OneSync'
  <2> DEFINE n == [to |-> None, update |-> writing[w]]
  <2>1. n \in Notification /\ n.to = None /\ TryNotify(n)
    BY <1>0, <1>10, BroadcastsType DEF Broadcast
  <2>2. UNCHANGED <<conn_id, kernel, downstream, pc, forwarding>>
    BY <1>10 DEF Broadcast
  <2> HIDE DEF n
  <2>3. Flying' = Flying \cup {n} \/ Flying' = Flying
    BY <1>0, <2>1, <2>2, NotifyFlies
  <2> QED
    BY <1>0, <2>1, <2>2, <2>3, SyncKept
<1>11. CASE Environment \/ Store
  <2>1. /\ UNCHANGED <<conn_id, kernel, notifications, forwarding, downstream>>
        /\ \A d \in Conns : pc'[d] = "added" => pc[d] = "added"
    BY <1>0, <1>11, StoreKeeps DEF Environment, Handshake, ReadCommand, PeerGone, Goto
  <2> QED
    BY <1>1, <2>1
<1>12. CASE UNCHANGED vars
  BY <1>1, <1>12 DEF vars
<1> QED
  BY <1>2, <1>3, <1>4, <1>5, <1>6, <1>7, <1>8, <1>9, <1>10, <1>11, <1>12
  DEF Next, Task, Forwarder, Processor
-----------------------------------------------------------------------------
(* Of the commands, only ApplyWrite writes; the others replace entries, or   *)
(* only check that a room is loaded.                                        *)
LEMMA StoreCases ==
    ASSUME TypeOK, Store
    PROVE  \/ \E w \in Writers : ApplyWrite(w)
           \/ /\ UNCHANGED <<writes, writing>>
              /\ stored' \in [Slots -> Nat \cup {None}]
              /\ \A s \in Slots : stored'[s] \in {stored[s], 0, None}
<1>0. stored \in [Slots -> Nat \cup {None}]
  BY DEF TypeOK
<1>1. ASSUME NEW w \in Writers, NEW r \in Rooms, NEW b \in BucketIds, StartWrite(w, r, b)
      PROVE  UNCHANGED <<writes, writing, stored>>
  BY <1>1 DEF StartWrite
<1>2. ASSUME NEW r \in Rooms, LoadRoom(r) \/ UnloadRoom(r)
      PROVE  /\ UNCHANGED <<writes, writing>> /\ stored' \in [Slots -> Nat \cup {None}]
             /\ \A s \in Slots : stored'[s] \in {stored[s], 0, None}
  BY <1>0, <1>2 DEF LoadRoom, UnloadRoom
<1>3. ASSUME NEW r \in Rooms, NEW b \in BucketIds, DeleteBucket(r, b)
      PROVE  /\ UNCHANGED <<writes, writing>> /\ stored' \in [Slots -> Nat \cup {None}]
             /\ \A s \in Slots : stored'[s] \in {stored[s], 0, None}
  <2>1. UNCHANGED <<writes, writing>> /\ stored' = [stored EXCEPT ![<<r, b>>] = None]
    BY <1>3 DEF DeleteBucket
  <2> QED
    BY <1>0, <2>1
<1> QED
  BY <1>0, <1>1, <1>2, <1>3 DEF Store

-----------------------------------------------------------------------------
(* Nothing is in flight twice.                                              *)
LEMMA NotifiedOnce ==
    ASSUME TypeOK, EachOnce, NEW n \in Notification, n \notin Flying,
           TryNotify(n), forwarding' = forwarding
    PROVE  NoRepeats(notifications') /\ forwarding' \notin Elems(notifications')
<1>1. notifications \in Seq(Notification) /\ n # None
  BY NoneAssumption DEF TypeOK
<1>2. n \notin Elems(notifications) /\ n # forwarding
  BY <1>1 DEF Flying
<1>3. NoRepeats(notifications) /\ forwarding \notin Elems(notifications)
  BY DEF EachOnce
<1>4. NoRepeats(Append(notifications, n))
  BY <1>1, <1>2, <1>3, AppendNoRepeats
<1>5. \/ notifications' = Append(notifications, n)
         /\ Elems(notifications') = Elems(notifications) \cup {n}
      \/ notifications' = notifications
  BY TryNotifyElems
<1> QED
  BY <1>2, <1>3, <1>4, <1>5

LEMMA ValuesPast ==
    ASSUME TypeOK
    PROVE  (\A u \in Unsent : u.value <= writes) <=>
              /\ \A w \in Writers : writing[w] # None =>
                    writing[w].value <= writes
              /\ \A u : ToAll(u) \in Flying => u.value <= writes
  BY AbstractState DEF UnsentIs

LEMMA ValuesPastNext ==
    ASSUME TypeOK'
    PROVE  (\A u \in Unsent' : u.value <= writes') <=>
              /\ \A w \in Writers : writing'[w] # None =>
                    writing'[w].value <= writes'
              /\ \A u : ToAll(u) \in Flying' => u.value <= writes'
<1>1. \A u : u \in Unsent' <=> \/ \E w \in Writers : writing'[w] = u /\ u # None
                               \/ ToAll(u) \in Flying'
  BY AbstractStateNext DEF UnsentIs, ToAll
<1> QED
  BY <1>1

LEMMA EachOnceKept ==
    ASSUME TypeOK, TypeOK', EachOnce, UNCHANGED <<writing, writes>>,
           NoRepeats(notifications'), forwarding' \notin Elems(notifications'),
           \A n \in Flying' : n \in Flying \/ n.to # None,
           \A u \in kernel'.updates : [to |-> kernel'.id, update |-> u] \notin Flying'
    PROVE  EachOnce'
<1>1. \A u : ToAll(u) \in Flying' => ToAll(u) \in Flying
  BY DEF ToAll
<1>2. \A u \in Unsent' : u.value <= writes'
  BY <1>1, ValuesPast, ValuesPastNext DEF EachOnce
<1>3. \A w \in Writers : writing'[w] # None => ToAll(writing'[w]) \notin Flying'
  BY <1>1 DEF EachOnce
<1>4. \A w, v \in Writers : writing'[w] # None /\ writing'[w] = writing'[v] => w = v
  BY DEF EachOnce
<1>5. /\ NoRepeats(notifications)' /\ (forwarding \notin Elems(notifications))'
      /\ (\A u \in kernel.updates : ToOne(u) \notin Flying)'
      /\ (\A w \in Writers : writing[w] # None => ToAll(writing[w]) \notin Flying)'
  BY <1>3 DEF NoRepeats, Elems, ToOne, ToAll
<1> QED
  BY <1>2, <1>4, <1>5 DEF EachOnce
\* The steps that store and broadcast.
LEMMA ApplyWriteKeepsEachOnce ==
    ASSUME FeedInv, TypeOK', NEW w \in Writers, ApplyWrite(w)
    PROVE  EachOnce'
<1>1. PICK new : /\ new.value = writes + 1 /\ writes' = writes + 1
                 /\ writing' = [writing EXCEPT ![w] = new] /\ writing[w] = None
                 /\ UNCHANGED <<notifications, forwarding, kernel>>
  BY DEF ApplyWrite, FeedInv, IInv, WritersOK
<1>2. /\ TypeOK /\ EachOnce /\ writes \in Nat
      /\ writing \in [Writers -> Update \cup {None}]
  BY DEF FeedInv, IInv, TypeOK
<1>3. Flying' = Flying
  BY <1>1, SameFlying
<1>4. /\ \A v \in Writers : writing[v] # None => writing[v].value <= writes
      /\ \A u : ToAll(u) \in Flying => u.value <= writes
  BY <1>2, ValuesPast DEF EachOnce
<1>5. ToAll(new) \notin Flying /\ \A v \in Writers : writing[v] # None => writing[v] # new
  BY <1>1, <1>2, <1>4
<1>6. \A u \in Update : u.value <= writes => u.value <= writes'
  BY <1>1, <1>2 DEF Update
<1>7. \A v \in Writers : writing'[v] = IF v = w THEN new ELSE writing[v]
  BY <1>1, <1>2
<1>8. \A u \in Unsent' : u.value <= writes'
  <2>1. \A v \in Writers : writing'[v] # None => writing'[v].value <= writes'
    BY <1>1, <1>2, <1>4, <1>6, <1>7
  <2>2. \A u : ToAll(u) \in Flying => u \in Update
    BY <1>2, FlyingType DEF ToAll, Notification
  <2>3. \A u : ToAll(u) \in Flying' => u.value <= writes'
    BY <1>3, <1>4, <1>6, <2>2
  <2> QED
    BY <2>1, <2>3, ValuesPastNext
<1>9. \A v, x \in Writers : writing'[v] # None /\ writing'[v] = writing'[x] => v = x
  BY <1>2, <1>5, <1>7 DEF EachOnce
<1>10. (\A v \in Writers : writing[v] # None => ToAll(writing[v]) \notin Flying)'
  <2>1. \A v \in Writers : writing'[v] # None => ToAll(writing'[v]) \notin Flying'
    BY <1>2, <1>3, <1>5, <1>7 DEF EachOnce
  <2> QED
    BY <2>1 DEF ToAll
<1>11. /\ NoRepeats(notifications)' /\ (forwarding \notin Elems(notifications))'
       /\ (\A u \in kernel.updates : ToOne(u) \notin Flying)'
  BY <1>1, <1>2, <1>3 DEF EachOnce, NoRepeats, Elems, ToOne
<1> QED
  BY <1>8, <1>9, <1>10, <1>11 DEF EachOnce

LEMMA BroadcastKeepsEachOnce ==
    ASSUME FeedInv, TypeOK', NEW w \in Writers, Broadcast(w)
    PROVE  EachOnce'
<1> DEFINE n == [to |-> None, update |-> writing[w]]
<1>1. /\ TypeOK /\ EachOnce /\ ProcessorOK
      /\ writing \in [Writers -> Update \cup {None}]
  BY DEF FeedInv, IInv, TypeOK
<1>2. /\ n \in Notification /\ TryNotify(n) /\ writing[w] # None
      /\ writing' = [writing EXCEPT ![w] = None]
      /\ UNCHANGED <<writes, forwarding, kernel>>
  BY <1>1, BroadcastsType DEF Broadcast
<1>3. n = ToAll(writing[w]) /\ n.to = None /\ \A u : ToAll(u) = n => u = writing[w]
  BY DEF ToAll
<1> HIDE DEF n
<1>4. n \notin Flying
  BY <1>1, <1>2, <1>3 DEF EachOnce
<1>5. NoRepeats(notifications') /\ forwarding' \notin Elems(notifications')
  BY <1>1, <1>2, <1>4, NotifiedOnce
<1>6. Flying' = Flying \cup {n} \/ Flying' = Flying
  BY <1>1, <1>2, NotifyFlies
<1>7. \A v \in Writers : writing'[v] = IF v = w THEN None ELSE writing[v]
  BY <1>1, <1>2
<1>8. \A v \in Writers : writing'[v] # None => ToAll(writing'[v]) \notin Flying'
  <2>1. ASSUME NEW v \in Writers, writing'[v] # None
        PROVE  writing[v] # None /\ writing[v] # writing[w] /\ writing'[v] = writing[v]
    BY <1>1, <1>2, <1>7, <2>1 DEF EachOnce
  <2>2. ASSUME NEW v \in Writers, writing'[v] # None
        PROVE  ToAll(writing[v]) # n /\ ToAll(writing[v]) \notin Flying
    BY <1>1, <1>3, <2>1, <2>2 DEF EachOnce
  <2> QED
    BY <1>6, <2>1, <2>2
<1>9. \A v, x \in Writers : writing'[v] # None /\ writing'[v] = writing'[x] => v = x
  BY <1>1, <1>7 DEF EachOnce
<1>10. \A u \in Unsent' : u.value <= writes'
  <2>1. /\ \A v \in Writers : writing[v] # None => writing[v].value <= writes
        /\ \A u : ToAll(u) \in Flying => u.value <= writes
    BY <1>1, ValuesPast DEF EachOnce
  <2>2. \A v \in Writers : writing'[v] # None => writing'[v].value <= writes'
    BY <1>2, <1>7, <2>1
  <2>3. \A u : ToAll(u) \in Flying' => u.value <= writes'
    BY <1>2, <1>3, <1>6, <2>1
  <2> QED
    BY <2>2, <2>3, ValuesPastNext
<1>11. \A u \in kernel.updates : [to |-> kernel.id, update |-> u] # n
  <2>1. ASSUME NEW u \in kernel.updates PROVE kernel.id # None
    BY <1>1, NoneAssumption DEF ProcessorOK, Idle, TypeOK, ConnIds
  <2> QED
    BY <1>3, <2>1
<1>12. (\A u \in kernel.updates : ToOne(u) \notin Flying)'
  <2>1. \A u \in kernel.updates : [to |-> kernel.id, update |-> u] \notin Flying'
    BY <1>1, <1>6, <1>11 DEF EachOnce, ToOne
  <2> QED
    BY <1>2, <2>1 DEF ToOne
<1>13. /\ NoRepeats(notifications)' /\ (forwarding \notin Elems(notifications))'
       /\ (\A v \in Writers : writing[v] # None => ToAll(writing[v]) \notin Flying)'
  BY <1>5, <1>8 DEF NoRepeats, Elems, ToAll
<1> QED
  BY <1>9, <1>10, <1>12, <1>13 DEF EachOnce

LEMMA NextKeepsEachOnce ==
    ASSUME FeedInv, [Next]_vars
    PROVE  EachOnce'
<1> USE DEF storeVars, hubVars, taskVars, dropped
<1>0. /\ IInv /\ TypeOK /\ IdsOK /\ ChannelsOK /\ ProcessorOK /\ OneSync /\ EachOnce
      /\ notifications \in Seq(Notification)
      /\ NoRepeats(notifications) /\ forwarding \notin Elems(notifications)
      /\ \A u \in kernel.updates : [to |-> kernel.id, update |-> u] \notin Flying
  BY DEF FeedInv, IInv, TypeOK, EachOnce, ToOne
<1>1. TypeOK'
  BY <1>0, NextKeepsType
<1>2. ASSUME UNCHANGED <<writing, writes, notifications, forwarding>>,
             \A u \in kernel'.updates : [to |-> kernel'.id, update |-> u] \notin Flying
      PROVE  EachOnce'
  <2>1. Flying' = Flying
    BY <1>2, SameFlying
  <2>2. NoRepeats(notifications') /\ forwarding' \notin Elems(notifications')
    BY <1>0, <1>2
  <2> QED
    BY <1>0, <1>1, <1>2, <2>1, <2>2, EachOnceKept
<1>3. ASSUME UNCHANGED <<writing, writes, notifications, forwarding, kernel>>
      PROVE  EachOnce'
  BY <1>0, <1>2, <1>3
<1>4. ASSUME NEW c \in Conns, Task(c) PROVE EachOnce'
  <2>1. UNCHANGED <<writing, writes, notifications, forwarding, kernel>>
    BY <1>4, RegisterKeeps
    DEF Task, Rejected, Announce, LockHub, SendCommand, WriteSocket, Cleanup, Leave
  <2> QED
    BY <1>3, <2>1
<1>5. CASE TakeNotification
  <2>1. /\ Flying' = Flying
        /\ forwarding' = Head(notifications) /\ notifications' = Tail(notifications)
        /\ notifications # << >> /\ UNCHANGED <<writing, writes, kernel>>
    BY <1>0, <1>5, TakeFlies DEF TakeNotification
  <2>2. NoRepeats(notifications') /\ forwarding' \notin Elems(notifications')
    BY <1>0, <2>1, TailNoRepeats
  <2> QED
    BY <1>0, <1>1, <2>1, <2>2, EachOnceKept
<1>6. CASE Forward
  <2>1. /\ Flying' \subseteq Flying
        /\ forwarding' = None /\ notifications' = notifications
        /\ UNCHANGED <<writing, writes, kernel>>
    BY <1>0, <1>6, ForwardFlies DEF Forward
  <2>2. NoRepeats(notifications') /\ forwarding' \notin Elems(notifications')
    BY <1>0, <2>1, ElemsType, NoneAssumption
  <2> QED
    BY <1>0, <1>1, <2>1, <2>2, EachOnceKept
<1>7. CASE TakeMessage \/ LookUpRoom
  <2>1. UNCHANGED <<writing, writes, notifications, forwarding>>
    BY <1>7 DEF TakeMessage, LookUpRoom
  <2>2. kernel'.updates = {} \/ (kernel'.updates = kernel.updates /\ kernel'.id = kernel.id)
    <3>1. CASE TakeMessage
      <4>1. kernel.updates = {}
        BY <1>0, <3>1 DEF TakeMessage, ProcessorOK, Idle
      <4>2. \/ kernel' = [kernel EXCEPT !.pc = "lookup", !.id = Head(downstream).id,
                                        !.buckets = Head(downstream).buckets]
            \/ kernel' = kernel
        BY <3>1 DEF TakeMessage
      <4> QED
        BY <1>0, <4>1, <4>2 DEF TypeOK
    <3>2. CASE LookUpRoom
      BY <1>0, <3>2 DEF LookUpRoom, TypeOK, Idle
    <3> QED
      BY <1>7, <3>1, <3>2
  <2> QED
    BY <1>0, <1>2, <2>1, <2>2
<1>8. CASE Collect
  <2>1. /\ UNCHANGED <<writing, writes, notifications, forwarding>>
        /\ kernel.pc = "collect"
    BY <1>8 DEF Collect
  <2>2. kernel'.id = kernel.id
    BY <1>0, <1>8 DEF Collect, TypeOK
  <2>3. PICK c \in Conns : conn_id[c] = kernel.id /\ conn_id[c] # 0
    BY <1>0, <2>1 DEF ProcessorOK, SyncFor
  <2>4. ~Handed(c)
    BY <1>0, <2>1, <2>3 DEF OneSync, Reading
  <2>5. \A u : [to |-> kernel.id, update |-> u] \notin Flying
    BY <2>3, <2>4 DEF Handed
  <2> QED
    BY <1>2, <2>1, <2>2, <2>5
<1>9. CASE Target
  <2>1. /\ UNCHANGED <<writing, writes, forwarding>> /\ kernel.pc = "target"
    BY <1>9 DEF Target
  <2>2. CASE kernel.updates = {}
    <3>1. kernel' = Idle /\ UNCHANGED notifications
      BY <1>9, <2>2 DEF Target
    <3> QED
      BY <1>2, <2>1, <3>1 DEF Idle
  <2>3. CASE kernel.updates # {}
    <3>1. PICK u \in kernel.updates :
             /\ TryNotify([to |-> kernel.id, update |-> u])
             /\ kernel' = IF Len(notifications) < NotifyCap
                          THEN [kernel EXCEPT !.updates = @ \ {u}]
                          ELSE Idle
      BY <1>9, <2>3 DEF Target
    <3> DEFINE n == [to |-> kernel.id, update |-> u]
    <3>2. /\ n \in Notification /\ TryNotify(n) /\ n \notin Flying /\ n.to # None
          /\ \A x : [to |-> kernel.id, update |-> x] = n => x = u
      BY <1>0, <2>1, <3>1, TargetsType, NoneAssumption DEF Notification, ProcessorOK, TypeOK, ConnIds
    <3> HIDE DEF n
    <3>3. NoRepeats(notifications') /\ forwarding' \notin Elems(notifications')
      BY <1>0, <2>1, <3>2, NotifiedOnce
    <3>4. Flying' = Flying \cup {n} \/ Flying' = Flying
      BY <1>0, <2>1, <3>2, NotifyFlies
    <3>5. \/ kernel'.updates = kernel.updates \ {u} /\ kernel'.id = kernel.id
          \/ kernel'.updates = {}
      <4>1. CASE kernel' = [kernel EXCEPT !.updates = @ \ {u}]
        BY <1>0, <4>1 DEF TypeOK
      <4>2. CASE kernel' = Idle
        BY <4>2 DEF Idle
      <4> QED
        BY <3>1, <4>1, <4>2
    <3>6. \A x \in kernel'.updates : [to |-> kernel'.id, update |-> x] \notin Flying'
      BY <1>0, <3>2, <3>4, <3>5
    <3>7. \A x \in Flying' : x \in Flying \/ x.to # None
      BY <3>2, <3>4
    <3> QED
      BY <1>0, <1>1, <2>1, <3>3, <3>6, <3>7, EachOnceKept
  <2> QED
    BY <2>2, <2>3
<1>10. ASSUME NEW w \in Writers, Broadcast(w) PROVE EachOnce'
  BY <1>1, <1>10, BroadcastKeepsEachOnce
<1>11. CASE Environment
  <2>1. UNCHANGED <<writing, writes, notifications, forwarding, kernel>>
    BY <1>11 DEF Environment, Handshake, ReadCommand, PeerGone
  <2> QED
    BY <1>3, <2>1
<1>12. CASE Store
  <2>1. UNCHANGED <<notifications, forwarding, kernel>>
    BY <1>12, StoreKeeps
  <2>2. UNCHANGED <<writing, writes>> => EachOnce'
    BY <1>3, <2>1
  <2>3. \A w \in Writers : ApplyWrite(w) => EachOnce'
    BY <1>1, ApplyWriteKeepsEachOnce
  <2> QED
    BY <1>0, <1>12, <2>2, <2>3, StoreCases
<1>13. CASE UNCHANGED vars
  BY <1>3, <1>13 DEF vars
<1> QED
  BY <1>4, <1>5, <1>6, <1>7, <1>8, <1>9, <1>10, <1>11, <1>12, <1>13
  DEF Next, Forwarder, Processor

LEMMA FeedInvAlways == Spec => []FeedInv
<1>1. Init => FeedInv
  <2> SUFFICES ASSUME Init PROVE FeedInv
    OBVIOUS
  <2>1. IInv /\ TypeOK
    BY InitIInv DEF IInv
  <2>2. /\ Elems(notifications) = {} /\ Elems(downstream) = {} /\ Flying = {}
        /\ kernel.updates = {} /\ \A w \in Writers : writing[w] = None
        /\ notifications = << >> /\ downstream = << >> /\ forwarding = None
        /\ \A c \in Conns : conn_id[c] = 0
    BY DEF Init, Elems, Flying, Idle
  <2>3. OneSync
    BY <2>2 DEF OneSync, ConnectsOnce
  <2>4. \A u \in Unsent : u.value <= writes
    BY <2>1, <2>2, ValuesPast
  <2>5. EachOnce
    BY <2>2, <2>4 DEF EachOnce, NoRepeats
  <2> QED
    BY <2>1, <2>3, <2>5 DEF FeedInv
<1>2. FeedInv /\ [Next]_vars => FeedInv'
  BY NextKeepsIInv, NextKeepsOneSync, NextKeepsEachOnce DEF FeedInv
<1> QED
  BY <1>1, <1>2, PTL DEF Spec
-----------------------------------------------------------------------------
(* When a part of the abstract state stays as it is.                        *)
LEMMA MemberSame ==
    ASSUME UNCHANGED <<conn_id, DOMAIN connections>>
    PROVE  Member' = Member
  BY DEF Member, Registered

LEMMA UnsentSame ==
    ASSUME TypeOK, TypeOK', writing' = writing,
           \A u : ToAll(u) \in Flying' <=> ToAll(u) \in Flying
    PROVE  Unsent' = Unsent
<1>1. \A u : u \in Unsent' <=> \/ \E w \in Writers : writing'[w] = u /\ u # None
                               \/ ToAll(u) \in Flying'
  BY AbstractStateNext DEF UnsentIs, ToAll
<1>2. \A u : u \in Unsent <=> \/ \E w \in Writers : writing[w] = u /\ u # None
                              \/ ToAll(u) \in Flying
  BY AbstractState DEF UnsentIs
<1> QED
  BY <1>1, <1>2

Targeted(c, u) == [to |-> conn_id[c], update |-> u] \in Flying
Left(c, u) == kernel.id = conn_id[c] /\ kernel.pc = "target" /\ u \in kernel.updates

LEMMA HandingMembers ==
    ASSUME TypeOK, TypeOK'
    PROVE  \A c \in Conns :
              /\ conn_id[c] = 0 => Handing[c] = {}
              /\ conn_id'[c] = 0 => Handing'[c] = {}
              /\ conn_id[c] # 0 => \A u : u \in Handing[c] <=> Targeted(c, u) \/ Left(c, u)
              /\ conn_id'[c] # 0 => \A u : u \in Handing'[c] <=> Targeted(c, u)' \/ Left(c, u)'
<1>1. HandingIs /\ HandingIs'
  BY AbstractState, AbstractStateNext
<1>2. \A c \in Conns :
         /\ conn_id[c] = 0 => Handing[c] = {}
         /\ conn_id[c] # 0 => \A u : u \in Handing[c] <=> Targeted(c, u) \/ Left(c, u)
  BY <1>1 DEF HandingIs, Targeted, Left
<1>3. \A c \in Conns :
         /\ conn_id'[c] = 0 => Handing'[c] = {}
         /\ conn_id'[c] # 0 => \A u : u \in Handing'[c] <=> Targeted(c, u)' \/ Left(c, u)'
  BY <1>1 DEF HandingIs, Targeted, Left
<1> QED
  BY <1>2, <1>3

LEMMA HandingSame ==
    ASSUME TypeOK, TypeOK', conn_id' = conn_id,
           \A c \in Conns : \A u : conn_id[c] # 0 =>
              (Targeted(c, u)' \/ Left(c, u)' <=> Targeted(c, u) \/ Left(c, u))
    PROVE  Handing' = Handing
<1>1. \A c \in Conns : Handing'[c] = Handing[c]
  BY HandingMembers
<1>2. Handing' = [c \in Conns |-> Handing'[c]] /\ Handing = [c \in Conns |-> Handing[c]]
  BY DEF Handing
<1> QED
  BY <1>1, <1>2

LEMMA DueMembers ==
    ASSUME TypeOK, TypeOK'
    PROVE  /\ Due \subseteq Conns /\ Due' \subseteq Conns
           /\ \A c \in Conns :
                 /\ c \in Due <=> Added(c) \/ Sent(c) \/ (conn_id[c] # 0 /\ Reading(c))
                 /\ c \in Due' <=> Added(c)' \/ Sent(c)' \/ (conn_id'[c] # 0 /\ Reading(c)')
<1>1. DueIs /\ DueIs'
  BY AbstractState, AbstractStateNext
<1>2. \A c \in Conns : c \in Due <=> Added(c) \/ Sent(c) \/ (conn_id[c] # 0 /\ Reading(c))
  BY <1>1 DEF DueIs
<1>3. \A c \in Conns : c \in Due' <=> Added(c)' \/ Sent(c)' \/ (conn_id'[c] # 0 /\ Reading(c)')
  BY <1>1 DEF DueIs
<1> QED
  BY <1>2, <1>3 DEF Due

LEMMA DueSame ==
    ASSUME TypeOK, TypeOK', conn_id' = conn_id,
           \A c \in Conns : Added(c)' <=> Added(c),
           \A c \in Conns : Sent(c)' <=> Sent(c),
           \A c \in Conns : conn_id[c] # 0 => (Reading(c)' <=> Reading(c))
    PROVE  Due' = Due
  BY DueMembers

LEMMA SameStreams ==
    ASSUME UNCHANGED <<seen, queue>>
    PROVE  Streams' = Streams
  BY DEF Streams, Stream

\* Steps the multicast does not see.
LEMMA Quiet ==
    ASSUME TypeOK, TypeOK', UNCHANGED <<store, writing, DOMAIN connections, conn_id, kernel>>,
           Flying' = Flying, Streams' = Streams,
           \A c \in Conns : pc'[c] = "added" <=> pc[c] = "added",
           \A m : m.type = "connected" => (m \in Elems(downstream') <=> m \in Elems(downstream))
    PROVE  [Multicast!Next]_(Multicast!vars)
<1>1. Unsent' = Unsent /\ Member' = Member
  BY UnsentSame, MemberSame
<1>2. Handing' = Handing
  BY HandingSame DEF Targeted, Left
<1>3. \A c \in Conns : Sent(c)' <=> Sent(c)
  BY DEF Sent, Elems
<1>4. Due' = Due
  BY <1>3, DueSame DEF Added, Reading
<1> QED
  BY <1>1, <1>2, <1>4, Stutters
-----------------------------------------------------------------------------
(* Every step of the connection tasks is a step of the multicast.           *)
LEMMA RegisterJoins ==
    ASSUME FeedInv, TypeOK', NEW c \in Conns, Register(c), HasRoomFor(c)
    PROVE  [Multicast!Next]_(Multicast!vars)
<1>0. /\ TypeOK /\ IdsOK /\ ChannelsOK /\ ProcessorOK
      /\ conn_id \in [Conns -> Nat] /\ next_conn_id \in ConnIds
      /\ \A d \in Conns : conn_id[d] < next_conn_id
      /\ pc \in [Conns -> Labels]
  BY DEF FeedInv, IInv, TypeOK
<1>1. /\ DOMAIN connections' = DOMAIN connections \cup {next_conn_id}
      /\ conn_id' = [conn_id EXCEPT ![c] = next_conn_id]
      /\ pc' = [pc EXCEPT ![c] = "added"]
      /\ UNCHANGED <<writes, stored, writing, queue, seen, notifications,
                     forwarding, downstream, kernel>>
  BY RegisterAdds, RegisterKeeps
<1>2. /\ pc[c] = "authed" /\ conn_id[c] = 0
      /\ conn_id'[c] = next_conn_id /\ next_conn_id # 0
      /\ \A d \in Conns \ {c} : conn_id'[d] = conn_id[d] /\ conn_id[d] # next_conn_id
  BY <1>0, <1>1 DEF Register, IdsOK, ConnIds
<1>3. Flying' = Flying /\ Elems(downstream') = Elems(downstream)
  BY <1>1, SameFlying
<1>4. /\ \A n \in Flying : n.to # next_conn_id
      /\ \A m \in Elems(downstream) : m.type = "connected" => m.id # next_conn_id
      /\ kernel.id # next_conn_id
  BY <1>0, FreshId
<1>5. Member[c] = "new" /\ Member' = [Member EXCEPT ![c] = "in"]
  <2>1. Member[c] = "new" /\ Member'[c] = "in"
    BY <1>1, <1>2 DEF Member, Registered
  <2>2. \A d \in Conns \ {c} : Member'[d] = Member[d]
    BY <1>1, <1>2 DEF Member, Registered
  <2>3. Member = [d \in Conns |-> Member[d]] /\ Member' = [d \in Conns |-> Member'[d]]
    BY DEF Member
  <2> QED
    BY <2>1, <2>2, <2>3
<1>6. Due' = Due \cup {c}
  <2>1. Added(c)'
    BY <1>0, <1>1 DEF Added
  <2>2. \A d \in Conns \ {c} : Added(d)' = Added(d) /\ Sent(d)' = Sent(d) /\ Reading(d)' = Reading(d)
    BY <1>0, <1>1, <1>2, <1>3 DEF Added, Sent, Reading, Elems
  <2> QED
    BY <1>0, <1>2, <2>1, <2>2, DueMembers
<1>7. Handing' = Handing
  <2>1. \A u : ~Targeted(c, u)' /\ ~Left(c, u)'
    BY <1>1, <1>2, <1>3, <1>4 DEF Targeted, Left
  <2>2. \A d \in Conns \ {c} : \A u : Targeted(d, u)' = Targeted(d, u) /\ Left(d, u)' = Left(d, u)
    BY <1>1, <1>2, <1>3 DEF Targeted, Left
  <2>3. \A d \in Conns : Handing'[d] = Handing[d]
    <3>1. Handing[c] = {} /\ Handing'[c] = {}
      BY <1>0, <1>2, <2>1, HandingMembers
    <3>2. \A d \in Conns \ {c} : Handing'[d] = Handing[d]
      BY <1>0, <1>2, <2>2, HandingMembers, ZenonT(40)
    <3> QED
      BY <3>1, <3>2
  <2>4. Handing' = [d \in Conns |-> Handing'[d]] /\ Handing = [d \in Conns |-> Handing[d]]
    BY DEF Handing
  <2> QED
    BY <2>3, <2>4
<1>8. Unsent' = Unsent /\ Streams' = Streams
  BY <1>0, <1>1, <1>3, UnsentSame, SameStreams
<1> QED
  BY <1>1, <1>5, <1>6, <1>7, <1>8, Joins DEF store

LEMMA AnnounceSynchronises ==
    ASSUME FeedInv, TypeOK', NEW c \in Conns, Announce(c)
    PROVE  [Multicast!Next]_(Multicast!vars)
<1> DEFINE m == [type |-> "connected", id |-> conn_id[c], buckets |-> Allowed(c)]
<1>0. /\ TypeOK /\ IdsOK /\ OneSync /\ pc \in [Conns -> Labels]
  BY DEF FeedInv, IInv, TypeOK
<1>1. m \in DownstreamMessage /\ m.type = "connected" /\ m.id = conn_id[c]
  BY <1>0, AnnouncesType
<1>2. /\ TryDownstream(m) /\ pc[c] = "added" /\ pc' = [pc EXCEPT ![c] = "open"]
      /\ UNCHANGED <<writes, stored, writing, connections, conn_id, queue, seen,
                     notifications, forwarding, kernel>>
  BY DEF Announce, Goto, storeVars, hubVars
<1> HIDE DEF m
<1>3. conn_id[c] # 0 /\ Added(c) /\ ~Sent(c) /\ ~Reading(c)
  BY <1>0, <1>2 DEF IdsOK, Serving, OneSync, Added
<1>4. Flying' = Flying
  BY <1>2, SameFlying
<1>5. Unsent' = Unsent /\ Member' = Member /\ Streams' = Streams
  BY <1>0, <1>2, <1>4, UnsentSame, MemberSame, SameStreams
<1>6. Handing' = Handing
  BY <1>0, <1>2, <1>4, HandingSame DEF Targeted, Left
<1>7. \A d \in Conns : /\ Added(d)' <=> d # c /\ Added(d)
                       /\ Reading(d)' <=> Reading(d)
  BY <1>0, <1>2 DEF Added, Reading
<1>8. CASE Elems(downstream') = Elems(downstream) \cup {m}
  <2>1. \A d \in Conns : Sent(d)' <=> Sent(d) \/ conn_id[d] = conn_id[c]
    <3>1. \A d \in Conns : Sent(d)' <=>
             \E x \in Elems(downstream') : x.type = "connected" /\ x.id = conn_id[d]
      BY <1>2 DEF Sent, Elems
    <3> QED
      BY <1>1, <1>8, <3>1 DEF Sent
  <2>2. \A d \in Conns : conn_id[d] = conn_id[c] => d = c
    BY <1>0, <1>3 DEF IdsOK
  <2>3. Due' = Due
    BY <1>0, <1>2, <1>3, <1>7, <2>1, <2>2, DueMembers
  <2> QED
    BY <1>2, <1>5, <1>6, <2>3, Stutters DEF store
<1>9. CASE downstream' = downstream
  <2>1. \A d \in Conns : Sent(d)' <=> Sent(d)
    BY <1>2, <1>9 DEF Sent, Elems
  <2>2. c \in Due /\ Due' = Due \ {c}
    BY <1>0, <1>2, <1>3, <1>7, <2>1, DueMembers
  <2> QED
    BY <1>2, <1>5, <1>6, <2>2, Synchronises DEF store
<1> QED
  BY <1>0, <1>1, <1>2, <1>8, <1>9, TryDownstreamElems

LEMMA CleanupLeaves ==
    ASSUME FeedInv, TypeOK', NEW c \in Conns, Cleanup(c)
    PROVE  [Multicast!Next]_(Multicast!vars)
<1>0. /\ TypeOK /\ IdsOK /\ pc \in [Conns -> Labels]
  BY DEF FeedInv, IInv, TypeOK
<1>1. /\ pc[c] = "closing" /\ pc' = [pc EXCEPT ![c] = "leaving"]
      /\ DOMAIN connections' = DOMAIN connections \ {conn_id[c]}
      /\ UNCHANGED <<writes, stored, writing, conn_id, queue, seen, notifications,
                     forwarding, downstream, kernel>>
  BY DEF Cleanup, Unregister, Goto, storeVars
<1>2. conn_id[c] # 0 /\ \A d \in Conns : conn_id[d] = conn_id[c] => d = c
  BY <1>0, <1>1 DEF IdsOK, Serving
<1>3. /\ Flying' = Flying /\ Elems(downstream') = Elems(downstream) /\ Streams' = Streams
      /\ \A d \in Conns : pc'[d] = "added" <=> pc[d] = "added"
  BY <1>0, <1>1, SameFlying, SameStreams
<1>4. CASE ~Registered(c)
  <2>1. DOMAIN connections' = DOMAIN connections
    BY <1>1, <1>4 DEF Registered
  <2> QED
    BY <1>0, <1>1, <1>3, <2>1, Quiet DEF store
<1>5. CASE Registered(c)
  <2>1. Member[c] = "in" /\ Member' = [Member EXCEPT ![c] = "out"]
    <3>1. Member[c] = "in" /\ Member'[c] = "out"
      BY <1>1, <1>2, <1>5 DEF Member, Registered
    <3>2. \A d \in Conns \ {c} : Member'[d] = Member[d]
      BY <1>1, <1>2 DEF Member, Registered
    <3>3. Member = [d \in Conns |-> Member[d]] /\ Member' = [d \in Conns |-> Member'[d]]
      BY DEF Member
    <3> QED
      BY <3>1, <3>2, <3>3
  <2>2. Unsent' = Unsent /\ Handing' = Handing
    BY <1>0, <1>1, <1>3, UnsentSame, HandingSame DEF Targeted, Left
  <2>3. Due' = Due
    BY <1>0, <1>1, <1>3, DueSame DEF Added, Sent, Reading, Elems
  <2> QED
    BY <1>1, <1>3, <2>1, <2>2, <2>3, Leaves DEF store
<1> QED
  BY <1>4, <1>5

LEMMA WriteSocketQuiet ==
    ASSUME FeedInv, TypeOK', NEW c \in Conns, WriteSocket(c)
    PROVE  [Multicast!Next]_(Multicast!vars)
<1>0. /\ TypeOK /\ queue \in [Conns -> Seq(Update)] /\ seen \in [Conns -> Seq(Update)]
  BY DEF FeedInv, IInv, TypeOK
<1>1. /\ queue[c] # << >>
      /\ queue' = [queue EXCEPT ![c] = Tail(@)]
      /\ seen' = [seen EXCEPT ![c] = Append(@, Head(queue[c]))]
      /\ UNCHANGED <<writes, stored, writing, connections, conn_id, pc, notifications,
                     forwarding, downstream, kernel>>
  BY DEF WriteSocket, storeVars, hubVars
<1>2. ASSUME NEW d \in Conns PROVE Stream(d)' = Stream(d)
  <2>1. CASE d = c
    <3>1. seen'[c] = Append(seen[c], Head(queue[c])) /\ queue'[c] = Tail(queue[c])
      BY <1>0, <1>1
    <3>2. seen[c] \in Seq(Update) /\ queue[c] \in Seq(Update)
      BY <1>0
    <3>3. Append(seen[c], Head(queue[c])) \o Tail(queue[c]) = seen[c] \o queue[c]
      BY <1>1, <3>2, ShiftKeepsStream
    <3> QED
      BY <2>1, <3>1, <3>3 DEF Stream
  <2>2. CASE d # c
    BY <1>0, <1>1, <2>2 DEF Stream
  <2> QED
    BY <2>1, <2>2
<1>3. Streams' = Streams
  BY <1>2 DEF Streams
<1>4. Flying' = Flying /\ Elems(downstream') = Elems(downstream)
  BY <1>1, SameFlying
<1> QED
  BY <1>0, <1>1, <1>3, <1>4, Quiet DEF store

LEMMA OthersQuiet ==
    ASSUME FeedInv, TypeOK', NEW c \in Conns,
           \/ Handshake(c) \/ ReadCommand(c) \/ PeerGone(c) \/ Rejected(c) \/ LockHub(c)
           \/ SendCommand(c) \/ Leave(c) \/ (Register(c) /\ ~HasRoomFor(c))
    PROVE  [Multicast!Next]_(Multicast!vars)
<1>0. /\ TypeOK /\ IdsOK /\ pc \in [Conns -> Labels] /\ downstream \in Seq(DownstreamMessage)
  BY DEF FeedInv, IInv, TypeOK
<1>1. UNCHANGED <<writes, stored, writing, connections, conn_id, queue, seen,
                  notifications, forwarding, kernel>>
  BY RegisterRefuses, RegisterKeeps
  DEF Handshake, ReadCommand, PeerGone, Rejected, LockHub, SendCommand, Leave,
      storeVars, hubVars
<1>2. \E l \in Labels : pc[c] # "added" /\ l # "added" /\ pc' = [pc EXCEPT ![c] = l]
  BY <1>0, RegisterRefuses
  DEF Handshake, ReadCommand, PeerGone, Rejected, LockHub, SendCommand, Leave, Register,
      Goto, Labels
<1>3. \A d \in Conns : pc'[d] = "added" <=> pc[d] = "added"
  BY <1>0, <1>2
<1>4. \A m : m.type = "connected" => (m \in Elems(downstream') <=> m \in Elems(downstream))
  <2>1. CASE SendCommand(c) \/ Leave(c)
    <3>1. PICK t \in {"message", "disconnected"} :
              \/ downstream' = Append(downstream, [type |-> t, id |-> conn_id[c], buckets |-> {}])
              \/ downstream' = downstream
      BY <2>1 DEF SendCommand, Leave, TryDownstream
    <3> DEFINE n == [type |-> t, id |-> conn_id[c], buckets |-> {}]
    <3>2. conn_id[c] \in Nat \ {0}
      BY <1>0, <2>1 DEF SendCommand, Leave, IdsOK, Serving, TypeOK
    <3>3. n \in DownstreamMessage /\ n.type # "connected"
      BY <3>2 DEF DownstreamMessage, ConnIds
    <3>4. downstream' = Append(downstream, n) \/ downstream' = downstream
      BY <3>1
    <3> HIDE DEF n
    <3>5. Elems(Append(downstream, n)) = Elems(downstream) \cup {n}
      BY <1>0, <3>3, AppendElems
    <3> QED
      BY <3>3, <3>4, <3>5
  <2>2. CASE ~(SendCommand(c) \/ Leave(c))
    <3>1. downstream' = downstream
      BY <2>2, RegisterKeeps DEF Handshake, ReadCommand, PeerGone, Rejected, LockHub
    <3> QED
      BY <3>1
  <2> QED
    BY <2>1, <2>2
<1>5. Flying' = Flying /\ Streams' = Streams
  BY <1>1, SameFlying, SameStreams
<1> QED
  BY <1>0, <1>1, <1>3, <1>4, <1>5, Quiet DEF store
-----------------------------------------------------------------------------
(* Every step of the message processor is a step of the multicast.          *)
LEMMA TakeMessageQuiet ==
    ASSUME FeedInv, TypeOK', TakeMessage
    PROVE  [Multicast!Next]_(Multicast!vars)
<1>0. /\ TypeOK /\ IdsOK /\ ProcessorOK /\ downstream \in Seq(DownstreamMessage)
  BY DEF FeedInv, IInv, TypeOK
<1>1. /\ kernel.pc = "idle" /\ downstream # << >> /\ downstream' = Tail(downstream)
      /\ UNCHANGED <<writes, stored, writing, connections, conn_id, pc, queue, seen,
                     notifications, forwarding>>
  BY DEF TakeMessage, storeVars, hubVars, taskVars
<1>2. Elems(downstream) = {Head(downstream)} \cup Elems(downstream')
  BY <1>0, <1>1, TailElems
<1>3. Flying' = Flying /\ Streams' = Streams
  BY <1>1, SameFlying, SameStreams
<1>4. CASE Head(downstream).type = "connected"
  <2>1. kernel'.pc = "lookup" /\ kernel'.id = Head(downstream).id
    <3>1. kernel' = [kernel EXCEPT !.pc = "lookup", !.id = Head(downstream).id,
                                   !.buckets = Head(downstream).buckets]
      BY <1>4 DEF TakeMessage
    <3> QED
      BY <1>0, <3>1 DEF TypeOK
  <2>2. \A c \in Conns : \A u : Targeted(c, u)' = Targeted(c, u) /\ ~Left(c, u)' /\ ~Left(c, u)
    BY <1>1, <1>3, <2>1 DEF Targeted, Left
  <2>3. \A c \in Conns : /\ Added(c)' <=> Added(c)
                         /\ Sent(c) \/ Reading(c) <=> Sent(c)' \/ Reading(c)'
    <3>1. \A c \in Conns : Sent(c)' <=>
             \E m \in Elems(downstream') : m.type = "connected" /\ m.id = conn_id[c]
      BY <1>1 DEF Sent, Elems
    <3> QED
      BY <1>1, <1>2, <1>4, <2>1, <3>1 DEF Added, Sent, Reading
  <2>4. \A c \in Conns : Sent(c) => conn_id[c] # 0
    BY <1>0, FlyingType DEF Sent, DownstreamMessage, ConnIds
  <2>5. \A c \in Conns : Sent(c)' => conn_id[c] # 0
    <3>1. \A c \in Conns : Sent(c)' <=>
             \E m \in Elems(downstream') : m.type = "connected" /\ m.id = conn_id[c]
      BY <1>1 DEF Sent, Elems
    <3> QED
      BY <1>2, <2>4, <3>1 DEF Sent
  <2>6. \A c \in Conns : c \in Due' <=> c \in Due
    BY <1>0, <1>1, <2>3, <2>4, <2>5, DueMembers
  <2>7. Due' = Due
    BY <1>0, <2>6, DueMembers
  <2>8. Unsent' = Unsent /\ Member' = Member /\ Handing' = Handing
    BY <1>0, <1>1, <1>3, <2>2, UnsentSame, MemberSame, HandingSame
  <2> QED
    BY <1>1, <1>3, <2>7, <2>8, Stutters DEF store
<1>5. CASE Head(downstream).type # "connected"
  <2>1. kernel' = kernel
    BY <1>5 DEF TakeMessage
  <2>2. \A m : m.type = "connected" => (m \in Elems(downstream') <=> m \in Elems(downstream))
    BY <1>2, <1>5
  <2> QED
    BY <1>0, <1>1, <1>3, <2>1, <2>2, Quiet DEF store
<1> QED
  BY <1>4, <1>5

LEMMA LookUpRoomSynchronises ==
    ASSUME FeedInv, TypeOK', LookUpRoom
    PROVE  [Multicast!Next]_(Multicast!vars)
<1>0. /\ TypeOK /\ IdsOK /\ ProcessorOK /\ OneSync
  BY DEF FeedInv, IInv
<1>1. /\ kernel.pc = "lookup"
      /\ UNCHANGED <<writes, stored, writing, connections, conn_id, pc, queue, seen,
                     notifications, forwarding, downstream>>
  BY DEF LookUpRoom, storeVars, hubVars, taskVars
<1>2. /\ Flying' = Flying /\ Streams' = Streams
      /\ \A c \in Conns : Added(c)' = Added(c) /\ Sent(c)' = Sent(c)
  BY <1>1, SameFlying, SameStreams DEF Added, Sent, Elems
<1>3. \/ kernel'.pc = "collect" /\ kernel'.id = kernel.id
      \/ kernel' = Idle
  BY <1>0 DEF LookUpRoom, TypeOK
<1>4. kernel'.pc # "target"
  BY <1>3 DEF Idle
<1>5. Unsent' = Unsent /\ Member' = Member /\ Handing' = Handing
  BY <1>0, <1>1, <1>2, <1>4, UnsentSame, MemberSame, HandingSame DEF Targeted, Left
<1>6. CASE kernel'.pc = "collect" /\ kernel'.id = kernel.id
  <2>1. Due' = Due
    BY <1>0, <1>1, <1>2, <1>6, DueSame DEF Reading
  <2> QED
    BY <1>1, <1>2, <1>5, <2>1, Stutters DEF store
<1>7. CASE kernel' = Idle
  <2>1. PICK c \in Conns : conn_id[c] = kernel.id /\ conn_id[c] # 0
    BY <1>0, <1>1 DEF ProcessorOK, SyncFor
  <2>2. Reading(c) /\ ~Added(c) /\ ~Sent(c)
    BY <1>0, <1>1, <2>1 DEF OneSync, Reading
  <2>3. \A d \in Conns : ~Reading(d)' /\ (Reading(d) => d = c)
    BY <1>0, <1>7, <2>1 DEF Reading, Idle, IdsOK
  <2>4. c \in Due /\ Due' = Due \ {c}
    BY <1>0, <1>1, <1>2, <2>1, <2>2, <2>3, DueMembers
  <2> QED
    BY <1>1, <1>2, <1>5, <2>4, Synchronises DEF store
<1> QED
  BY <1>3, <1>6, <1>7

LEMMA CollectSynchronises ==
    ASSUME FeedInv, TypeOK', Collect
    PROVE  [Multicast!Next]_(Multicast!vars)
<1>0. /\ TypeOK /\ IdsOK /\ ProcessorOK /\ OneSync
  BY DEF FeedInv, IInv
<1>1. /\ kernel.pc = "collect"
      /\ UNCHANGED <<writes, stored, writing, connections, conn_id, pc, queue, seen,
                     notifications, forwarding, downstream>>
  BY DEF Collect, storeVars, hubVars, taskVars
<1>2. /\ Flying' = Flying /\ Streams' = Streams
      /\ \A c \in Conns : Added(c)' = Added(c) /\ Sent(c)' = Sent(c)
  BY <1>1, SameFlying, SameStreams DEF Added, Sent, Elems
<1>3. PICK c \in Conns : conn_id[c] # 0 /\ SyncFor(c)
  BY <1>0, <1>1 DEF ProcessorOK, SyncFor
<1>4. /\ conn_id[c] = kernel.id /\ kernel.buckets = Allowed(c) /\ kernel.room = ClaimedRoom[c]
      /\ \A d \in Conns : conn_id[d] = kernel.id => d = c
  BY <1>0, <1>1, <1>3 DEF SyncFor, IdsOK
<1>5. /\ kernel'.pc = "target" /\ kernel'.id = kernel.id
      /\ kernel'.updates = Stored(c)
  <2> DEFINE S == {[room |-> kernel.room, bucket |-> b, value |-> stored[<<kernel.room, b>>]] :
                     b \in {d \in kernel.buckets : stored[<<kernel.room, d>>] # None}}
  <2>1. S = Stored(c)
    BY <1>4 DEF Stored
  <2>2. kernel' = [kernel EXCEPT !.pc = "target", !.updates = S]
    BY DEF Collect
  <2> HIDE DEF S
  <2> QED
    BY <1>0, <2>1, <2>2 DEF TypeOK
<1>6. Reading(c) /\ ~Added(c) /\ ~Sent(c) /\ ~Handed(c)
  BY <1>0, <1>1, <1>3, <1>4 DEF OneSync, Reading
<1>7. \A d \in Conns : ~Reading(d)' /\ (Reading(d) => d = c)
  BY <1>4, <1>5 DEF Reading
<1>8. c \in Due /\ Due' = Due \ {c}
  BY <1>0, <1>1, <1>2, <1>3, <1>6, <1>7, DueMembers
<1>9. Handing' = [Handing EXCEPT ![c] = Stored(c)]
  <2>1. \A u : ~Targeted(c, u)' /\ (Left(c, u)' <=> u \in Stored(c))
    BY <1>1, <1>2, <1>4, <1>5, <1>6 DEF Handed, Targeted, Left
  <2>2. \A d \in Conns \ {c} : \A u : Targeted(d, u)' = Targeted(d, u) /\ ~Left(d, u)' /\ ~Left(d, u)
    BY <1>1, <1>2, <1>4, <1>5 DEF Targeted, Left
  <2>3. Handing'[c] = Stored(c)
    BY <1>0, <1>1, <1>3, <2>1, HandingMembers
  <2>4. ASSUME NEW d \in Conns \ {c} PROVE Handing'[d] = Handing[d]
    <3>1. conn_id'[d] = conn_id[d]
      BY <1>0, <1>1
    <3>2. CASE conn_id[d] = 0
      BY <1>0, <1>1, <3>1, <3>2, HandingMembers
    <3>3. CASE conn_id[d] # 0
      <4>1. \A u : u \in Handing[d] <=> Targeted(d, u)
        BY <1>0, <1>1, <2>2, <3>3, HandingMembers
      <4>2. \A u : u \in Handing'[d] <=> Targeted(d, u)
        BY <1>0, <1>1, <2>2, <3>1, <3>3, HandingMembers
      <4> QED
        BY <4>1, <4>2
    <3> QED
      BY <3>2, <3>3
  <2>5. Handing' = [d \in Conns |-> Handing'[d]] /\ Handing = [d \in Conns |-> Handing[d]]
    BY DEF Handing
  <2> QED
    BY <2>3, <2>4, <2>5
<1>10. Unsent' = Unsent /\ Member' = Member
  BY <1>0, <1>1, <1>2, UnsentSame, MemberSame
<1> QED
  BY <1>1, <1>2, <1>8, <1>9, <1>10, Synchronises DEF store

LEMMA TargetGivesUp ==
    ASSUME FeedInv, TypeOK', Target
    PROVE  [Multicast!Next]_(Multicast!vars)
<1>0. /\ TypeOK /\ IdsOK /\ ProcessorOK /\ EachOnce
  BY DEF FeedInv, IInv
<1>1. /\ kernel.pc = "target"
      /\ UNCHANGED <<writes, stored, writing, connections, conn_id, pc, queue, seen,
                     forwarding, downstream>>
  BY DEF Target, storeVars, hubVars, taskVars
<1>2. /\ Streams' = Streams /\ Member' = Member
      /\ \A c \in Conns : Added(c)' = Added(c) /\ Sent(c)' = Sent(c)
  BY <1>1, MemberSame, SameStreams DEF Added, Sent, Elems
<1>3. PICK c \in Conns : /\ conn_id[c] # 0 /\ conn_id[c] = kernel.id
                         /\ \A d \in Conns : conn_id[d] = kernel.id => d = c
  BY <1>0, <1>1 DEF ProcessorOK, SyncFor, IdsOK
<1>4. kernel'.pc \in {"target", "idle"}
  <2>1. CASE kernel.updates = {}
    BY <2>1 DEF Target, Idle
  <2>2. CASE kernel.updates # {}
    <3>1. \E u \in kernel.updates : kernel' = [kernel EXCEPT !.updates = @ \ {u}] \/ kernel' = Idle
      BY <2>2 DEF Target
    <3> QED
      BY <1>0, <1>1, <3>1 DEF TypeOK, Idle
  <2> QED
    BY <2>1, <2>2
<1>5. Due' = Due
  BY <1>0, <1>1, <1>2, <1>4, DueSame DEF Reading
<1>6. CASE kernel.updates = {}
  <2>1. kernel' = Idle /\ notifications' = notifications
    BY <1>6 DEF Target
  <2>2. Flying' = Flying
    BY <1>1, <2>1, SameFlying
  <2>3. kernel'.pc = "idle"
    BY <2>1 DEF Idle
  <2>4. Unsent' = Unsent /\ Handing' = Handing
    BY <1>0, <1>1, <1>6, <2>2, <2>3, UnsentSame, HandingSame DEF Targeted, Left
  <2> QED
    BY <1>1, <1>2, <1>5, <2>4, Stutters DEF store
<1>7. CASE kernel.updates # {}
  <2>1. PICK u \in kernel.updates :
           /\ TryNotify([to |-> kernel.id, update |-> u])
           /\ kernel' = IF Len(notifications) < NotifyCap
                        THEN [kernel EXCEPT !.updates = @ \ {u}]
                        ELSE Idle
    BY <1>7 DEF Target
  <2> DEFINE n == [to |-> kernel.id, update |-> u]
  <2>2. /\ n \in Notification /\ TryNotify(n) /\ n.to # None /\ n = ToOne(u)
        /\ \A d \in Conns : \A x : [to |-> conn_id[d], update |-> x] = n <=> d = c /\ x = u
    BY <1>0, <1>1, <1>3, <2>1, TargetsType, NoneAssumption
    DEF Notification, ProcessorOK, TypeOK, ConnIds, ToOne
  <2>3. \A x : ToAll(x) # n
    BY <2>2 DEF ToAll
  <2> HIDE DEF n
  <2>4. CASE Len(notifications) < NotifyCap
    <3>1. Flying' = Flying \cup {n}
      BY <1>0, <1>1, <2>2, <2>4, NotifyFlies
    <3>2. kernel'.pc = "target" /\ kernel'.id = kernel.id /\ kernel'.updates = kernel.updates \ {u}
      <4>1. kernel' = [kernel EXCEPT !.updates = @ \ {u}]
        BY <2>1, <2>4
      <4> QED
        BY <1>0, <1>1, <4>1 DEF TypeOK
    <3>3. \A d \in Conns : \A x : Targeted(d, x)' <=> Targeted(d, x) \/ (d = c /\ x = u)
      BY <1>1, <2>2, <3>1 DEF Targeted
    <3>4. \A d \in Conns : \A x : /\ Left(d, x)' <=> Left(d, x) /\ x # u
                                  /\ Left(d, x) => d = c
                                  /\ d = c /\ x = u => Left(d, x)
      BY <1>1, <1>3, <3>2 DEF Left
    <3>5. Handing' = Handing
      BY <1>0, <1>1, <3>3, <3>4, HandingSame
    <3>6. Unsent' = Unsent
      BY <1>0, <1>1, <2>3, <3>1, UnsentSame
    <3> QED
      BY <1>1, <1>2, <1>5, <3>5, <3>6, Stutters DEF store
  <2>5. CASE ~(Len(notifications) < NotifyCap)
    <3>1. Flying' = Flying
      BY <1>0, <1>1, <2>2, <2>5, NotifyFlies
    <3>2. kernel'.pc = "idle"
      BY <2>1, <2>5 DEF Idle
    <3>3. \A d \in Conns : \A x : /\ Targeted(d, x)' = Targeted(d, x) /\ ~Left(d, x)'
                                  /\ Left(d, x) <=> d = c /\ x \in kernel.updates
      BY <1>1, <1>3, <3>1, <3>2 DEF Targeted, Left
    <3>4. \A x \in kernel.updates : ~Targeted(c, x)
      BY <1>0, <1>3 DEF EachOnce, ToOne, Targeted
    <3>5. Handing'[c] = Handing[c] \ kernel.updates /\ kernel.updates \subseteq Handing[c]
      BY <1>0, <1>1, <1>3, <3>3, <3>4, HandingMembers
    <3>6. ASSUME NEW d \in Conns, d # c PROVE Handing'[d] = Handing[d]
      <4>1. \A x : Targeted(d, x)' = Targeted(d, x) /\ ~Left(d, x)' /\ ~Left(d, x)
        BY <3>3, <3>6
      <4>2. CASE conn_id[d] = 0
        BY <1>0, <1>1, <4>2, HandingMembers
      <4>3. CASE conn_id[d] # 0
        BY <1>0, <1>1, <4>1, <4>3, HandingMembers
      <4> QED
        BY <4>2, <4>3
    <3>7. Handing' = [d \in Conns |-> Handing'[d]] /\ Handing = [d \in Conns |-> Handing[d]]
      BY DEF Handing
    <3>8. Handing' = [Handing EXCEPT ![c] = @ \ kernel.updates]
      BY <3>5, <3>6, <3>7
    <3>9. Unsent' = Unsent
      BY <1>0, <1>1, <3>1, UnsentSame
    <3> QED
      BY <1>1, <1>2, <1>5, <3>5, <3>8, <3>9, GivesUp DEF store
  <2> QED
    BY <2>4, <2>5
<1> QED
  BY <1>6, <1>7
-----------------------------------------------------------------------------
(* Every step of the writers and of the forwarder is a step of the          *)
(* multicast.                                                               *)
LEMMA ApplyWriteWrites ==
    ASSUME FeedInv, TypeOK', NEW w \in Writers, ApplyWrite(w)
    PROVE  [Multicast!Next]_(Multicast!vars)
<1>0. /\ TypeOK /\ writing \in [Writers -> Update \cup {None}] /\ writes \in Nat
      /\ checked[w] \in Slots /\ writing[w] = None
  BY DEF FeedInv, IInv, TypeOK, ApplyWrite, WritersOK
<1>1. PICK r \in Rooms, b \in BucketIds : checked[w] = <<r, b>>
  BY <1>0 DEF Slots
<1> DEFINE new == [room |-> r, bucket |-> b, value |-> writes + 1]
<1>2. /\ writes' = writes + 1 /\ writing' = [writing EXCEPT ![w] = new]
      /\ \/ \E v \in {writes + 1, None} : stored' = [stored EXCEPT ![<<r, b>>] = v]
         \/ UNCHANGED stored
  BY <1>1 DEF ApplyWrite
<1>3. UNCHANGED <<connections, conn_id, pc, queue, seen, notifications, forwarding,
                  downstream, kernel>>
  BY DEF ApplyWrite, hubVars, taskVars
<1>4. Flying' = Flying /\ Streams' = Streams /\ Member' = Member
  BY <1>3, SameFlying, SameStreams, MemberSame
<1>5. Due' = Due /\ Handing' = Handing
  BY <1>0, <1>3, <1>4, DueSame, HandingSame DEF Added, Sent, Reading, Elems, Targeted, Left
<1>6. new # None
  <2>1. new \in Update
    BY <1>0 DEF Update
  <2> QED
    BY <2>1, NoneAssumption
<1> HIDE DEF new
<1>7. Unsent' = Unsent \cup {new}
  <2>1. \A u : u \in Unsent' <=> \/ \E v \in Writers : writing'[v] = u /\ u # None
                                 \/ ToAll(u) \in Flying
    BY <1>4, AbstractStateNext DEF UnsentIs, ToAll
  <2>2. \A u : u \in Unsent <=> \/ \E v \in Writers : writing[v] = u /\ u # None
                                \/ ToAll(u) \in Flying
    BY <1>0, AbstractState DEF UnsentIs
  <2>3. \A v \in Writers : writing'[v] = IF v = w THEN new ELSE writing[v]
    BY <1>0, <1>2
  <2> QED
    BY <1>0, <1>6, <2>1, <2>2, <2>3
<1> QED
  BY <1>2, <1>4, <1>5, <1>7, Writes DEF new

LEMMA StoreSteps ==
    ASSUME FeedInv, TypeOK', Store
    PROVE  [Multicast!Next]_(Multicast!vars)
<1>0. TypeOK
  BY DEF FeedInv, IInv
<1>1. UNCHANGED <<connections, conn_id, pc, queue, seen, notifications, forwarding,
                  downstream, kernel>>
  BY StoreKeeps
<1>2. Flying' = Flying /\ Streams' = Streams /\ Member' = Member
  BY <1>1, SameFlying, SameStreams, MemberSame
<1>3. Due' = Due /\ Handing' = Handing
  BY <1>0, <1>1, <1>2, DueSame, HandingSame DEF Added, Sent, Reading, Elems, Targeted, Left
<1>4. UNCHANGED writing => Unsent' = Unsent
  BY <1>0, <1>2, UnsentSame
<1>5. /\ UNCHANGED <<writes, writing>>
      /\ stored' \in [Slots -> Nat \cup {None}]
      /\ \A s \in Slots : stored'[s] \in {stored[s], 0, None}
      => [Multicast!Next]_(Multicast!vars)
  BY <1>2, <1>3, <1>4, Replaces
<1> HIDE DEF Multicast!Next, Multicast!vars
<1> QED
  BY <1>0, <1>5, ApplyWriteWrites, StoreCases

LEMMA BroadcastLoses ==
    ASSUME FeedInv, TypeOK', NEW w \in Writers, Broadcast(w)
    PROVE  [Multicast!Next]_(Multicast!vars)
<1> DEFINE n == [to |-> None, update |-> writing[w]]
<1>0. TypeOK /\ ProcessorOK /\ EachOnce /\ writing \in [Writers -> Update \cup {None}]
  BY DEF FeedInv, IInv, TypeOK
<1>1. /\ n \in Notification /\ TryNotify(n) /\ writing[w] # None
      /\ writing' = [writing EXCEPT ![w] = None]
      /\ UNCHANGED <<writes, stored, connections, conn_id, pc, queue, seen, forwarding,
                     downstream, kernel>>
  BY <1>0, BroadcastsType DEF Broadcast, hubVars, taskVars
<1>2. n = ToAll(writing[w]) /\ n.to = None /\ \A u : ToAll(u) = n => u = writing[w]
  BY DEF ToAll
<1> HIDE DEF n
<1>3. Streams' = Streams /\ Member' = Member
  BY <1>1, SameStreams, MemberSame
<1>4. Due' = Due
  BY <1>0, <1>1, DueSame DEF Added, Sent, Reading, Elems
<1>5. Flying' = Flying \cup {n} \/ Flying' = Flying
  BY <1>0, <1>1, NotifyFlies
<1>6. Handing' = Handing
  <2>1. \A c \in Conns : conn_id[c] # 0 => conn_id[c] # None
    BY <1>0, NoneAssumption DEF TypeOK, ConnIds
  <2>2. \A c \in Conns : \A u : conn_id[c] # 0 => (Targeted(c, u)' <=> Targeted(c, u))
    BY <1>1, <1>2, <1>5, <2>1 DEF Targeted
  <2> QED
    BY <1>0, <1>1, <2>2, HandingSame DEF Left
<1>7. \A u : u \in Unsent' <=> \/ \E v \in Writers : writing'[v] = u /\ u # None
                               \/ ToAll(u) \in Flying'
  BY AbstractStateNext DEF UnsentIs, ToAll
<1>8. \A u : u \in Unsent <=> \/ \E v \in Writers : writing[v] = u /\ u # None
                              \/ ToAll(u) \in Flying
  BY <1>0, AbstractState DEF UnsentIs
<1>9. \A v \in Writers : writing'[v] = IF v = w THEN None ELSE writing[v]
  BY <1>0, <1>1
<1>10. ToAll(writing[w]) \notin Flying /\ \A v \in Writers : writing[v] = writing[w] => v = w
  BY <1>0, <1>1 DEF EachOnce
<1>11. CASE Flying' = Flying \cup {n}
  <2>1. \A u : u \in Unsent' <=> u \in Unsent
    BY <1>1, <1>2, <1>7, <1>8, <1>9, <1>11
  <2> QED
    BY <1>1, <1>3, <1>4, <1>6, <2>1, Stutters DEF store
<1>12. CASE Flying' = Flying
  <2>1. writing[w] \in Unsent
    BY <1>1, <1>8
  <2>2. Unsent' = Unsent \ {writing[w]}
    BY <1>1, <1>7, <1>8, <1>9, <1>10, <1>12
  <2> QED
    BY <1>1, <1>3, <1>4, <1>6, <2>1, <2>2, Loses DEF store
<1> QED
  BY <1>5, <1>11, <1>12

LEMMA TakeNotificationQuiet ==
    ASSUME FeedInv, TypeOK', TakeNotification
    PROVE  [Multicast!Next]_(Multicast!vars)
<1>0. TypeOK
  BY DEF FeedInv, IInv
<1>1. UNCHANGED <<writes, stored, writing, connections, conn_id, pc, queue, seen,
                  downstream, kernel>>
  BY DEF TakeNotification, storeVars, hubVars, taskVars
<1>2. Flying' = Flying /\ Streams' = Streams /\ Elems(downstream') = Elems(downstream)
  BY <1>0, <1>1, TakeFlies, SameStreams
<1> QED
  BY <1>0, <1>1, <1>2, Quiet DEF store

\* A client that the forwarder picks is given the update or taken out.
Picked(c) == Registered(c) /\ conn_id[c] \in Recipients(forwarding)

LEMMA ForwardExact ==
    ASSUME FeedInv, TypeOK', Forward, NEW c \in Conns
    PROVE  /\ ~Picked(c) => Stream(c)' = Stream(c) /\ (Registered(c)' <=> Registered(c))
           /\ Picked(c) => \/ Stream(c)' = Append(Stream(c), forwarding.update) /\ Registered(c)'
                           \/ Stream(c)' = Stream(c) /\ ~Registered(c)'
<1> DEFINE full == {i \in Recipients(forwarding) : QueueFull(i)}
           fine == Recipients(forwarding) \ full
           u == forwarding.update
<1>0. /\ TypeOK /\ IdsOK /\ HubOK
      /\ queue \in [Conns -> Seq(Update)] /\ seen \in [Conns -> Seq(Update)]
  BY DEF FeedInv, IInv, TypeOK
<1>1. /\ DOMAIN connections' = DOMAIN connections \ full
      /\ queue' = [d \in Conns |-> IF \E i \in fine : connections[i].task = d
                                   THEN Append(queue[d], u) ELSE queue[d]]
      /\ UNCHANGED <<conn_id, seen>> /\ forwarding # None
  BY DEF Forward, Unregister
<1>2. u \in Update
  BY <1>0, <1>1 DEF TypeOK, Notification
<1>3. Recipients(forwarding) \subseteq DOMAIN connections
  BY <1>0, <1>2 DEF Recipients, HubOK, HubIndexAgrees, Update
<1>4. (\E i \in fine : connections[i].task = c) <=> Picked(c) /\ conn_id[c] \notin full
  <2>1. \A i \in DOMAIN connections : connections[i].task = c => i = conn_id[c]
    BY <1>0 DEF HubOK, HubIndexAgrees
  <2>2. Registered(c) => connections[conn_id[c]].task = c
    <3> SUFFICES ASSUME Registered(c) PROVE connections[conn_id[c]].task = c
      OBVIOUS
    <3>1. /\ conn_id[c] \in DOMAIN connections /\ conn_id[c] # 0
          /\ connections[conn_id[c]].task \in Conns
          /\ conn_id[connections[conn_id[c]].task] = conn_id[c]
      BY <1>0 DEF Registered, TypeOK, ConnIds, HubOK, HubIndexAgrees
    <3> QED
      BY <1>0, <3>1 DEF IdsOK
  <2> QED
    BY <1>3, <2>1, <2>2 DEF Picked, Registered
<1>5. queue'[c] = IF Picked(c) /\ conn_id[c] \notin full THEN Append(queue[c], u) ELSE queue[c]
  BY <1>1, <1>4
<1>6. Registered(c)' <=> Registered(c) /\ conn_id[c] \notin full
  BY <1>1 DEF Registered
<1>7. conn_id[c] \in full => conn_id[c] \in Recipients(forwarding)
  OBVIOUS
<1> HIDE DEF full, u
<1>8. seen[c] \o Append(queue[c], u) = Append(seen[c] \o queue[c], u)
  BY <1>0, <1>2, AppendToStream
<1>9. Stream(c)' = seen[c] \o queue'[c] /\ Stream(c) = seen[c] \o queue[c]
  BY <1>1 DEF Stream
<1>10. Picked(c) <=> Registered(c) /\ conn_id[c] \in Recipients(forwarding)
  BY DEF Picked
<1>11. ASSUME ~Picked(c) PROVE Stream(c)' = Stream(c) /\ (Registered(c)' <=> Registered(c))
  BY <1>5, <1>6, <1>7, <1>9, <1>10, <1>11
<1>12. ASSUME Picked(c)
       PROVE  \/ Stream(c)' = Append(Stream(c), u) /\ Registered(c)'
              \/ Stream(c)' = Stream(c) /\ ~Registered(c)'
  BY <1>5, <1>6, <1>8, <1>9, <1>10, <1>12
<1> QED
  BY <1>11, <1>12 DEF u

\* What the forwarder's step is to the client c, and to everything in flight.
LEMMA ForwardSeen ==
    ASSUME FeedInv, TypeOK', Forward
    PROVE  /\ forwarding.update \in Update /\ forwarding \in Flying
           /\ Flying' = Flying \ {forwarding}
           /\ Due' = Due
           /\ UNCHANGED <<store, writing, conn_id>>
           /\ \A c \in Conns :
                 /\ ~Picked(c) => Streams'[c] = Streams[c] /\ Member'[c] = Member[c]
                 /\ Picked(c) => /\ Member[c] = "in"
                                 /\ \/ /\ Streams'[c] = Append(Streams[c], forwarding.update)
                                       /\ Member'[c] = "in"
                                    \/ Streams'[c] = Streams[c] /\ Member'[c] = "out"
<1> DEFINE u == forwarding.update
<1>0. TypeOK /\ EachOnce /\ forwarding \in Notification \cup {None}
  BY DEF FeedInv, IInv, TypeOK
<1>1. /\ forwarding # None
      /\ UNCHANGED <<writes, stored, writing, conn_id, pc, seen, downstream, kernel>>
  BY DEF Forward, storeVars
<1>2. u \in Update
  BY <1>0, <1>1 DEF Notification
<1>3. Flying' = Flying \ {forwarding} /\ forwarding \in Flying
  BY <1>0, ForwardFlies
<1>4. Due' = Due
  BY <1>0, <1>1, DueSame DEF Added, Sent, Reading, Elems
<1>5. \A c \in Conns :
         /\ ~Picked(c) => Streams'[c] = Streams[c] /\ Member'[c] = Member[c]
         /\ Picked(c) => /\ Member[c] = "in"
                         /\ \/ Streams'[c] = Append(Streams[c], u) /\ Member'[c] = "in"
                            \/ Streams'[c] = Streams[c] /\ Member'[c] = "out"
  <2>1. \A c \in Conns : /\ Streams[c] = Stream(c) /\ Streams'[c] = Stream(c)'
                         /\ Registered(c) \/ Registered(c)' => conn_id[c] # 0
    BY <1>0, <1>1 DEF Streams, Registered, TypeOK, ConnIds
  <2>2. \A c \in Conns :
           /\ Member[c] = IF conn_id[c] = 0 THEN "new" ELSE IF Registered(c) THEN "in" ELSE "out"
           /\ Member'[c] = IF conn_id[c] = 0 THEN "new" ELSE IF Registered(c)' THEN "in" ELSE "out"
    BY <1>1 DEF Member
  <2> QED
    BY <2>1, <2>2, ForwardExact DEF Picked
<1> QED
  BY <1>1, <1>2, <1>3, <1>4, <1>5 DEF store

LEMMA ForwardBroadcasts ==
    ASSUME FeedInv, TypeOK', Forward, forwarding.to = None
    PROVE  /\ forwarding = ToAll(forwarding.update)
           /\ forwarding.update \in Unsent
           /\ Unsent' = Unsent \ {forwarding.update}
           /\ Handing' = Handing
<1> DEFINE u == forwarding.update
<1>0. /\ TypeOK /\ EachOnce /\ forwarding \in Notification \cup {None} /\ forwarding # None
      /\ UNCHANGED <<writing, conn_id, kernel>>
  BY DEF FeedInv, IInv, TypeOK, Forward, storeVars
<1>1. Flying' = Flying \ {forwarding} /\ forwarding \in Flying
  BY ForwardSeen
<1>2. forwarding = [to |-> forwarding.to, update |-> u]
  BY <1>0 DEF Notification
<1>3. \A x : x \in Unsent' <=> \/ \E w \in Writers : writing'[w] = x /\ x # None
                               \/ ToAll(x) \in Flying'
  BY AbstractStateNext DEF UnsentIs, ToAll
<1>4. \A x : x \in Unsent <=> \/ \E w \in Writers : writing[w] = x /\ x # None
                              \/ ToAll(x) \in Flying
  BY <1>0, AbstractState DEF UnsentIs
<1> HIDE DEF u
<1>5. ToAll(u) = forwarding /\ \A x : ToAll(x) = forwarding => x = u
  BY <1>2 DEF ToAll
<1>6. u \in Unsent /\ Unsent' = Unsent \ {u}
  BY <1>0, <1>1, <1>3, <1>4, <1>5 DEF EachOnce
<1>7. Handing' = Handing
  <2>1. \A c \in Conns : conn_id[c] # 0 => conn_id[c] # None
    BY <1>0, NoneAssumption DEF TypeOK, ConnIds
  <2>2. \A c \in Conns : \A x : conn_id[c] # 0 => (Targeted(c, x)' <=> Targeted(c, x))
    BY <1>0, <1>1, <1>2, <2>1 DEF Targeted
  <2> QED
    BY <1>0, <2>2, HandingSame DEF Left
<1> QED
  BY <1>5, <1>6, <1>7 DEF u

LEMMA ForwardTargets ==
    ASSUME FeedInv, TypeOK', Forward, forwarding.to # None
    PROVE  /\ Unsent' = Unsent
           /\ \E c \in Conns :
                 /\ forwarding.update \in Handing[c]
                 /\ Handing' = [Handing EXCEPT ![c] = @ \ {forwarding.update}]
                 /\ \A d \in Conns : Picked(d) <=> d = c /\ Registered(c)
<1> DEFINE u == forwarding.update
<1>0. /\ TypeOK /\ IdsOK /\ ChannelsOK /\ EachOnce
      /\ forwarding \in Notification \cup {None} /\ forwarding # None
      /\ UNCHANGED <<writing, conn_id, kernel>>
  BY DEF FeedInv, IInv, TypeOK, Forward, storeVars
<1>1. Flying' = Flying \ {forwarding} /\ forwarding \in Flying
  BY ForwardSeen
<1>2. forwarding = [to |-> forwarding.to, update |-> u] /\ forwarding.to \in ConnIds
  BY <1>0 DEF Notification
<1> HIDE DEF u
<1>3. PICK c \in Conns : conn_id[c] = forwarding.to /\ conn_id[c] # 0
  BY <1>0, <1>2 DEF ChannelsOK, SentFor, ConnIds
<1>4. \A d \in Conns : conn_id[d] = conn_id[c] => d = c
  BY <1>0, <1>3 DEF IdsOK
<1>5. \A d \in Conns : \A x : [to |-> conn_id[d], update |-> x] = forwarding <=> d = c /\ x = u
  BY <1>2, <1>3, <1>4
<1>6. \A x : ToAll(x) # forwarding
  BY DEF ToAll
<1>7. Unsent' = Unsent
  BY <1>0, <1>1, <1>6, UnsentSame
<1>8. u \in Handing[c] /\ Handing' = [Handing EXCEPT ![c] = @ \ {u}]
  <2>1. /\ \A d \in Conns : \A x : Targeted(d, x)' <=> Targeted(d, x) /\ ~(d = c /\ x = u)
        /\ Targeted(c, u)
    BY <1>0, <1>1, <1>5 DEF Targeted
  <2>2. \A d \in Conns : \A x : Left(d, x)' = Left(d, x)
    BY <1>0 DEF Left
  <2>3. ~Left(c, u)
    BY <1>0, <2>1 DEF EachOnce, ToOne, Left, Targeted
  <2>4. u \in Handing[c] /\ Handing'[c] = Handing[c] \ {u}
    BY <1>0, <1>3, <2>1, <2>2, <2>3, HandingMembers
  <2>5. ASSUME NEW d \in Conns, d # c PROVE Handing'[d] = Handing[d]
    <3>1. \A x : (Targeted(d, x)' <=> Targeted(d, x)) /\ (Left(d, x)' <=> Left(d, x))
      BY <2>1, <2>2, <2>5
    <3>2. CASE conn_id[d] = 0
      BY <1>0, <3>2, HandingMembers
    <3>3. CASE conn_id[d] # 0
      BY <1>0, <3>1, <3>3, HandingMembers
    <3> QED
      BY <3>2, <3>3
  <2>6. Handing = [d \in Conns |-> Handing[d]] /\ Handing' = [d \in Conns |-> Handing'[d]]
    BY DEF Handing
  <2> QED
    BY <2>4, <2>5, <2>6
<1>9. \A d \in Conns : Picked(d) <=> d = c /\ Registered(c)
  <2>1. Recipients(forwarding) = {conn_id[c]} \cap DOMAIN connections
    BY <1>3 DEF Recipients
  <2> QED
    BY <1>4, <2>1 DEF Picked, Registered
<1> QED
  BY <1>7, <1>8, <1>9 DEF u

LEMMA ForwardPublishes ==
    ASSUME FeedInv, TypeOK', Forward
    PROVE  [Multicast!Next]_(Multicast!vars)
<1> DEFINE u == forwarding.update
<1>0. /\ TypeOK /\ IdsOK /\ HubOK /\ forwarding \in Notification \cup {None} /\ forwarding # None
  BY DEF FeedInv, IInv, TypeOK, Forward
<1>1. /\ u \in Update /\ Due' = Due /\ store' = store
      /\ \A c \in Conns :
            /\ ~Picked(c) => Streams'[c] = Streams[c] /\ Member'[c] = Member[c]
            /\ Picked(c) => /\ Member[c] = "in"
                            /\ \/ Streams'[c] = Append(Streams[c], u) /\ Member'[c] = "in"
                               \/ Streams'[c] = Streams[c] /\ Member'[c] = "out"
  BY ForwardSeen
<1>2. /\ Streams = [c \in Conns |-> Streams[c]] /\ Streams' = [c \in Conns |-> Streams'[c]]
      /\ Member = [c \in Conns |-> Member[c]] /\ Member' = [c \in Conns |-> Member'[c]]
  BY DEF Streams, Member
<1>3. \A c \in Conns : Member[c] = "in" <=> Registered(c)
  BY <1>0 DEF Member, Registered, TypeOK, ConnIds
<1>4. CASE forwarding.to = None
  <2>1. u \in Unsent /\ Unsent' = Unsent \ {u} /\ Handing' = Handing
    BY <1>4, ForwardBroadcasts
  <2>2. \A c \in Conns : Picked(c) <=> Member[c] = "in" /\ u.bucket \in Allowed(c)
    <3>1. Recipients(forwarding) = {i \in DOMAIN connections : u.bucket \in connections[i].buckets}
      BY <1>0, <1>1, <1>4 DEF Recipients, HubOK, HubIndexAgrees, Update
    <3>2. ASSUME NEW c \in Conns, Registered(c) PROVE connections[conn_id[c]].buckets = Allowed(c)
      <4>1. /\ conn_id[c] \in DOMAIN connections /\ conn_id[c] # 0
            /\ connections[conn_id[c]].task \in Conns
            /\ conn_id[connections[conn_id[c]].task] = conn_id[c]
            /\ connections[conn_id[c]].buckets = Allowed(connections[conn_id[c]].task)
        BY <1>0, <3>2 DEF Registered, TypeOK, ConnIds, HubOK, HubIndexAgrees
      <4>2. connections[conn_id[c]].task = c
        BY <1>0, <4>1 DEF IdsOK
      <4> QED
        BY <4>1, <4>2
    <3> QED
      BY <1>3, <3>1, <3>2 DEF Picked, Registered
  <2> DEFINE D == {c \in Conns : Picked(c) /\ Member'[c] = "out"}
  <2>3. D \in SUBSET Conns /\ \A c \in D : Member[c] = "in" /\ u.bucket \in Allowed(c)
    BY <2>2
  <2>4. \A c \in Conns : /\ c \in D => Member'[c] = "out" /\ Streams'[c] = Streams[c]
                         /\ c \notin D => Member'[c] = Member[c]
                         /\ c \notin D /\ Picked(c) => Streams'[c] = Append(Streams[c], u)
                         /\ ~Picked(c) => Streams'[c] = Streams[c]
    BY <1>1
  <2> HIDE DEF D, u
  <2>5. Member' = [c \in Conns |-> IF c \in D THEN "out" ELSE Member[c]]
    BY <1>2, <2>4
  <2>6. Streams' = [c \in Conns |->
           IF c \notin D /\ Member[c] = "in" /\ u.bucket \in Allowed(c)
           THEN Append(Streams[c], u) ELSE Streams[c]]
    BY <1>2, <2>2, <2>4
  <2> QED
    BY <1>1, <2>1, <2>3, <2>5, <2>6, Publishes
<1>5. CASE forwarding.to # None
  <2>1. PICK c \in Conns :
           /\ u \in Handing[c] /\ Handing' = [Handing EXCEPT ![c] = @ \ {u}]
           /\ \A d \in Conns : Picked(d) <=> d = c /\ Registered(c)
    BY <1>5, ForwardTargets
  <2>2. Unsent' = Unsent
    BY <1>5, ForwardTargets
  <2> HIDE DEF u
  <2>3. CASE ~Registered(c)
    <3>1. Member' = Member /\ Streams' = Streams
      BY <1>1, <1>2, <2>1, <2>3
    <3>2. {u} \in SUBSET Handing[c]
      BY <2>1
    <3> QED
      BY <1>1, <2>1, <2>2, <3>1, <3>2, GivesUp
  <2>4. CASE Registered(c)
    <3>1. /\ Member[c] = "in"
          /\ \/ Streams'[c] = Append(Streams[c], u) /\ Member'[c] = Member[c]
             \/ Streams'[c] = Streams[c] /\ Member'[c] = "out"
          /\ \A d \in Conns \ {c} : Streams'[d] = Streams[d] /\ Member'[d] = Member[d]
      BY <1>1, <2>1, <2>4
    <3>2. \/ Streams' = [Streams EXCEPT ![c] = Append(@, u)] /\ UNCHANGED Member
          \/ Member' = [Member EXCEPT ![c] = "out"] /\ UNCHANGED Streams
      BY <1>2, <3>1
    <3> QED
      BY <1>1, <2>1, <2>2, <3>1, <3>2, Hands
  <2> QED
    BY <2>3, <2>4
<1> QED
  BY <1>4, <1>5

LEMMA InitImplements == Init => Multicast!Init
<1> SUFFICES ASSUME Init PROVE Multicast!Init
  OBVIOUS
<1>1. TypeOK
  BY InitIInv DEF IInv
<1>2. /\ \A w \in Writers : writing[w] = None
      /\ Flying = {} /\ Elems(downstream) = {} /\ kernel.pc = "idle"
      /\ \A c \in Conns : conn_id[c] = 0 /\ pc[c] = "handshake"
                          /\ seen[c] = << >> /\ queue[c] = << >>
      /\ writes = 0 /\ stored = [rb \in Rooms \X BucketIds |-> None]
  BY DEF Init, Elems, Flying, Idle, Slots
<1>3. Unsent = {}
  BY <1>1, <1>2, AbstractState DEF UnsentIs
<1>4. Due = {}
  BY <1>1, <1>2, AbstractState DEF DueIs, Added, Sent, Reading, Due
<1>5. Member = [c \in Conns |-> "new"] /\ Handing = [c \in Conns |-> {}]
  BY <1>2 DEF Member, Handing
<1>6. Streams = [c \in Conns |-> << >>]
  <2>1. \A c \in Conns : Stream(c) = << >>
    BY <1>2 DEF Stream
  <2> QED
    BY <2>1 DEF Streams
<1> QED
  BY <1>2, <1>3, <1>4, <1>5, <1>6 DEF Multicast!Init, Unsent, Member, Due, Handing, Streams

LEMMA StepImplements ==
    ASSUME FeedInv, [Next]_vars
    PROVE  [Multicast!Next]_(Multicast!vars)
<1>0. TypeOK /\ TypeOK'
  BY NextKeepsIInv DEF FeedInv, IInv
<1>1. ASSUME NEW c \in Conns, Task(c) PROVE [Multicast!Next]_(Multicast!vars)
  <2>1. CASE Register(c) /\ HasRoomFor(c)
    BY <1>0, <2>1, RegisterJoins
  <2>2. CASE Announce(c)
    BY <1>0, <2>2, AnnounceSynchronises
  <2>3. CASE Cleanup(c)
    BY <1>0, <2>3, CleanupLeaves
  <2>4. CASE WriteSocket(c)
    BY <1>0, <2>4, WriteSocketQuiet
  <2>5. CASE \/ Rejected(c) \/ LockHub(c) \/ SendCommand(c) \/ Leave(c)
             \/ (Register(c) /\ ~HasRoomFor(c))
    BY <1>0, <2>5, OthersQuiet
  <2> QED
    BY <1>1, <2>1, <2>2, <2>3, <2>4, <2>5 DEF Task
<1>2. CASE Forwarder
  BY <1>0, <1>2, TakeNotificationQuiet, ForwardPublishes DEF Forwarder
<1>3. CASE Processor
  BY <1>0, <1>3, TakeMessageQuiet, LookUpRoomSynchronises, CollectSynchronises, TargetGivesUp
  DEF Processor
<1>4. ASSUME NEW w \in Writers, Broadcast(w) PROVE [Multicast!Next]_(Multicast!vars)
  BY <1>0, <1>4, BroadcastLoses
<1>5. CASE Environment
  BY <1>0, <1>5, OthersQuiet DEF Environment
<1>6. CASE Store
  BY <1>0, <1>6, StoreSteps
<1>7. CASE UNCHANGED vars
  <2>1. UNCHANGED <<writes, stored, writing, connections, conn_id, pc, queue, seen,
                    notifications, forwarding, downstream, kernel>>
    BY <1>7 DEF vars
  <2>2. Flying' = Flying /\ Streams' = Streams /\ Elems(downstream') = Elems(downstream)
    BY <2>1, SameFlying, SameStreams
  <2> QED
    BY <1>0, <2>1, <2>2, Quiet DEF store
<1> QED
  BY <1>1, <1>2, <1>3, <1>4, <1>5, <1>6, <1>7 DEF Next

(***************************************************************************)
(* The websocket side of the server (connection.rs, hub.rs, the message    *)
(* processor of kernel.rs) implements the multicast of module Feed,        *)
(* whatever rooms are loaded, unloaded or deleted: a written value, even   *)
(* one set_fragment refused, is published once to all its subscribers or   *)
(* lost for all, a subscriber that does not get it is dropped with that    *)
(* step, and one synchronisation per client hands over each value it read, *)
(* restored ones included, at most once.                                   *)
(***************************************************************************)
THEOREM ImplementsFeed == Spec => FeedSpec
<1>1. Init => Multicast!Init
  BY InitImplements
<1>2. FeedInv /\ [Next]_vars => [Multicast!Next]_(Multicast!vars)
  BY StepImplements
<1> QED
  BY <1>1, <1>2, FeedInvAlways, PTL DEF Spec, FeedSpec, Multicast!Spec
-----------------------------------------------------------------------------
(* The order of a client's updates (StepsBackOnce), for one writer.  What   *)
(* it takes: notifications keep the order of the writes they broadcast, a   *)
(* client's initial sync sends each key once, and no stream is ahead of     *)
(* what is still to be broadcast.                                           *)
Key(u) == <<u.room, u.bucket>>

\* Of two messages on the same key, a later broadcast is not an older value.
Precedes(n, m) ==
    m.to = None /\ Key(n.update) = Key(m.update) =>
        /\ n.update.value <= m.update.value
        /\ n.to = None => n.update.value # m.update.value

InWriteOrder ==
    /\ \A i, j \in DOMAIN notifications :
          i < j => Precedes(notifications[i], notifications[j])
    /\ forwarding # None =>
          \A n \in Elems(notifications) : Precedes(forwarding, n)
    /\ \A w \in Writers : writing[w] # None =>
          /\ writing[w].value = writes
          /\ \A n \in Flying : Precedes(n, ToAll(writing[w]))

\* Nobody holds a value that has not been written yet.
NoneAhead ==
    /\ \A s \in Slots : stored[s] # None => stored[s] <= writes
    /\ \A u \in Unsent : u.value <= writes
    /\ \A c \in Conns : \A u \in Handing[c] \cup Elems(Streams[c]) : u.value <= writes

\* An initial sync sends each key once, and starts once.
OneTarget ==
    \A c \in Conns :
       /\ c \in Due => Handing[c] = {}
       /\ \A u, v \in Handing[c] : Key(u) = Key(v) => u = v

\* Keys of which a client may still be sent the value its initial sync read.
Syncing(c) ==
    {k \in Rooms \X BucketIds : c \in Due \/ \E u \in Handing[c] : Key(u) = k}

\* A stream s, the broadcasts L still to come and the keys K still to be synchronised.
StreamOK(s, L, K) ==
    /\ \A i, j \in DOMAIN s :
          NotNewer(s, i) /\ NotNewer(s, j) /\ Key(s[i]) = Key(s[j]) => i = j
    /\ \A i \in DOMAIN s, u \in L : Key(s[i]) = Key(u) => s[i].value <= u.value
    /\ \A i \in DOMAIN s, u \in L : s[i] = u =>
          /\ Key(u) \notin K
          /\ \A j \in DOMAIN s : NotNewer(s, j) => Key(s[j]) # Key(u)
    /\ \A j \in DOMAIN s : NotNewer(s, j) => Key(s[j]) \notin K

Ordered ==
    \A c \in Conns :
       /\ Member[c] = "new" => Streams[c] = << >>
       /\ StreamOK(Streams[c], Unsent, Syncing(c))

OrderInv == NoneAhead /\ OneTarget /\ (OneWriter => InWriteOrder /\ Ordered)

LEMMA AppendNotNewer ==
    ASSUME NEW s \in Seq(Update), NEW u \in Update
    PROVE  /\ Len(s) \in Nat /\ DOMAIN s = 1..Len(s)
           /\ DOMAIN Append(s, u) = 1..(Len(s) + 1)
           /\ \A i \in 1..Len(s) : Append(s, u)[i] = s[i] /\ s[i] \in Update
           /\ Append(s, u)[Len(s) + 1] = u
           /\ \A j \in 1..Len(s) : NotNewer(Append(s, u), j) <=> NotNewer(s, j)
           /\ NotNewer(Append(s, u), Len(s) + 1) <=>
                 \E i \in 1..Len(s) : Key(s[i]) = Key(u) /\ s[i].value >= u.value
<1>1. /\ Len(s) \in Nat /\ DOMAIN s = 1..Len(s) /\ DOMAIN Append(s, u) = 1..(Len(s) + 1)
      /\ \A i \in 1..Len(s) : Append(s, u)[i] = s[i] /\ s[i] \in Update
      /\ Append(s, u)[Len(s) + 1] = u
  OBVIOUS
<1>2. ASSUME NEW j \in 1..Len(s) PROVE NotNewer(Append(s, u), j) <=> NotNewer(s, j)
  <2>1. \A i \in 1..(j - 1) : i \in 1..Len(s)
    BY <1>1
  <2> QED
    BY <1>1, <2>1 DEF NotNewer
<1>3. NotNewer(Append(s, u), Len(s) + 1) <=>
         \E i \in 1..Len(s) : Key(s[i]) = Key(u) /\ s[i].value >= u.value
  <2>1. 1..((Len(s) + 1) - 1) = 1..Len(s)
    BY <1>1
  <2> QED
    BY <1>1, <2>1 DEF NotNewer, Key
<1> QED
  BY <1>1, <1>2, <1>3

LEMMA StreamFewer ==
    ASSUME NEW s, NEW L, NEW K, NEW M \in SUBSET L, NEW J \in SUBSET K, StreamOK(s, L, K)
    PROVE  StreamOK(s, M, J)
  BY DEF StreamOK

\* A new value is written: it is newer than all the client was given.
LEMMA StreamAwaits ==
    ASSUME NEW s \in Seq(Update), NEW L, NEW K, NEW u \in Update, StreamOK(s, L, K),
           \A e \in Elems(s) : Key(e) = Key(u) => e.value < u.value
    PROVE  StreamOK(s, L \cup {u}, K)
<1>1. \A i \in DOMAIN s : s[i] \in Update /\ s[i] \in Elems(s)
  BY DEF Elems
<1>2. \A i \in DOMAIN s : /\ Key(s[i]) = Key(u) => s[i].value <= u.value
                          /\ s[i] # u
  BY <1>1 DEF Update
<1> QED
  BY <1>2 DEF StreamOK

\* The next broadcast is handed over; what is to come on its key is newer.
LEMMA StreamPublishes ==
    ASSUME NEW s \in Seq(Update), NEW L \in SUBSET Update, NEW K, NEW u \in L,
           StreamOK(s, L, K),
           \A v \in L \ {u} : Key(v) = Key(u) => u.value < v.value
    PROVE  StreamOK(Append(s, u), L \ {u}, K)
<1> DEFINE t == Append(s, u)
           n == Len(s)
           Ahead == {i \in 1..n : Key(s[i]) = Key(u) /\ s[i].value >= u.value}
<1>1. /\ n \in Nat /\ DOMAIN s = 1..n /\ DOMAIN t = 1..(n + 1) /\ t[n + 1] = u
      /\ \A i \in 1..n : t[i] = s[i] /\ s[i] \in Update
      /\ \A j \in 1..n : NotNewer(t, j) <=> NotNewer(s, j)
      /\ NotNewer(t, n + 1) <=> Ahead # {}
      /\ \A i \in 1..(n + 1) : i \in 1..n \/ i = n + 1
  BY AppendNotNewer
<1>2. \A v \in L : v.value \in Nat
  BY DEF Update
<1>3. \A i \in 1..n : s[i].value \in Nat
  BY <1>1 DEF Update
<1>4. \A i \in Ahead : s[i] = u
  <2> SUFFICES ASSUME NEW i \in Ahead PROVE s[i] = u
    OBVIOUS
  <2>1. s[i].value <= u.value /\ s[i] \in Update /\ u \in Update
    BY <1>1 DEF StreamOK
  <2>2. s[i].value = u.value /\ Key(s[i]) = Key(u)
    BY <1>2, <1>3, <2>1
  <2> QED
    BY <2>1, <2>2 DEF Key, Update
<1>5. Ahead # {} => /\ Key(u) \notin K
                    /\ \A j \in 1..n : NotNewer(s, j) => Key(s[j]) # Key(u)
  BY <1>1, <1>4 DEF StreamOK
<1> HIDE DEF t, n, Ahead
<1>6. ASSUME NEW i \in DOMAIN t, NEW j \in DOMAIN t,
             NotNewer(t, i), NotNewer(t, j), Key(t[i]) = Key(t[j])
      PROVE  i = j
  BY <1>1, <1>5, <1>6 DEF StreamOK
<1>7. ASSUME NEW i \in DOMAIN t, NEW v \in L \ {u}, Key(t[i]) = Key(v)
      PROVE  t[i].value <= v.value
  BY <1>1, <1>2, <1>7 DEF StreamOK
<1>8. ASSUME NEW i \in DOMAIN t, NEW v \in L \ {u}, t[i] = v
      PROVE  Key(v) \notin K /\ \A j \in DOMAIN t : NotNewer(t, j) => Key(t[j]) # Key(v)
  <2>1. i \in 1..n /\ s[i] = v
    BY <1>1, <1>8
  <2>2. Key(v) # Key(u)
    <3> SUFFICES ASSUME Key(v) = Key(u) PROVE FALSE
      OBVIOUS
    <3>1. s[i].value <= u.value /\ u.value < v.value
      BY <1>1, <2>1 DEF StreamOK
    <3> QED
      BY <1>2, <2>1, <3>1
  <2>3. Key(v) \notin K /\ \A j \in 1..n : NotNewer(s, j) => Key(s[j]) # Key(v)
    BY <1>1, <2>1 DEF StreamOK
  <2> QED
    BY <1>1, <2>2, <2>3
<1>9. ASSUME NEW j \in DOMAIN t, NotNewer(t, j) PROVE Key(t[j]) \notin K
  BY <1>1, <1>5, <1>9 DEF StreamOK
<1>10. StreamOK(t, L \ {u}, K)
  BY <1>6, <1>7, <1>8, <1>9 DEF StreamOK
<1> QED
  BY <1>10 DEF t

\* The value the initial sync read is handed over, once for its key.
LEMMA StreamSyncs ==
    ASSUME NEW s \in Seq(Update), NEW L \in SUBSET Update, NEW K, NEW u \in Update,
           StreamOK(s, L, K), Key(u) \in K,
           \A v \in L : Key(v) = Key(u) => u.value <= v.value
    PROVE  StreamOK(Append(s, u), L, K \ {Key(u)})
<1> DEFINE t == Append(s, u)
           n == Len(s)
           Ahead == {i \in 1..n : Key(s[i]) = Key(u) /\ s[i].value >= u.value}
<1>1. /\ n \in Nat /\ DOMAIN s = 1..n /\ DOMAIN t = 1..(n + 1) /\ t[n + 1] = u
      /\ \A i \in 1..n : t[i] = s[i] /\ s[i] \in Update
      /\ \A j \in 1..n : NotNewer(t, j) <=> NotNewer(s, j)
      /\ NotNewer(t, n + 1) <=> Ahead # {}
      /\ \A i \in 1..(n + 1) : i \in 1..n \/ i = n + 1
  BY AppendNotNewer
<1>2. /\ \A v \in L : v.value \in Nat
      /\ \A i \in 1..n : s[i].value \in Nat
      /\ u.value \in Nat
  BY <1>1 DEF Update
<1>3. \A j \in 1..n : NotNewer(s, j) => Key(s[j]) # Key(u)
  BY <1>1 DEF StreamOK
<1>4. ASSUME NEW i \in 1..n, NEW v \in L, Key(s[i]) = Key(v), Key(v) = Key(u)
      PROVE  s[i].value < v.value
  <2>1. s[i].value <= v.value /\ s[i] # v
    BY <1>1, <1>4 DEF StreamOK
  <2>2. s[i] \in Update /\ v \in Update
    BY <1>1
  <2>3. s[i].value # v.value
    BY <1>4, <2>1, <2>2 DEF Key, Update
  <2> QED
    BY <1>2, <2>1, <2>3
<1>5. \A i \in Ahead : Key(s[i]) = Key(u) /\ s[i].value >= u.value /\ i \in 1..n
  OBVIOUS
<1> HIDE DEF t, n, Ahead
<1>6. ASSUME NEW i \in DOMAIN t, NEW j \in DOMAIN t,
             NotNewer(t, i), NotNewer(t, j), Key(t[i]) = Key(t[j])
      PROVE  i = j
  BY <1>1, <1>3, <1>6 DEF StreamOK
<1>7. ASSUME NEW i \in DOMAIN t, NEW v \in L, Key(t[i]) = Key(v)
      PROVE  t[i].value <= v.value
  BY <1>1, <1>2, <1>7 DEF StreamOK
<1>8. ASSUME NEW i \in DOMAIN t, NEW v \in L, t[i] = v
      PROVE  /\ Key(v) \notin K \ {Key(u)}
             /\ \A j \in DOMAIN t : NotNewer(t, j) => Key(t[j]) # Key(v)
  <2>1. CASE Key(v) # Key(u)
    <3>1. i \in 1..n /\ s[i] = v
      BY <1>1, <1>8, <2>1
    <3>2. Key(v) \notin K /\ \A j \in 1..n : NotNewer(s, j) => Key(s[j]) # Key(v)
      BY <1>1, <3>1 DEF StreamOK
    <3> QED
      BY <1>1, <2>1, <3>2
  <2>2. CASE Key(v) = Key(u)
    <3>1. i = n + 1 /\ v = u
      <4>1. i \in 1..n => FALSE
        BY <1>1, <1>2, <1>4, <1>8, <2>2
      <4> QED
        BY <1>1, <1>8, <4>1
    <3>2. Ahead = {}
      <4> SUFFICES ASSUME NEW h \in Ahead PROVE FALSE
        OBVIOUS
      <4>1. h \in 1..n /\ s[h].value < v.value /\ s[h].value >= u.value
        BY <1>4, <1>5, <2>2
      <4> QED
        BY <1>2, <3>1, <4>1
    <3> QED
      BY <1>1, <1>3, <2>2, <3>2
  <2> QED
    BY <2>1, <2>2
<1>9. ASSUME NEW j \in DOMAIN t, NotNewer(t, j) PROVE Key(t[j]) \notin K \ {Key(u)}
  BY <1>1, <1>9 DEF StreamOK
<1>10. StreamOK(t, L, K \ {Key(u)})
  BY <1>6, <1>7, <1>8, <1>9 DEF StreamOK
<1> QED
  BY <1>10 DEF t

-----------------------------------------------------------------------------
(* What a step of the multicast may change, as far as the order goes.       *)
LEMMA FeedTypes ==
    TypeOK => /\ Unsent \subseteq Update
              /\ \A c \in Conns : Handing[c] \subseteq Update /\ Streams[c] \in Seq(Update)
              /\ \A u \in Update : Key(u) \in Rooms \X BucketIds /\ u.value \in Nat
<1> SUFFICES ASSUME TypeOK
             PROVE  /\ Unsent \subseteq Update
                    /\ \A c \in Conns : Handing[c] \subseteq Update /\ Streams[c] \in Seq(Update)
                    /\ \A u \in Update : Key(u) \in Rooms \X BucketIds /\ u.value \in Nat
  OBVIOUS
<1>1. UnsentIs /\ HandingIs /\ Flying \subseteq Notification
  BY AbstractState, FlyingType
<1>2. Unsent \subseteq Update
  <2> SUFFICES ASSUME NEW u \in Unsent PROVE u \in Update
    OBVIOUS
  <2>1. (\E w \in Writers : writing[w] = u /\ u # None) \/ ToAll(u) \in Flying
    BY <1>1 DEF UnsentIs
  <2>2. ToAll(u) \in Notification => u \in Update
    BY DEF ToAll, Notification
  <2> QED
    BY <1>1, <2>1, <2>2 DEF TypeOK
<1>3. \A c \in Conns : Handing[c] \subseteq Update
  <2> SUFFICES ASSUME NEW c \in Conns, NEW u \in Handing[c] PROVE u \in Update
    OBVIOUS
  <2>1. [to |-> conn_id[c], update |-> u] \in Flying \/ u \in kernel.updates
    BY <1>1 DEF HandingIs
  <2>2. [to |-> conn_id[c], update |-> u] \in Notification => u \in Update
    BY DEF Notification
  <2> QED
    BY <1>1, <2>1, <2>2 DEF TypeOK
<1>4. \A c \in Conns : Streams[c] \in Seq(Update)
  <2>1. \A c \in Conns : seen[c] \in Seq(Update) /\ queue[c] \in Seq(Update)
    BY DEF TypeOK
  <2> QED
    BY <2>1, ConcatElems DEF Streams, Stream
<1> QED
  BY <1>2, <1>3, <1>4 DEF Key, Update

LEMMA FeedTypesNext ==
    ASSUME TypeOK'
    PROVE  Unsent' \subseteq Update /\ \A c \in Conns : Handing'[c] \subseteq Update
<1>1. (TypeOK => /\ Unsent \subseteq Update
                 /\ \A c \in Conns : Handing[c] \subseteq Update /\ Streams[c] \in Seq(Update)
                 /\ \A u \in Update : Key(u) \in Rooms \X BucketIds /\ u.value \in Nat)'
  BY FeedTypes, PTL
<1> QED
  BY <1>1

LEMMA FeedSteps ==
    ASSUME [Multicast!Next]_(Multicast!vars)
    PROVE  \/ \E r \in Rooms, b \in BucketIds :
                 /\ writes' = writes + 1
                 /\ \/ \E v \in {writes + 1, None} :
                          stored' = [stored EXCEPT ![<<r, b>>] = v]
                    \/ UNCHANGED stored
                 /\ Unsent' = Unsent \cup {[room |-> r, bucket |-> b, value |-> writes + 1]}
                 /\ UNCHANGED <<Member, Due, Handing, Streams>>
           \/ /\ writes' = writes
              /\ \A s \in Slots : stored'[s] \in {stored[s], 0, None}
              /\ UNCHANGED <<Unsent, Member, Due, Handing, Streams>>
           \/ \E c \in Conns :
                 /\ Member[c] = "new" /\ Member' = [Member EXCEPT ![c] = "in"]
                 /\ Due' = Due \cup {c}
                 /\ UNCHANGED <<store, Unsent, Handing, Streams>>
           \/ \E c \in Conns :
                 /\ c \in Due /\ Due' = Due \ {c}
                 /\ Handing' = Handing \/ Handing' = [Handing EXCEPT ![c] = Stored(c)]
                 /\ UNCHANGED <<store, Unsent, Member, Streams>>
           \/ /\ UNCHANGED <<store, Due>>
              /\ Unsent' \subseteq Unsent
              /\ \A c \in Conns :
                    /\ Handing'[c] \subseteq Handing[c]
                    /\ \/ Streams'[c] = Streams[c]
                       \/ \E u \in Unsent \cup Handing[c] : Streams'[c] = Append(Streams[c], u)
                    /\ Member'[c] = "new" => Member[c] = "new" /\ Streams'[c] = Streams[c]
<1> DEFINE Rest == /\ UNCHANGED <<store, Due>>
                   /\ Unsent' \subseteq Unsent
                   /\ \A c \in Conns :
                         /\ Handing'[c] \subseteq Handing[c]
                         /\ \/ Streams'[c] = Streams[c]
                            \/ \E u \in Unsent \cup Handing[c] : Streams'[c] = Append(Streams[c], u)
                         /\ Member'[c] = "new" => Member[c] = "new" /\ Streams'[c] = Streams[c]
<1> USE DEF Multicast!store, store
<1>0. /\ Member = [c \in Conns |-> Member[c]] /\ Handing = [c \in Conns |-> Handing[c]]
      /\ Streams = [c \in Conns |-> Streams[c]]
  BY DEF Member, Handing, Streams
<1>1. ASSUME NEW r \in Rooms, NEW b \in BucketIds, Multicast!Write(r, b)
      PROVE  /\ writes' = writes + 1
             /\ \/ \E v \in {writes + 1, None} : stored' = [stored EXCEPT ![<<r, b>>] = v]
                \/ UNCHANGED stored
             /\ Unsent' = Unsent \cup {[room |-> r, bucket |-> b, value |-> writes + 1]}
             /\ UNCHANGED <<Member, Due, Handing, Streams>>
  BY <1>1 DEF Multicast!Write, Multicast!UpdateOf, Unsent, Member, Due, Handing, Streams
<1>2. ASSUME NEW u, Multicast!Lose(u) PROVE Rest
  <2>1. Unsent' = Unsent \ {u} /\ UNCHANGED <<store, Member, Due, Handing, Streams>>
    BY <1>2 DEF Multicast!Lose, Unsent, Member, Due, Handing, Streams
  <2> QED
    BY <2>1
<1>3. ASSUME NEW u \in Unsent, Multicast!Publish(u) PROVE Rest
  <2> DEFINE S == {c \in Conns : Member[c] = "in" /\ u.bucket \in [d \in Conns |-> Allowed(d)][c]}
  <2>1. /\ Unsent' = Unsent \ {u}
        /\ \E D \in SUBSET S :
              /\ Member' = [c \in Conns |-> IF c \in D THEN "out" ELSE Member[c]]
              /\ Streams' = [c \in Conns |->
                    IF c \in S \ D THEN Append(Streams[c], u) ELSE Streams[c]]
        /\ UNCHANGED <<<<writes, stored>>, Due, Handing>>
    BY <1>3 DEF Multicast!Publish, Multicast!Subscribers, Unsent, Member, Due, Handing, Streams
  <2>2. \A c \in S : Member[c] = "in"
    OBVIOUS
  <2> HIDE DEF S
  <2>3. PICK D \in SUBSET S :
              /\ Member' = [c \in Conns |-> IF c \in D THEN "out" ELSE Member[c]]
              /\ Streams' = [c \in Conns |->
                    IF c \in S \ D THEN Append(Streams[c], u) ELSE Streams[c]]
    BY <2>1
  <2>4. ASSUME NEW c \in Conns
        PROVE  /\ Streams'[c] = Streams[c] \/ Streams'[c] = Append(Streams[c], u)
               /\ Member'[c] = "new" => Member[c] = "new" /\ Streams'[c] = Streams[c]
    BY <2>2, <2>3
  <2> QED
    BY <2>1, <2>4
<1>4. ASSUME NEW c \in Conns, Multicast!Join(c)
      PROVE  /\ Member[c] = "new" /\ Member' = [Member EXCEPT ![c] = "in"]
             /\ Due' = Due \cup {c}
             /\ UNCHANGED <<store, Unsent, Handing, Streams>>
  BY <1>4 DEF Multicast!Join, Unsent, Member, Due, Handing, Streams
<1>5. ASSUME NEW c \in Conns, Multicast!Leave(c) PROVE Rest
  <2>1. Member' = [Member EXCEPT ![c] = "out"]
        /\ UNCHANGED <<store, Unsent, Due, Handing, Streams>>
    BY <1>5 DEF Multicast!Leave, Unsent, Member, Due, Handing, Streams
  <2>2. \A d \in Conns : Member'[d] = "new" => Member[d] = "new"
    BY <1>0, <2>1
  <2> QED
    BY <2>1, <2>2
<1>6. ASSUME NEW c \in Conns, Multicast!Synchronise(c)
      PROVE  /\ c \in Due /\ Due' = Due \ {c}
             /\ Handing' = Handing \/ Handing' = [Handing EXCEPT ![c] = Stored(c)]
             /\ UNCHANGED <<store, Unsent, Member, Streams>>
  <2>1. [e \in Conns |-> Allowed(e)][c] = Allowed(c)
    OBVIOUS
  <2> DEFINE S(A) == {[room |-> ClaimedRoom[c], bucket |-> b,
                       value |-> stored[<<ClaimedRoom[c], b>>]] :
                         b \in {d \in A : stored[<<ClaimedRoom[c], d>>] # None}}
  <2>2. /\ c \in Due /\ Due' = Due \ {c}
        /\ Handing' \in {Handing, [Handing EXCEPT ![c] = S([e \in Conns |-> Allowed(e)][c])]}
        /\ UNCHANGED <<store, Unsent, Member, Streams>>
    BY <1>6 DEF Multicast!Synchronise, Multicast!StoredFor, Multicast!UpdateOf,
                Unsent, Member, Due, Handing, Streams
  <2>3. S(Allowed(c)) = Stored(c)
    BY DEF Stored
  <2> HIDE DEF S
  <2> QED
    BY <2>1, <2>2, <2>3
<1>7. ASSUME NEW c \in Conns, NEW u \in Handing[c], Multicast!Hand(c, u) PROVE Rest
  <2>1. /\ Member[c] = "in"
        /\ Handing' = [Handing EXCEPT ![c] = @ \ {u}]
        /\ \/ Streams' = [Streams EXCEPT ![c] = Append(@, u)] /\ UNCHANGED Member
           \/ Member' = [Member EXCEPT ![c] = "out"] /\ UNCHANGED Streams
        /\ UNCHANGED <<store, Unsent, Due>>
    BY <1>7 DEF Multicast!Hand, Unsent, Member, Due, Handing, Streams
  <2>2. \A d \in Conns : /\ Handing'[d] \subseteq Handing[d]
                         /\ \/ Streams'[d] = Streams[d]
                            \/ d = c /\ Streams'[d] = Append(Streams[d], u)
                         /\ Member'[d] = "new" => Member[d] = "new" /\ Streams'[d] = Streams[d]
    BY <1>0, <2>1
  <2> QED
    BY <2>1, <2>2
<1>8. ASSUME NEW c \in Conns, NEW S, Multicast!GiveUp(c, S) PROVE Rest
  <2>1. Handing' = [Handing EXCEPT ![c] = @ \ S]
        /\ UNCHANGED <<store, Unsent, Member, Due, Streams>>
    BY <1>8 DEF Multicast!GiveUp, Unsent, Member, Due, Handing, Streams
  <2>2. \A d \in Conns : Handing'[d] \subseteq Handing[d]
    BY <1>0, <2>1
  <2> QED
    BY <2>1, <2>2
<1>9. CASE UNCHANGED Multicast!vars
  <2>1. UNCHANGED <<store, Unsent, Member, Due, Handing, Streams>>
    BY <1>9 DEF Multicast!vars, Unsent, Member, Due, Handing, Streams
  <2>2. Rest
    BY <2>1
  <2> QED
    BY <2>2
<1>10. CASE Multicast!Replace
  <2>1. /\ writes' = writes
        /\ \A s \in Slots : stored'[s] \in {stored[s], 0, None}
        /\ UNCHANGED <<Unsent, Member, Due, Handing, Streams>>
    BY <1>10 DEF Multicast!Replace, Slots, Unsent, Member, Due, Handing, Streams
  <2> HIDE DEF Rest
  <2> QED
    BY <2>1
<1>11. CASE Multicast!Next
  <2>1. \/ \E r \in Rooms, b \in BucketIds : Multicast!Write(r, b)
        \/ Multicast!Replace
        \/ \E u \in Unsent : Multicast!Lose(u) \/ Multicast!Publish(u)
        \/ \E c \in Conns :
              \/ Multicast!Join(c) \/ Multicast!Leave(c) \/ Multicast!Synchronise(c)
              \/ \E u \in Handing[c] : Multicast!Hand(c, u)
              \/ \E S \in SUBSET Handing[c] : Multicast!GiveUp(c, S)
    BY <1>11, Zenon DEF Multicast!Next, Unsent, Handing
  <2> HIDE DEF Rest
  <2>2. \/ Rest
        \/ Multicast!Replace
        \/ \E r \in Rooms, b \in BucketIds : Multicast!Write(r, b)
        \/ \E c \in Conns : Multicast!Join(c) \/ Multicast!Synchronise(c)
    BY <1>2, <1>3, <1>5, <1>7, <1>8, <2>1
  <2>3. CASE Rest
    BY <2>3 DEF Rest
  <2>4. CASE \E r \in Rooms, b \in BucketIds : Multicast!Write(r, b)
    BY <1>1, <2>4, Zenon
  <2>5. ASSUME NEW c \in Conns, Multicast!Join(c)
        PROVE  \E d \in Conns :
                 /\ Member[d] = "new" /\ Member' = [Member EXCEPT ![d] = "in"]
                 /\ Due' = Due \cup {d}
                 /\ UNCHANGED <<store, Unsent, Handing, Streams>>
    BY <1>4, <2>5, Zenon
  <2>6. ASSUME NEW c \in Conns, Multicast!Synchronise(c)
        PROVE  \E d \in Conns :
                 /\ d \in Due /\ Due' = Due \ {d}
                 /\ Handing' = Handing \/ Handing' = [Handing EXCEPT ![d] = Stored(d)]
                 /\ UNCHANGED <<store, Unsent, Member, Streams>>
    BY <1>6, <2>6, Zenon
  <2> QED
    BY <1>10, <2>2, <2>3, <2>4, <2>5, <2>6
<1> QED
  BY <1>9, <1>11

-----------------------------------------------------------------------------
(* Each part of the invariant is kept by every step.                        *)
LEMMA StoredIs ==
    ASSUME NEW c \in Conns
    PROVE  /\ \A u \in Stored(c) : /\ u.room = ClaimedRoom[c] /\ u.bucket \in Allowed(c)
                                   /\ u.value = stored[Key(u)] /\ u.value # None
           /\ \A u, v \in Stored(c) : Key(u) = Key(v) => u = v
<1>1. ASSUME NEW u \in Stored(c)
      PROVE  /\ u.room = ClaimedRoom[c] /\ u.bucket \in Allowed(c)
             /\ u.value = stored[Key(u)] /\ u.value # None
             /\ u = [room |-> u.room, bucket |-> u.bucket, value |-> stored[<<u.room, u.bucket>>]]
  <2>1. PICK b \in Allowed(c) :
           /\ u = [room |-> ClaimedRoom[c], bucket |-> b, value |-> stored[<<ClaimedRoom[c], b>>]]
           /\ stored[<<ClaimedRoom[c], b>>] # None
    BY DEF Stored
  <2>2. u.room = ClaimedRoom[c] /\ u.bucket = b /\ u.value = stored[<<ClaimedRoom[c], b>>]
    BY <2>1
  <2> QED
    BY <2>1, <2>2 DEF Key
<1>2. ASSUME NEW u \in Stored(c), NEW v \in Stored(c), Key(u) = Key(v) PROVE u = v
  <2>1. u.room = v.room /\ u.bucket = v.bucket
    BY <1>2 DEF Key
  <2> QED
    BY <1>1, <2>1
<1> QED
  BY <1>1, <1>2

\* A new value is newer than all there are.
LEMMA PastValues ==
    ASSUME TypeOK, NoneAhead, writes' = writes + 1
    PROVE  /\ writes \in Nat
           /\ \A u \in Unsent : u.value <= writes'
           /\ \A c \in Conns : \A u \in Handing[c] : u.value <= writes'
           /\ \A c \in Conns : \A u \in Elems(Streams[c]) : u.value <= writes'
<1>0. /\ writes \in Nat /\ \A u \in Update : u.value \in Nat
      /\ Unsent \subseteq Update
      /\ \A c \in Conns : Handing[c] \subseteq Update /\ Elems(Streams[c]) \subseteq Update
  BY FeedTypes, ElemsType DEF TypeOK
<1>1. \A n \in Nat : n <= writes => n <= writes'
  BY <1>0
<1> QED
  BY <1>0, <1>1 DEF NoneAhead

LEMMA KeepsNoneAhead ==
    ASSUME TypeOK, TypeOK', NoneAhead, [Multicast!Next]_(Multicast!vars)
    PROVE  NoneAhead'
<1>0. /\ Handing = [c \in Conns |-> Handing[c]]
      /\ writes \in Nat /\ stored \in [Slots -> Nat \cup {None}]
      /\ \A c \in Conns : Streams[c] \in Seq(Update)
  BY FeedTypes DEF Handing, TypeOK
<1>1. /\ \A s \in Slots : stored[s] # None => stored[s] <= writes
      /\ \A u \in Unsent : u.value <= writes
      /\ \A c \in Conns : \A u \in Handing[c] : u.value <= writes
      /\ \A c \in Conns : \A u \in Elems(Streams[c]) : u.value <= writes
  BY DEF NoneAhead
<1> DEFINE A == \A s \in Slots : stored'[s] # None => stored'[s] <= writes'
           B == \A u \in Unsent' : u.value <= writes'
           C == \A c \in Conns : \A u \in Handing'[c] : u.value <= writes'
           D == \A c \in Conns : \A u \in Elems(Streams'[c]) : u.value <= writes'
<1> SUFFICES A /\ B /\ C /\ D
  BY DEF NoneAhead, Elems
<1>2. CASE \E r \in Rooms, b \in BucketIds :
                 /\ writes' = writes + 1
                 /\ \/ \E v \in {writes + 1, None} :
                          stored' = [stored EXCEPT ![<<r, b>>] = v]
                    \/ UNCHANGED stored
                 /\ Unsent' = Unsent \cup {[room |-> r, bucket |-> b, value |-> writes + 1]}
                 /\ UNCHANGED <<Member, Due, Handing, Streams>>
  <2>1. PICK r \in Rooms, b \in BucketIds :
                 /\ writes' = writes + 1
                 /\ \/ \E v \in {writes + 1, None} :
                          stored' = [stored EXCEPT ![<<r, b>>] = v]
                    \/ UNCHANGED stored
                 /\ Unsent' = Unsent \cup {[room |-> r, bucket |-> b, value |-> writes + 1]}
                 /\ UNCHANGED <<Member, Due, Handing, Streams>>
    BY <1>2
  <2>2. A
    <3> SUFFICES ASSUME NEW s \in Slots, stored'[s] # None PROVE stored'[s] <= writes + 1
      BY <2>1
    <3>1. stored'[s] \in {stored[s], writes + 1}
      <4>1. CASE stored' = stored
        BY <4>1
      <4>2. ASSUME NEW v \in {writes + 1, None}, stored' = [stored EXCEPT ![<<r, b>>] = v]
            PROVE  stored'[s] \in {stored[s], writes + 1}
        BY <1>0, <4>2
      <4> QED
        BY <2>1, <4>1, <4>2
    <3>2. stored[s] # None => stored[s] \in Nat /\ stored[s] <= writes
      BY <1>0, <1>1
    <3> QED
      BY <1>0, <3>1, <3>2
  <2> HIDE DEF A
  <2>3. B
    <3>1. \A u \in Unsent' : u \in Unsent \/ u.value = writes'
      BY <2>1
    <3>2. writes' <= writes'
      BY <1>0, <2>1
    <3> QED
      BY <2>1, <3>1, <3>2, PastValues
  <2>4. C /\ D
    BY <2>1, PastValues
  <2> QED
    BY <2>2, <2>3, <2>4
<1>3. CASE /\ writes' = writes
           /\ \A s \in Slots : stored'[s] \in {stored[s], 0, None}
           /\ UNCHANGED <<Unsent, Member, Due, Handing, Streams>>
  <2>1. 0 <= writes
    BY <1>0
  <2>2. A
    BY <1>1, <1>3, <2>1
  <2> QED
    BY <1>1, <1>3, <2>2
<1>4. CASE \E c \in Conns :
                 /\ c \in Due /\ Due' = Due \ {c}
                 /\ Handing' = Handing \/ Handing' = [Handing EXCEPT ![c] = Stored(c)]
                 /\ UNCHANGED <<store, Unsent, Member, Streams>>
  <2>1. PICK c \in Conns :
                 /\ Handing' = Handing \/ Handing' = [Handing EXCEPT ![c] = Stored(c)]
                 /\ UNCHANGED <<writes, stored, Unsent, Streams>>
    BY <1>4 DEF store
  <2>2. ASSUME NEW d \in Conns, NEW u \in Handing'[d] PROVE u.value <= writes
    <3>1. u \in Handing[d] \/ (d = c /\ u \in Stored(c))
      BY <1>0, <2>1
    <3>2. CASE u \in Handing[d]
      BY <1>1, <3>2
    <3>3. CASE d = c /\ u \in Stored(c)
      <4>1. u \in Update
        BY FeedTypesNext
      <4>2. Key(u) \in Slots
        BY <4>1 DEF Key, Update, Slots
      <4> QED
        BY <1>1, <3>3, <4>2, StoredIs
    <3> QED
      BY <3>1, <3>2, <3>3
  <2> QED
    BY <1>1, <2>1, <2>2
<1>5. ASSUME UNCHANGED store, Unsent' \subseteq Unsent,
             \A c \in Conns :
                 /\ Handing'[c] \subseteq Handing[c]
                 /\ \/ Streams'[c] = Streams[c]
                    \/ \E u \in Unsent \cup Handing[c] : Streams'[c] = Append(Streams[c], u)
      PROVE  A /\ B /\ C /\ D
  <2>1. writes' = writes /\ stored' = stored
    BY <1>5 DEF store
  <2>2. ASSUME NEW c \in Conns, NEW u \in Elems(Streams'[c]) PROVE u.value <= writes
    <3>1. CASE Streams'[c] = Streams[c]
      BY <1>1, <2>2, <3>1
    <3>2. ASSUME NEW v \in Unsent \cup Handing[c], Streams'[c] = Append(Streams[c], v)
          PROVE  u.value <= writes
      <4>1. Elems(Append(Streams[c], v)) = Elems(Streams[c]) \cup {v}
        BY <1>0, FeedTypes, AppendElems
      <4>2. u \in Elems(Streams[c]) \/ u = v
        BY <2>2, <3>2, <4>1
      <4> QED
        BY <1>1, <4>2
    <3> QED
      BY <1>5, <3>1, <3>2
  <2> QED
    BY ONLY <1>1, <1>5, <2>1, <2>2
<1>6. CASE \E c \in Conns :
                 /\ Member[c] = "new" /\ Member' = [Member EXCEPT ![c] = "in"]
                 /\ Due' = Due \cup {c}
                 /\ UNCHANGED <<store, Unsent, Handing, Streams>>
  <2> HIDE DEF A, B, C, D
  <2> QED
    BY <1>5, <1>6
<1> HIDE DEF A, B, C, D
<1> QED
  BY <1>2, <1>3, <1>4, <1>5, <1>6, FeedSteps

LEMMA KeepsOneTarget ==
    ASSUME TypeOK, OneTarget, [Multicast!Next]_(Multicast!vars)
    PROVE  OneTarget'
<1>0. Handing = [c \in Conns |-> Handing[c]]
  BY DEF Handing
<1>1. \A c \in Conns : Member[c] = "new" => Handing[c] = {}
  BY AbstractState DEF HandingIs, Member
<1> SUFFICES \A c \in Conns :
                /\ c \in Due' => Handing'[c] = {}
                /\ \A u, v \in Handing'[c] : Key(u) = Key(v) => u = v
  BY DEF OneTarget, Key
<1>2. ASSUME Due' \subseteq Due, \A c \in Conns : Handing'[c] \subseteq Handing[c]
      PROVE  \A c \in Conns : /\ c \in Due' => Handing'[c] = {}
                              /\ \A u, v \in Handing'[c] : Key(u) = Key(v) => u = v
  BY <1>2 DEF OneTarget
<1>3. ASSUME NEW c \in Conns, Member[c] = "new", Due' = Due \cup {c}, Handing' = Handing
      PROVE  \A d \in Conns : /\ d \in Due' => Handing'[d] = {}
                              /\ \A u, v \in Handing'[d] : Key(u) = Key(v) => u = v
  BY <1>1, <1>3 DEF OneTarget
<1>4. ASSUME NEW c \in Conns, Due' = Due \ {c},
             Handing' = Handing \/ Handing' = [Handing EXCEPT ![c] = Stored(c)]
      PROVE  \A d \in Conns : /\ d \in Due' => Handing'[d] = {}
                              /\ \A u, v \in Handing'[d] : Key(u) = Key(v) => u = v
  <2>1. \A d \in Conns : Handing'[d] = Handing[d] \/ (d = c /\ Handing'[d] = Stored(c))
    BY <1>0, <1>4
  <2> QED
    BY <1>4, <2>1, StoredIs DEF OneTarget
<1>5. \/ Due' = Due /\ \A c \in Conns : Handing'[c] \subseteq Handing[c]
      \/ \E c \in Conns : Member[c] = "new" /\ Due' = Due \cup {c} /\ Handing' = Handing
      \/ \E c \in Conns : Due' = Due \ {c}
            /\ (Handing' = Handing \/ Handing' = [Handing EXCEPT ![c] = Stored(c)])
  BY FeedSteps
<1> QED
  BY <1>2, <1>3, <1>4, <1>5

\* What a message put at the end of the channel has to satisfy.
LEMMA NotifyKeepsWriteOrder ==
    ASSUME TypeOK, InWriteOrder, writes' = writes,
           NEW n \in Notification, TryNotify(n), forwarding' = forwarding,
           \A m \in Flying : Precedes(m, n),
           \A w \in Writers : writing'[w] # None =>
              writing'[w] = writing[w] /\ Precedes(n, ToAll(writing[w]))
    PROVE  InWriteOrder'
<1>1. notifications \in Seq(Notification) /\ n # None
  BY NoneAssumption DEF TypeOK
<1>2. \A i \in DOMAIN notifications : notifications[i] \in Flying
  <2>1. \A i \in DOMAIN notifications : notifications[i] \in Elems(notifications) /\ notifications[i] # None
    BY <1>1, NoneAssumption DEF Elems
  <2> QED
    BY <2>1 DEF Flying
<1>3. /\ \A m \in Flying' : m \in Flying \/ m = n
      /\ \A m \in Elems(notifications') : m \in Elems(notifications) \/ m = n
      /\ notifications' = Append(notifications, n) \/ notifications' = notifications
  <2>1. (Flying' = Flying \cup {n} \/ Flying' = Flying)
        /\ (notifications' = Append(notifications, n) \/ notifications' = notifications)
    BY NotifyFlies
  <2>2. Elems(notifications') = Elems(notifications) \cup {n} \/ notifications' = notifications
    BY TryNotifyElems
  <2> QED
    BY <2>1, <2>2
<1>4. \A i, j \in DOMAIN notifications' :
         i < j => Precedes(notifications'[i], notifications'[j])
  <2>1. CASE notifications' = notifications
    BY <2>1 DEF InWriteOrder
  <2>2. CASE notifications' = Append(notifications, n)
    <3>1. /\ DOMAIN notifications = 1..Len(notifications) /\ Len(notifications) \in Nat
          /\ DOMAIN notifications' = 1..(Len(notifications) + 1)
          /\ \A i \in 1..Len(notifications) : notifications'[i] = notifications[i]
          /\ notifications'[Len(notifications) + 1] = n
      BY <1>1, <2>2
    <3>2. \A i, j \in 1..Len(notifications) : i < j => Precedes(notifications[i], notifications[j])
      BY <3>1 DEF InWriteOrder
    <3>3. \A i \in 1..Len(notifications) : Precedes(notifications[i], n)
      BY <1>2, <3>1
    <3>4. \A i, j \in 1..(Len(notifications) + 1) :
             i < j => i \in 1..Len(notifications)
                      /\ (j \in 1..Len(notifications) \/ j = Len(notifications) + 1)
      BY <3>1
    <3> QED
      BY <3>1, <3>2, <3>3, <3>4
  <2> QED
    BY <1>3, <2>1, <2>2
<1>5. forwarding' # None => \A m \in Elems(notifications') : Precedes(forwarding', m)
  <2>1. forwarding # None => forwarding \in Flying
    BY DEF Flying
  <2> QED
    BY <1>3, <2>1 DEF InWriteOrder
<1>6. \A w \in Writers : writing'[w] # None =>
         /\ writing'[w].value = writes'
         /\ \A m \in Flying' : Precedes(m, ToAll(writing'[w]))
  BY <1>3 DEF InWriteOrder
<1> QED
  BY <1>4, <1>5, <1>6 DEF InWriteOrder, Elems, Key, ToAll, Precedes

LEMMA ApplyWriteKeepsWriteOrder ==
    ASSUME TypeOK, ChannelsOK, InWriteOrder, NoneAhead, OneWriter,
           NEW w \in Writers, ApplyWrite(w), UNCHANGED <<notifications, forwarding>>
    PROVE  InWriteOrder'
<1>1. writes' = writes + 1 /\ writes \in Nat
  BY DEF ApplyWrite, TypeOK
<1>2. Flying' = Flying
  BY SameFlying
<1>3. \A v \in Writers : v = w /\ writing'[v] \in Update /\ writing'[v].value = writes + 1
  <2>1. /\ writing \in [Writers -> Update \cup {None}]
        /\ checked[w] # None /\ checked \in [Writers -> Slots \cup {None}]
        /\ writing' = [writing EXCEPT ![w] =
              [room |-> checked[w][1], bucket |-> checked[w][2], value |-> writes + 1]]
    BY DEF ApplyWrite, TypeOK
  <2>2. checked[w][1] \in Rooms /\ checked[w][2] \in BucketIds
    BY <2>1 DEF Slots
  <2> QED
    BY <1>1, <2>1, <2>2 DEF OneWriter, Update
<1>4. ASSUME NEW n \in Flying PROVE n.update.value \in Nat /\ n.update.value <= writes
  <2>1. n \in Notification /\ n.update \in Update /\ n.update.value \in Nat
    BY FlyingType DEF Notification, Update
  <2>2. n = [to |-> n.to, update |-> n.update] /\ n.to \in ConnIds \cup {None}
    BY <2>1 DEF Notification
  <2>3. CASE n.to = None
    <3>1. ToAll(n.update) = n
      BY <2>2, <2>3 DEF ToAll
    <3>2. n.update \in Unsent
      BY <3>1, AbstractState DEF UnsentIs
    <3> QED
      BY <2>1, <3>2 DEF NoneAhead
  <2>4. CASE n.to # None
    <3>1. PICK c \in Conns : conn_id[c] = n.to /\ conn_id[c] # 0
      BY <2>2, <2>4 DEF ConnIds, ChannelsOK, SentFor, Flying
    <3>2. n.update \in Handing[c]
      BY <2>2, <3>1, AbstractState DEF HandingIs
    <3> QED
      BY <2>1, <3>2 DEF NoneAhead
  <2> QED
    BY <2>3, <2>4
<1>5. \A v \in Writers : writing'[v] # None =>
         /\ writing'[v].value = writes'
         /\ \A m \in Flying' : Precedes(m, ToAll(writing'[v]))
  <2> SUFFICES ASSUME NEW v \in Writers
               PROVE  /\ writing'[v].value = writes'
                      /\ \A m \in Flying : Precedes(m, ToAll(writing'[v]))
    BY <1>2
  <2>0. writing'[v].value = writes'
    BY <1>1, <1>3
  <2> SUFFICES ASSUME NEW m \in Flying PROVE Precedes(m, ToAll(writing'[v]))
    BY <2>0
  <2>1. writing'[v].value = writes + 1 /\ m.update.value \in Nat /\ m.update.value <= writes
    BY <1>3, <1>4
  <2>2. m.update.value <= writing'[v].value /\ m.update.value # writing'[v].value
    BY <1>1, <2>1
  <2>3. ToAll(writing'[v]).update = writing'[v]
    BY DEF ToAll
  <2> QED
    BY <1>1, <2>1, <2>2, <2>3 DEF Precedes
<1>6. /\ \A i, j \in DOMAIN notifications' :
             i < j => Precedes(notifications'[i], notifications'[j])
      /\ forwarding' # None => \A m \in Elems(notifications') : Precedes(forwarding', m)
  BY DEF InWriteOrder
<1> QED
  BY <1>5, <1>6 DEF InWriteOrder, Elems, Key, ToAll, Precedes

LEMMA TakeKeepsWriteOrder ==
    ASSUME TypeOK, InWriteOrder, TakeNotification
    PROVE  InWriteOrder'
<1>1. /\ notifications \in Seq(Notification) /\ notifications # << >>
      /\ forwarding' = Head(notifications) /\ notifications' = Tail(notifications)
      /\ UNCHANGED <<writing, writes>>
  BY DEF TakeNotification, TypeOK, storeVars
<1>2. Flying' = Flying
  BY TakeFlies
<1>3. /\ Len(notifications) \in Nat \ {0} /\ DOMAIN notifications = 1..Len(notifications)
      /\ DOMAIN notifications' = 1..(Len(notifications) - 1)
      /\ \A i \in 1..(Len(notifications) - 1) : notifications'[i] = notifications[i + 1]
      /\ forwarding' = notifications[1]
  BY <1>1
<1>4. \A i, j \in DOMAIN notifications :
         i < j => Precedes(notifications[i], notifications[j])
  BY DEF InWriteOrder
<1>5. \A i, j \in DOMAIN notifications' :
         i < j => Precedes(notifications'[i], notifications'[j])
  <2> SUFFICES ASSUME NEW i \in DOMAIN notifications', NEW j \in DOMAIN notifications', i < j
               PROVE  Precedes(notifications'[i], notifications'[j])
    OBVIOUS
  <2>1. i + 1 \in DOMAIN notifications /\ j + 1 \in DOMAIN notifications /\ i + 1 < j + 1
    BY <1>3
  <2> QED
    BY <1>3, <1>4, <2>1
<1>6. \A m \in Elems(notifications') : Precedes(forwarding', m)
  <2> SUFFICES ASSUME NEW i \in DOMAIN notifications'
               PROVE  Precedes(forwarding', notifications'[i])
    BY DEF Elems
  <2>1. 1 \in DOMAIN notifications /\ i + 1 \in DOMAIN notifications /\ 1 < i + 1
    BY <1>3
  <2> QED
    BY <1>3, <1>4, <2>1
<1>7. \A v \in Writers : writing'[v] # None =>
         /\ writing'[v].value = writes'
         /\ \A m \in Flying' : Precedes(m, ToAll(writing'[v]))
  BY <1>1, <1>2 DEF InWriteOrder
<1> QED
  BY <1>5, <1>6, <1>7 DEF InWriteOrder, Elems, Key, ToAll, Precedes

LEMMA NextKeepsWriteOrder ==
    ASSUME FeedInv, TypeOK', InWriteOrder, NoneAhead, OneWriter, [Next]_vars
    PROVE  InWriteOrder'
<1> USE DEF storeVars, hubVars, taskVars, dropped
<1>0. TypeOK /\ ChannelsOK /\ ProcessorOK /\ writing \in [Writers -> Update \cup {None}]
  BY DEF FeedInv, IInv, TypeOK
<1>1. ASSUME UNCHANGED <<writes, writing, notifications, forwarding>> PROVE InWriteOrder'
  <2>1. Flying' = Flying
    BY <1>1, SameFlying
  <2> QED
    BY <1>1, <2>1 DEF InWriteOrder, Elems, Key, ToAll, Precedes
<1>2. ASSUME NEW c \in Conns, Task(c) PROVE InWriteOrder'
  <2>1. UNCHANGED <<writes, writing, notifications, forwarding>>
    BY <1>2, RegisterKeeps
    DEF Task, Rejected, Announce, LockHub, SendCommand, WriteSocket, Cleanup, Leave
  <2> QED
    BY <1>1, <2>1
<1>3. CASE TakeNotification
  BY <1>0, <1>3, TakeKeepsWriteOrder
<1>4. CASE Forward
  <2>1. /\ forwarding' = None /\ UNCHANGED <<notifications, writing, writes>>
    BY <1>4 DEF Forward
  <2>2. Flying' = Flying \ {forwarding}
    BY <1>4, ForwardSeen
  <2>3. \A w \in Writers : writing'[w] # None =>
           /\ writing'[w].value = writes'
           /\ \A m \in Flying' : Precedes(m, ToAll(writing'[w]))
    BY <2>1, <2>2 DEF InWriteOrder
  <2>4. /\ \A i, j \in DOMAIN notifications' :
              i < j => Precedes(notifications'[i], notifications'[j])
        /\ forwarding' # None => \A m \in Elems(notifications') : Precedes(forwarding', m)
    BY <2>1 DEF InWriteOrder
  <2> QED
    BY <2>3, <2>4 DEF InWriteOrder, Elems, Key, ToAll, Precedes
<1>5. CASE TakeMessage \/ LookUpRoom \/ Collect
  <2>1. UNCHANGED <<writes, writing, notifications, forwarding>>
    BY <1>5 DEF TakeMessage, LookUpRoom, Collect
  <2> QED
    BY <1>1, <2>1
<1>6. CASE Target
  <2>1. /\ UNCHANGED <<writes, writing, forwarding>> /\ kernel.pc = "target"
    BY <1>6 DEF Target
  <2>2. CASE kernel.updates = {}
    <3>1. UNCHANGED notifications
      BY <1>6, <2>2 DEF Target
    <3> QED
      BY <1>1, <2>1, <3>1
  <2>3. CASE kernel.updates # {}
    <3>1. PICK u \in kernel.updates : TryNotify([to |-> kernel.id, update |-> u])
      BY <1>6, <2>3 DEF Target
    <3> DEFINE n == [to |-> kernel.id, update |-> u]
    <3>2. /\ n \in Notification /\ TryNotify(n) /\ n.to # None /\ n.update = u
      BY <1>0, <2>1, <3>1, TargetsType, NoneAssumption DEF Notification, ProcessorOK, TypeOK, ConnIds
    <3>3. u.value <= writes
      <4>1. PICK c \in Conns : conn_id[c] = kernel.id /\ conn_id[c] # 0
        BY <1>0, <2>1 DEF ProcessorOK, SyncFor
      <4>2. u \in Handing[c]
        BY <1>0, <2>1, <4>1, AbstractState DEF HandingIs
      <4> QED
        BY <4>2 DEF NoneAhead
    <3> HIDE DEF n
    <3>4. \A m \in Flying : Precedes(m, n)
      BY <3>2 DEF Precedes
    <3>5. \A w \in Writers : writing[w] # None => Precedes(n, ToAll(writing[w]))
      <4> SUFFICES ASSUME NEW w \in Writers, writing[w] # None, Key(u) = Key(writing[w])
                   PROVE  u.value <= writing[w].value
        BY <3>2 DEF Precedes, ToAll
      <4>1. writing[w].value = writes
        BY DEF InWriteOrder
      <4> QED
        BY <3>3, <4>1
    <3> QED
      BY <1>0, <2>1, <3>2, <3>4, <3>5, NotifyKeepsWriteOrder
  <2> QED
    BY <2>2, <2>3
<1>7. ASSUME NEW w \in Writers, Broadcast(w) PROVE InWriteOrder'
  <2> DEFINE n == [to |-> None, update |-> writing[w]]
  <2>1. /\ n \in Notification /\ TryNotify(n) /\ writing[w] # None
        /\ writing' = [writing EXCEPT ![w] = None]
        /\ UNCHANGED <<writes, forwarding>>
    BY <1>0, <1>7, BroadcastsType DEF Broadcast
  <2>2. n = ToAll(writing[w])
    BY DEF ToAll
  <2> HIDE DEF n
  <2>3. \A m \in Flying : Precedes(m, n)
    BY <2>1, <2>2 DEF InWriteOrder
  <2>4. \A v \in Writers : writing'[v] = None
    BY <1>0, <2>1 DEF OneWriter
  <2> QED
    BY <1>0, <2>1, <2>3, <2>4, NotifyKeepsWriteOrder
<1>8. CASE Environment
  <2>1. UNCHANGED <<writes, writing, notifications, forwarding>>
    BY <1>8 DEF Environment, Handshake, ReadCommand, PeerGone
  <2> QED
    BY <1>1, <2>1
<1>9. CASE Store
  <2>1. UNCHANGED <<notifications, forwarding>>
    BY <1>9, StoreKeeps
  <2>2. (\E w \in Writers : ApplyWrite(w)) \/ UNCHANGED <<writes, writing>>
    BY <1>0, <1>9, StoreCases
  <2> QED
    BY <1>0, <1>1, <2>1, <2>2, ApplyWriteKeepsWriteOrder
<1>10. CASE UNCHANGED vars
  BY <1>1, <1>10 DEF vars
<1> QED
  BY <1>2, <1>3, <1>4, <1>5, <1>6, <1>7, <1>8, <1>9, <1>10 DEF Next, Forwarder, Processor

\* Steps that give no client anything.
LEMMA QuietKeepsOrdered ==
    ASSUME TypeOK, NoneAhead, Ordered, [Multicast!Next]_(Multicast!vars), Streams' = Streams
    PROVE  Ordered'
<1>0. /\ Unsent \subseteq Update
      /\ \A c \in Conns : Streams[c] \in Seq(Update)
      /\ Handing = [c \in Conns |-> Handing[c]] /\ Member = [c \in Conns |-> Member[c]]
  BY FeedTypes DEF Handing, Member
<1> SUFFICES \A c \in Conns :
                /\ Member'[c] = "new" => Streams[c] = << >>
                /\ \E L, K : StreamOK(Streams[c], L, K) /\ Unsent' \subseteq L /\ Syncing(c)' \subseteq K
  <2>1. ASSUME NEW c \in Conns, NEW L, NEW K, StreamOK(Streams[c], L, K),
               Unsent' \subseteq L, Syncing(c)' \subseteq K
        PROVE  StreamOK(Streams'[c], Unsent', Syncing(c)')
    BY <2>1, StreamFewer
  <2>2. \A c \in Conns : /\ Member'[c] = "new" => Streams'[c] = << >>
                         /\ StreamOK(Streams'[c], Unsent', Syncing(c)')
    BY <2>1
  <2>3. (\A c \in Conns : /\ Member[c] = "new" => Streams[c] = << >>
                          /\ StreamOK(Streams[c], Unsent, Syncing(c)))'
    BY <2>2 DEF StreamOK, NotNewer, Key
  <2> QED
    BY <2>3 DEF Ordered
<1>1. \A c \in Conns : Syncing(c)' = {k \in Rooms \X BucketIds :
                                        c \in Due' \/ \E u \in Handing'[c] : Key(u) = k}
  BY DEF Syncing, Key
<1>2. ASSUME Unsent' \subseteq Unsent, NEW c \in Conns, Member'[c] = "new" => Member[c] = "new",
             Syncing(c)' \subseteq Syncing(c)
      PROVE  /\ Member'[c] = "new" => Streams[c] = << >>
             /\ \E L, K : StreamOK(Streams[c], L, K) /\ Unsent' \subseteq L /\ Syncing(c)' \subseteq K
  BY <1>2 DEF Ordered
<1>3. CASE \E r \in Rooms, b \in BucketIds :
                 /\ writes' = writes + 1
                 /\ \/ \E v \in {writes + 1, None} :
                          stored' = [stored EXCEPT ![<<r, b>>] = v]
                    \/ UNCHANGED stored
                 /\ Unsent' = Unsent \cup {[room |-> r, bucket |-> b, value |-> writes + 1]}
                 /\ UNCHANGED <<Member, Due, Handing, Streams>>
  <2> SUFFICES ASSUME NEW c \in Conns
               PROVE  /\ Member'[c] = "new" => Streams[c] = << >>
                      /\ \E L, K : StreamOK(Streams[c], L, K) /\ Unsent' \subseteq L /\ Syncing(c)' \subseteq K
    OBVIOUS
  <2>1. PICK r \in Rooms, b \in BucketIds :
                 /\ writes' = writes + 1
                 /\ \/ \E v \in {writes + 1, None} :
                          stored' = [stored EXCEPT ![<<r, b>>] = v]
                    \/ UNCHANGED stored
                 /\ Unsent' = Unsent \cup {[room |-> r, bucket |-> b, value |-> writes + 1]}
                 /\ UNCHANGED <<Member, Due, Handing, Streams>>
    BY <1>3
  <2> DEFINE new == [room |-> r, bucket |-> b, value |-> writes + 1]
  <2>2. /\ new \in Update /\ new.value = writes + 1
        /\ writes \in Nat /\ Unsent' = Unsent \cup {new}
    BY <2>1 DEF Update, TypeOK
  <2> HIDE DEF new
  <2>4. ASSUME NEW e \in Elems(Streams[c]), Key(e) = Key(new) PROVE e.value < new.value
    <3>1. e \in Update /\ e.value \in Nat
      BY <1>0, <2>4, ElemsType DEF Update
    <3>2. e.value <= writes
      BY DEF NoneAhead
    <3> QED
      BY <2>2, <3>1, <3>2
  <2>5. StreamOK(Streams[c], Unsent \cup {new}, Syncing(c))
    BY <1>0, <2>2, <2>4, StreamAwaits DEF Ordered
  <2>6. Syncing(c)' = Syncing(c)
    BY <1>1, <2>1 DEF Syncing
  <2> QED
    BY <2>1, <2>2, <2>5, <2>6 DEF Ordered
<1>4. ASSUME NEW d \in Conns, Member[d] = "new", Member' = [Member EXCEPT ![d] = "in"],
             Due' = Due \cup {d}, UNCHANGED <<Unsent, Handing>>, NEW c \in Conns
      PROVE  /\ Member'[c] = "new" => Streams[c] = << >>
             /\ \E L, K : StreamOK(Streams[c], L, K) /\ Unsent' \subseteq L /\ Syncing(c)' \subseteq K
  <2>1. CASE c = d
    <3>1. Streams[c] = << >> /\ Member'[c] # "new"
      BY <1>0, <1>4, <2>1 DEF Ordered
    <3>2. StreamOK(Streams[c], Unsent', Syncing(c)')
      BY <3>1 DEF StreamOK
    <3> QED
      BY <3>1, <3>2
  <2>2. CASE c # d
    <3>1. Syncing(c)' = Syncing(c) /\ Member'[c] = Member[c]
      BY <1>0, <1>1, <1>4, <2>2 DEF Syncing
    <3> QED
      BY <1>2, <1>4, <3>1
  <2> QED
    BY <2>1, <2>2
<1>5. ASSUME NEW d \in Conns, d \in Due, Due' = Due \ {d},
             Handing' = Handing \/ Handing' = [Handing EXCEPT ![d] = Stored(d)],
             UNCHANGED <<Unsent, Member>>, NEW c \in Conns
      PROVE  /\ Member'[c] = "new" => Streams[c] = << >>
             /\ \E L, K : StreamOK(Streams[c], L, K) /\ Unsent' \subseteq L /\ Syncing(c)' \subseteq K
  <2>1. c = d => Syncing(c)' \subseteq Syncing(c)
    BY <1>1, <1>5 DEF Syncing
  <2>2. c # d => Handing'[c] = Handing[c]
    BY <1>0, <1>5
  <2>3. c # d => Syncing(c)' \subseteq Syncing(c)
    BY <1>1, <1>5, <2>2 DEF Syncing
  <2> QED
    BY <1>2, <1>5, <2>1, <2>3
<1>6. ASSUME Due' = Due, Unsent' \subseteq Unsent, NEW c \in Conns,
             Handing'[c] \subseteq Handing[c], Member'[c] = "new" => Member[c] = "new"
      PROVE  /\ Member'[c] = "new" => Streams[c] = << >>
             /\ \E L, K : StreamOK(Streams[c], L, K) /\ Unsent' \subseteq L /\ Syncing(c)' \subseteq K
  <2>1. Syncing(c)' \subseteq Syncing(c)
    BY <1>1, <1>6 DEF Syncing
  <2> QED
    BY <1>2, <1>6, <2>1
<1>7. CASE UNCHANGED <<Unsent, Member, Due, Handing, Streams>>
  <2>1. \A c \in Conns : Syncing(c)' \subseteq Syncing(c)
    BY <1>1, <1>7 DEF Syncing
  <2> QED
    BY <1>2, <1>7, <2>1
<1> QED
  BY <1>3, <1>4, <1>5, <1>6, <1>7, FeedSteps

LEMMA ForwardKeepsOrdered ==
    ASSUME FeedInv, TypeOK', OneWriter, InWriteOrder, OneTarget, Ordered, Forward
    PROVE  Ordered'
<1> DEFINE u == forwarding.update
<1>0. /\ TypeOK /\ EachOnce /\ forwarding # None
      /\ Unsent \subseteq Update
      /\ \A c \in Conns : Streams[c] \in Seq(Update) /\ Handing[c] \subseteq Update
      /\ \A x \in Update : Key(x) \in Rooms \X BucketIds /\ x.value \in Nat
      /\ Handing = [c \in Conns |-> Handing[c]]
  BY FeedTypes DEF FeedInv, IInv, Forward, Handing
<1>1. /\ u \in Update /\ Due' = Due
      /\ \A c \in Conns :
            /\ ~Picked(c) => Streams'[c] = Streams[c] /\ Member'[c] = Member[c]
            /\ Picked(c) => /\ Member[c] = "in"
                            /\ \/ Streams'[c] = Append(Streams[c], u) /\ Member'[c] = "in"
                               \/ Streams'[c] = Streams[c] /\ Member'[c] = "out"
  BY ForwardSeen
<1>2. forwarding = [to |-> forwarding.to, update |-> u]
  BY <1>0 DEF TypeOK, Notification
\* What is still to be broadcast on that key is not older, and newer than a broadcast.
<1>3. ASSUME NEW v \in Unsent, Key(v) = Key(u), v # u \/ forwarding.to # None
      PROVE  u.value <= v.value /\ (forwarding.to = None => u.value < v.value)
  <2>1. ToAll(v) # forwarding /\ ToAll(v).to = None /\ ToAll(v).update = v
    BY <1>3 DEF ToAll
  <2>2. (\E w \in Writers : writing[w] = v /\ v # None) \/ ToAll(v) \in Flying
    BY <1>0, AbstractState DEF UnsentIs
  <2>3. Precedes(forwarding, ToAll(v))
    BY <1>0, <2>1, <2>2 DEF InWriteOrder, Flying
  <2>4. u.value <= v.value /\ (forwarding.to = None => u.value # v.value)
    BY <1>3, <2>1, <2>3 DEF Precedes
  <2> QED
    BY <1>0, <1>1, <2>4
<1>4. \A c \in Conns : Syncing(c)' = {k \in Rooms \X BucketIds :
                                        c \in Due' \/ \E x \in Handing'[c] : Key(x) = k}
  BY DEF Syncing, Key
<1> SUFFICES ASSUME NEW c \in Conns
             PROVE  /\ Member'[c] = "new" => Streams'[c] = << >>
                    /\ StreamOK(Streams'[c], Unsent', Syncing(c)')
  <2>1. (\A d \in Conns : /\ Member[d] = "new" => Streams[d] = << >>
                          /\ StreamOK(Streams[d], Unsent, Syncing(d)))'
    BY DEF StreamOK, NotNewer, Key
  <2> QED
    BY <2>1 DEF Ordered
<1>5. Member'[c] = "new" => Streams'[c] = << >>
  BY <1>1 DEF Ordered
<1>6. StreamOK(Streams[c], Unsent, Syncing(c))
  BY DEF Ordered
<1> HIDE DEF u
<1>7. CASE forwarding.to = None
  <2>1. u \in Unsent /\ Unsent' = Unsent \ {u} /\ Handing' = Handing
    BY <1>7, ForwardBroadcasts DEF u
  <2>2. Syncing(c)' = Syncing(c)
    BY <1>1, <1>4, <2>1 DEF Syncing
  <2>3. CASE Streams'[c] = Streams[c]
    <3>1. StreamOK(Streams[c], Unsent', Syncing(c)')
      BY <1>6, <2>1, <2>2, StreamFewer
    <3> QED
      BY <1>5, <2>3, <3>1
  <2>4. CASE Streams'[c] = Append(Streams[c], u)
    <3>1. \A v \in Unsent \ {u} : Key(v) = Key(u) => u.value < v.value
      BY <1>3, <1>7
    <3>2. StreamOK(Append(Streams[c], u), Unsent \ {u}, Syncing(c))
      BY <1>0, <1>6, <2>1, <3>1, StreamPublishes
    <3> QED
      BY <1>5, <2>1, <2>2, <2>4, <3>2
  <2> QED
    BY <1>1, <2>3, <2>4
<1>8. CASE forwarding.to # None
  <2>1. PICK d \in Conns :
           /\ u \in Handing[d] /\ Handing' = [Handing EXCEPT ![d] = @ \ {u}]
           /\ \A e \in Conns : Picked(e) <=> e = d /\ Registered(d)
    BY <1>8, ForwardTargets DEF u
  <2>2. Unsent' = Unsent
    BY <1>8, ForwardTargets
  <2>3. Handing'[c] = IF c = d THEN Handing[c] \ {u} ELSE Handing[c]
    BY <1>0, <2>1
  <2>4. Syncing(c)' \subseteq Syncing(c)
    BY <1>1, <1>4, <2>3 DEF Syncing
  <2>5. CASE Streams'[c] = Streams[c]
    <3>1. StreamOK(Streams[c], Unsent', Syncing(c)')
      BY <1>6, <2>2, <2>4, StreamFewer
    <3> QED
      BY <1>5, <2>5, <3>1
  <2>6. CASE c = d /\ Streams'[c] = Append(Streams[c], u)
    <3>1. Key(u) \in Syncing(c)
      BY <1>0, <1>1, <2>1, <2>6 DEF Syncing
    <3>2. \A v \in Unsent : Key(v) = Key(u) => u.value <= v.value
      BY <1>3, <1>8
    <3>3. StreamOK(Append(Streams[c], u), Unsent, Syncing(c) \ {Key(u)})
      BY <1>0, <1>1, <1>6, <3>1, <3>2, StreamSyncs
    <3>4. Key(u) \notin Syncing(c)'
      <4>1. c \notin Due'
        BY <1>1, <2>1, <2>6 DEF OneTarget
      <4>2. \A x \in Handing'[c] : Key(x) # Key(u)
        BY <2>1, <2>3, <2>6 DEF OneTarget
      <4> QED
        BY <1>4, <4>1, <4>2
    <3>5. StreamOK(Append(Streams[c], u), Unsent', Syncing(c)')
      BY <2>2, <2>4, <3>3, <3>4, StreamFewer
    <3> QED
      BY <1>5, <2>6, <3>5
  <2> QED
    BY <1>1, <2>1, <2>5, <2>6
<1> QED
  BY <1>7, <1>8

LEMMA OnlyForwardGives ==
    ASSUME TypeOK, [Next]_vars, ~Forward
    PROVE  Streams' = Streams
<1> USE DEF storeVars, hubVars, taskVars, dropped
<1>1. ASSUME UNCHANGED <<seen, queue>> PROVE Streams' = Streams
  BY <1>1, SameStreams
<1>2. ASSUME NEW c \in Conns, WriteSocket(c) PROVE Streams' = Streams
  <2>1. /\ queue[c] # << >> /\ seen[c] \in Seq(Update) /\ queue[c] \in Seq(Update)
        /\ seen \in [Conns -> Seq(Update)] /\ queue \in [Conns -> Seq(Update)]
        /\ queue' = [queue EXCEPT ![c] = Tail(@)]
        /\ seen' = [seen EXCEPT ![c] = Append(@, Head(queue[c]))]
    BY <1>2 DEF WriteSocket, TypeOK
  <2>2. Append(seen[c], Head(queue[c])) \o Tail(queue[c]) = seen[c] \o queue[c]
    BY <2>1, ShiftKeepsStream
  <2>3. \A d \in Conns : seen'[d] \o queue'[d] = seen[d] \o queue[d]
    BY <2>1, <2>2
  <2> QED
    BY <2>3 DEF Streams, Stream
<1>3. ASSUME NEW c \in Conns, Task(c), ~WriteSocket(c) PROVE Streams' = Streams
  BY <1>1, <1>3, RegisterKeeps
  DEF Task, Rejected, Announce, LockHub, SendCommand, Cleanup, Leave
<1>4. CASE TakeNotification \/ Processor
  BY <1>1, <1>4 DEF Processor, TakeNotification, TakeMessage, LookUpRoom, Collect, Target
<1>5. ASSUME NEW w \in Writers, Broadcast(w) PROVE Streams' = Streams
  BY <1>1, <1>5 DEF Broadcast
<1>6. CASE Environment \/ Store
  BY <1>1, <1>6, StoreKeeps DEF Environment, Handshake, ReadCommand, PeerGone
<1>7. CASE UNCHANGED vars
  BY <1>1, <1>7 DEF vars
<1> QED
  BY <1>2, <1>3, <1>4, <1>5, <1>6, <1>7 DEF Next, Forwarder

LEMMA InitOrderInv == Init => OrderInv
<1> SUFFICES ASSUME Init PROVE OrderInv
  OBVIOUS
<1>1. TypeOK /\ Elems(<< >>) = {}
  BY InitIInv DEF IInv, Elems
<1>2. Flying = {}
  BY <1>1 DEF Init, Flying
<1>3. /\ \A c \in Conns : conn_id[c] = 0 /\ pc[c] # "added" /\ Streams[c] = << >>
      /\ \A c \in Conns : ~Sent(c)
  <2>1. << >> \o << >> = << >>
    OBVIOUS
  <2> QED
    BY <1>1, <2>1 DEF Init, Streams, Stream, Sent
<1>4. Unsent = {} /\ Due = {} /\ \A c \in Conns : Handing[c] = {}
  <2>1. \A c \in Conns : c \notin Due
    BY <1>1, <1>3, AbstractState DEF DueIs, Added
  <2>2. Unsent = {}
    BY <1>1, <1>2, AbstractState DEF UnsentIs, Init
  <2> QED
    BY <1>1, <1>3, <2>1, <2>2, AbstractState DEF HandingIs, Due
<1>5. NoneAhead
  <2>1. \A s \in Slots : stored[s] = None
    BY DEF Init
  <2> QED
    BY <1>1, <1>3, <1>4, <2>1 DEF NoneAhead
<1>6. OneTarget
  BY <1>4 DEF OneTarget
<1>7. InWriteOrder
  BY <1>1 DEF Init, InWriteOrder
<1>8. Ordered
  BY <1>3 DEF Ordered, StreamOK
<1> QED
  BY <1>5, <1>6, <1>7, <1>8 DEF OrderInv

LEMMA NextKeepsOrderInv == FeedInv /\ OrderInv /\ [Next]_vars => OrderInv'
<1> SUFFICES ASSUME FeedInv, OrderInv, [Next]_vars PROVE OrderInv'
  OBVIOUS
<1>1. TypeOK /\ TypeOK'
  BY NextKeepsType DEF FeedInv, IInv
<1>2. [Multicast!Next]_(Multicast!vars)
  BY StepImplements
<1>3. NoneAhead' /\ OneTarget'
  BY <1>1, <1>2, KeepsNoneAhead, KeepsOneTarget DEF OrderInv
<1>4. ASSUME OneWriter PROVE InWriteOrder'
  BY <1>1, <1>4, NextKeepsWriteOrder DEF OrderInv
<1>5. ASSUME OneWriter PROVE Ordered'
  <2>1. CASE Forward
    BY <1>1, <1>5, <2>1, ForwardKeepsOrdered DEF OrderInv
  <2>2. CASE ~Forward
    BY <1>1, <1>2, <1>5, <2>2, OnlyForwardGives, QuietKeepsOrdered DEF OrderInv
  <2> QED
    BY <2>1, <2>2
<1>6. OneWriter' <=> OneWriter
  BY DEF OneWriter
<1> QED
  BY <1>3, <1>4, <1>5, <1>6 DEF OrderInv

(***************************************************************************)
(* With one writer at a time, a client is handed the values of each bucket *)
(* in the order of the WriteFragment commands that brought them, refused   *)
(* ones included, except, at most once per bucket, for the value its       *)
(* initial sync read (handle_client_connected of kernel.rs reads under the *)
(* state lock and queues later; run_forwarder of hub.rs keeps the order of *)
(* the channel; a command takes the state lock once, then broadcasts).     *)
(***************************************************************************)
THEOREM StepsBack == Spec => []StepsBackOnce
<1>1. FeedInv /\ OrderInv => StepsBackOnce
  <2> SUFFICES ASSUME OrderInv, OneWriter, NEW c \in Conns, NEW b \in BucketIds, NEW r \in Rooms
               PROVE  Cardinality({j \in DOMAIN Stream(c) :
                        /\ Stream(c)[j].room = r /\ Stream(c)[j].bucket = b
                        /\ NotNewer(Stream(c), j)}) <= 1
    BY DEF StepsBackOnce
  <2> DEFINE S == {j \in DOMAIN Stream(c) :
                        /\ Stream(c)[j].room = r /\ Stream(c)[j].bucket = b
                        /\ NotNewer(Stream(c), j)}
  <2>1. \A i, j \in S : i = j
    BY DEF OrderInv, Ordered, StreamOK, Key, Streams
  <2> HIDE DEF S
  <2>2. CASE S = {}
    <3>1. Cardinality(S) = 0
      BY <2>2, FS_EmptySet
    <3> QED
      BY <3>1 DEF S
  <2>3. CASE S # {}
    <3>1. PICK x \in S : TRUE
      BY <2>3
    <3>2. S = {x}
      BY <2>1, <3>1
    <3>3. Cardinality(S) = 1
      BY <3>2, FS_Singleton
    <3> QED
      BY <3>3 DEF S
  <2> QED
    BY <2>2, <2>3
<1> QED
  BY <1>1, InitOrderInv, NextKeepsOrderInv, FeedInvAlways, PTL DEF Spec


-----------------------------------------------------------------------------
(* What clients are given, and from which rooms.                            *)
OwnSync == \A c \in Conns : \A u \in Handing[c] : u.room = ClaimedRoom[c]

LEMMA KeepsOwnSync ==
    OwnSync /\ [Multicast!Next]_(Multicast!vars) => OwnSync'
<1> SUFFICES ASSUME OwnSync, [Multicast!Next]_(Multicast!vars)
             PROVE  \A c \in Conns : \A u \in Handing'[c] : u.room = ClaimedRoom[c]
  BY DEF OwnSync
<1>0. Handing = [c \in Conns |-> Handing[c]]
  BY DEF Handing
<1>1. \/ \A c \in Conns : Handing'[c] \subseteq Handing[c]
      \/ \E c \in Conns : Handing' = Handing \/ Handing' = [Handing EXCEPT ![c] = Stored(c)]
  BY FeedSteps
<1>2. \A c \in Conns : \A u \in Handing'[c] : u \in Handing[c] \/ u \in Stored(c)
  BY <1>0, <1>1
<1>3. \A c \in Conns : \A u \in Stored(c) : u.room = ClaimedRoom[c]
  BY StoredIs
<1> QED
  BY <1>2, <1>3 DEF OwnSync

LEMMA OwnSyncAlways == Spec => []OwnSync
<1>1. Init => OwnSync
  <2> SUFFICES ASSUME Init PROVE OwnSync
    OBVIOUS
  <2>1. TypeOK /\ \A c \in Conns : conn_id[c] = 0
    BY InitIInv DEF IInv, Init
  <2>2. \A c \in Conns : Handing[c] = {}
    BY <2>1, AbstractState DEF HandingIs
  <2> QED
    BY <2>2 DEF OwnSync
<1>2. FeedInv /\ OwnSync /\ [Next]_vars => OwnSync'
  BY StepImplements, KeepsOwnSync
<1> QED
  BY <1>1, <1>2, FeedInvAlways, PTL DEF Spec

(***************************************************************************)
(* The values an initial sync puts on their way to a client are of the     *)
(* room its token names (handle_client_connected asks the hub for it).     *)
(***************************************************************************)
SyncsOwnRoom ==
    \A c \in Conns : conn_id[c] # 0 =>
        \A u \in Pending(conn_id[c]) : u.room = ClaimedRoom[c]

THEOREM SyncStaysInRoom == Spec => []SyncsOwnRoom
<1>1. OwnSync => SyncsOwnRoom
  BY DEF OwnSync, SyncsOwnRoom, Handing
<1> QED
  BY <1>1, OwnSyncAlways, PTL

(***************************************************************************)
(* How far OnlyOwnRoom can fail: a client is given updates one at a time,  *)
(* by the forwarder alone, and a value of another room only by a broadcast *)
(* (broadcast_update of hub.rs), which finds its recipients by bucket id;  *)
(* the bucket is one of those the client may read in its own room.         *)
(***************************************************************************)
Gives(c, u) == Stream(c)' = Append(Stream(c), u)

ForeignOnlyByBroadcast ==
    [][\A c \in Conns :
         \/ Stream(c)' = Stream(c)
         \/ /\ Forward /\ Gives(c, forwarding.update)
            /\ forwarding.update.bucket \in Allowed(c)
            /\ forwarding.update.room # ClaimedRoom[c] => forwarding.to = None]_vars

THEOREM ForeignValuesAreBroadcasts == Spec => ForeignOnlyByBroadcast
<1>1. FeedInv /\ OwnSync /\ [Next]_vars =>
        [\A c \in Conns :
           \/ Stream(c)' = Stream(c)
           \/ /\ Forward /\ Gives(c, forwarding.update)
              /\ forwarding.update.bucket \in Allowed(c)
              /\ forwarding.update.room # ClaimedRoom[c] => forwarding.to = None]_vars
  <2> SUFFICES ASSUME FeedInv, OwnSync, [Next]_vars, NEW c \in Conns, Stream(c)' # Stream(c)
               PROVE  /\ Forward /\ Gives(c, forwarding.update)
                      /\ forwarding.update.bucket \in Allowed(c)
                      /\ forwarding.update.room # ClaimedRoom[c] => forwarding.to = None
    OBVIOUS
  <2>0. TypeOK /\ TypeOK' /\ IInv'
    BY NextKeepsType, NextKeepsIInv DEF FeedInv, IInv
  <2>1. Streams[c] = Stream(c) /\ Streams'[c] = Stream(c)'
    BY DEF Streams
  <2>2. Forward
    BY <2>0, <2>1, OnlyForwardGives
  <2>3. /\ Picked(c) /\ Stream(c)' = Append(Stream(c), forwarding.update)
        /\ forwarding.update \in Update
    BY <2>0, <2>1, <2>2, ForwardSeen
  <2>4. forwarding.update.bucket \in Allowed(c)
    <3>1. Stream(c) \in Seq(Update)
      BY <2>0, <2>1, FeedTypes
    <3>2. /\ Len(Stream(c)) + 1 \in DOMAIN Stream(c)'
          /\ Stream(c)'[Len(Stream(c)) + 1] = forwarding.update
      BY <2>3, <3>1
    <3>3. \A i \in DOMAIN Stream(c)' :
             /\ Stream(c)'[i].bucket \in ClaimedBuckets[c] \cup {PublicBucket}
             /\ Stream(c)'[i].bucket # ReservedBucket
      BY <2>0, Zenon DEF IInv, NothingOutsideGrant
    <3> QED
      BY <3>2, <3>3 DEF Allowed
  <2>5. ASSUME forwarding.to # None PROVE forwarding.update.room = ClaimedRoom[c]
    <3>1. PICK d \in Conns : /\ forwarding.update \in Handing[d]
                             /\ \A e \in Conns : Picked(e) <=> e = d /\ Registered(d)
      BY <2>0, <2>2, <2>5, ForwardTargets
    <3>2. c = d
      BY <2>3, <3>1
    <3> QED
      BY <3>1, <3>2 DEF OwnSync
  <2> QED
    BY <2>2, <2>3, <2>4, <2>5 DEF Gives
<1> QED
  BY <1>1, FeedInvAlways, OwnSyncAlways, PTL DEF Spec, ForeignOnlyByBroadcast

-----------------------------------------------------------------------------
(* How often a client is given one value.                                   *)
\* The values an initial sync of the client may still give it.
Offers(c) == {u \in Update : c \in Due \/ u \in Handing[c]}

\* A stream s, the broadcasts L still to come and the values P still to be synchronised.
TwiceOK(s, L, P) ==
    /\ \A i, j, k \in DOMAIN s : i < j /\ j < k => ~(s[i] = s[j] /\ s[j] = s[k])
    /\ \A i, j \in DOMAIN s : i < j /\ s[i] = s[j] => s[i] \notin L /\ s[i] \notin P
    /\ \A i \in DOMAIN s : s[i] \in L => s[i] \notin P

TwiceInv ==
    \A c \in Conns :
       /\ Member[c] = "new" => Streams[c] = << >>
       /\ TwiceOK(Streams[c], Unsent, Offers(c))

LEMMA TwiceFewer ==
    ASSUME NEW s, NEW L, NEW P, NEW M \in SUBSET L, NEW Q \in SUBSET P, TwiceOK(s, L, P)
    PROVE  TwiceOK(s, M, Q)
  BY DEF TwiceOK

\* One of the two ways is used up.
LEMMA TwiceGiven ==
    ASSUME NEW s \in Seq(Update), NEW u \in Update, NEW L, NEW P, TwiceOK(s, L, P),
           NEW M \in SUBSET L, NEW Q \in SUBSET P,
           (u \in L /\ u \notin M) \/ (u \in P /\ u \notin Q)
    PROVE  TwiceOK(Append(s, u), M, Q)
<1> DEFINE t == Append(s, u)
           n == Len(s) + 1
<1>1. /\ Len(s) \in Nat /\ DOMAIN s = 1..Len(s) /\ DOMAIN t = 1..n
      /\ \A i \in 1..Len(s) : t[i] = s[i]
      /\ t[n] = u
  BY AppendNotNewer
<1>2. \A i \in 1..n : i \in 1..Len(s) \/ i = n
  BY <1>1
<1> HIDE DEF t
<1>3. ASSUME NEW i \in 1..Len(s), s[i] = u PROVE u \notin M /\ u \notin Q
  BY <1>1, <1>3 DEF TwiceOK
<1>4. ASSUME NEW i \in DOMAIN t, NEW j \in DOMAIN t, i < j, t[i] = t[j]
      PROVE  i \in 1..Len(s) /\ t[i] = s[i] /\ t[i] \notin M /\ t[i] \notin Q
  <2>1. i \in 1..Len(s) /\ (j \in 1..Len(s) \/ j = n)
    BY <1>1, <1>2, <1>4
  <2>2. CASE j \in 1..Len(s)
    BY <1>1, <1>4, <2>1, <2>2 DEF TwiceOK
  <2>3. CASE j = n
    BY <1>1, <1>3, <1>4, <2>1, <2>3
  <2> QED
    BY <2>1, <2>2, <2>3
<1>5. ASSUME NEW i \in DOMAIN t, NEW j \in DOMAIN t, NEW k \in DOMAIN t,
             i < j, j < k, t[i] = t[j], t[j] = t[k]
      PROVE  FALSE
  <2>1. i \in 1..Len(s) /\ j \in 1..Len(s) /\ s[i] = s[j] /\ t[j] = s[j]
    BY <1>1, <1>4, <1>5
  <2>2. s[i] \notin L /\ s[i] \notin P
    BY <1>1, <1>5, <2>1 DEF TwiceOK
  <2>3. k \in 1..Len(s)
    BY <1>1, <1>2, <1>5, <2>1, <2>2
  <2> QED
    BY <1>1, <1>5, <2>1, <2>3 DEF TwiceOK
<1>6. ASSUME NEW i \in DOMAIN t, t[i] \in M PROVE t[i] \notin Q
  <2>1. CASE i \in 1..Len(s)
    BY <1>1, <1>6, <2>1 DEF TwiceOK
  <2>2. CASE i = n
    <3>1. u \in M
      BY <1>1, <1>6, <2>2
    <3> QED
      BY <1>1, <2>2, <3>1
  <2> QED
    BY <1>1, <1>2, <2>1, <2>2
<1> QED
  BY <1>4, <1>5, <1>6 DEF TwiceOK, t

\* Of a value just stored, nobody has been given anything.
LEMMA TwiceStored ==
    ASSUME NEW s \in Seq(Update), NEW u, NEW L, NEW P, TwiceOK(s, L, P),
           \A i \in DOMAIN s : s[i] # u
    PROVE  TwiceOK(s, L \cup {u}, P)
  BY DEF TwiceOK

LEMMA ForwardKeepsTwice ==
    ASSUME FeedInv, TypeOK', OneTarget, TwiceInv, Forward
    PROVE  TwiceInv'
<1> DEFINE u == forwarding.update
<1>0. /\ TypeOK /\ Handing = [c \in Conns |-> Handing[c]]
      /\ \A c \in Conns : Streams[c] \in Seq(Update)
  BY FeedTypes DEF FeedInv, IInv, Handing
<1>1. /\ u \in Update /\ Due' = Due
      /\ \A c \in Conns :
            /\ ~Picked(c) => Streams'[c] = Streams[c] /\ Member'[c] = Member[c]
            /\ Picked(c) => /\ Member[c] = "in"
                            /\ \/ Streams'[c] = Append(Streams[c], u) /\ Member'[c] = "in"
                               \/ Streams'[c] = Streams[c] /\ Member'[c] = "out"
  BY ForwardSeen
<1> SUFFICES ASSUME NEW c \in Conns
             PROVE  /\ Member'[c] = "new" => Streams'[c] = << >>
                    /\ TwiceOK(Streams'[c], Unsent',
                               {x \in Update : c \in Due' \/ x \in Handing'[c]})
  <2>1. (\A d \in Conns : /\ Member[d] = "new" => Streams[d] = << >>
                          /\ TwiceOK(Streams[d], Unsent,
                                     {x \in Update : d \in Due \/ x \in Handing[d]}))'
    BY DEF TwiceOK
  <2> QED
    BY <2>1 DEF TwiceInv, Offers
<1> DEFINE O == {x \in Update : c \in Due' \/ x \in Handing'[c]}
<1>2. Member'[c] = "new" => Streams'[c] = << >>
  BY <1>1 DEF TwiceInv
<1>3. TwiceOK(Streams[c], Unsent, Offers(c))
  BY DEF TwiceInv
<1> HIDE DEF u
<1>4. CASE forwarding.to = None
  <2>1. u \in Unsent /\ Unsent' = Unsent \ {u} /\ Handing' = Handing
    BY <1>4, ForwardBroadcasts DEF u
  <2>2. O = Offers(c)
    BY <1>1, <2>1 DEF Offers
  <2>3. Unsent' \in SUBSET Unsent /\ O \in SUBSET Offers(c) /\ u \notin Unsent'
    BY <2>1, <2>2
  <2> HIDE DEF O
  <2>4. TwiceOK(Streams[c], Unsent', O) /\ TwiceOK(Append(Streams[c], u), Unsent', O)
    BY <1>0, <1>1, <1>3, <2>1, <2>3, TwiceFewer, TwiceGiven
  <2> QED
    BY <1>1, <1>2, <2>4 DEF O
<1>5. CASE forwarding.to # None
  <2>1. PICK d \in Conns :
           /\ u \in Handing[d] /\ Handing' = [Handing EXCEPT ![d] = @ \ {u}]
           /\ \A e \in Conns : Picked(e) <=> e = d /\ Registered(d)
    BY <1>5, ForwardTargets DEF u
  <2>2. Unsent' = Unsent
    BY <1>5, ForwardTargets
  <2>3. Handing'[c] = IF c = d THEN Handing[c] \ {u} ELSE Handing[c]
    BY <1>0, <2>1
  <2>4. O \in SUBSET Offers(c) /\ Unsent' \in SUBSET Unsent
    BY <1>1, <2>2, <2>3 DEF Offers
  <2>5. c = d => u \in Offers(c) /\ u \notin O
    BY <1>1, <2>1, <2>3 DEF Offers, OneTarget
  <2> HIDE DEF O
  <2>6. TwiceOK(Streams[c], Unsent', O)
    BY <1>3, <2>4, TwiceFewer
  <2>7. c = d => TwiceOK(Append(Streams[c], u), Unsent', O)
    BY <1>0, <1>1, <1>3, <2>4, <2>5, TwiceGiven
  <2> QED
    BY <1>1, <1>2, <2>1, <2>6, <2>7 DEF O
<1> QED
  BY <1>4, <1>5

LEMMA QuietKeepsTwice ==
    ASSUME TypeOK, TypeOK', NoneAhead, TwiceInv, [Multicast!Next]_(Multicast!vars),
           Streams' = Streams
    PROVE  TwiceInv'
<1>0. /\ \A c \in Conns : /\ Streams[c] \in Seq(Update) /\ Elems(Streams[c]) \subseteq Update
                          /\ Handing'[c] \subseteq Update
      /\ Handing = [c \in Conns |-> Handing[c]]
      /\ Member = [c \in Conns |-> Member[c]]
  BY FeedTypes, FeedTypesNext, ElemsType DEF Handing, Member
<1> DEFINE O(c) == {x \in Update : c \in Due' \/ x \in Handing'[c]}
<1> SUFFICES ASSUME NEW c \in Conns
             PROVE  /\ Member'[c] = "new" => Streams[c] = << >>
                    /\ TwiceOK(Streams[c], Unsent', O(c))
  <2>1. (\A d \in Conns : /\ Member[d] = "new" => Streams[d] = << >>
                          /\ TwiceOK(Streams[d], Unsent,
                                     {x \in Update : d \in Due \/ x \in Handing[d]}))'
    BY DEF TwiceOK
  <2> QED
    BY <2>1 DEF TwiceInv, Offers
<1>1. (Member[c] = "new" => Streams[c] = << >>) /\ TwiceOK(Streams[c], Unsent, Offers(c))
  BY DEF TwiceInv
<1>2. ASSUME Member'[c] = "new" => Member[c] = "new",
             Unsent' \in SUBSET Unsent, O(c) \in SUBSET Offers(c)
      PROVE  /\ Member'[c] = "new" => Streams[c] = << >>
             /\ TwiceOK(Streams[c], Unsent', O(c))
  <2> HIDE DEF O
  <2>1. TwiceOK(Streams[c], Unsent', O(c))
    BY <1>1, <1>2, TwiceFewer
  <2> QED
    BY <1>1, <1>2, <2>1
<1>3. CASE \E r \in Rooms, b \in BucketIds :
                 /\ writes' = writes + 1
                 /\ \/ \E v \in {writes + 1, None} :
                          stored' = [stored EXCEPT ![<<r, b>>] = v]
                    \/ UNCHANGED stored
                 /\ Unsent' = Unsent \cup {[room |-> r, bucket |-> b, value |-> writes + 1]}
                 /\ UNCHANGED <<Member, Due, Handing, Streams>>
  <2>1. PICK r \in Rooms, b \in BucketIds :
                 /\ writes' = writes + 1
                 /\ \/ \E v \in {writes + 1, None} :
                          stored' = [stored EXCEPT ![<<r, b>>] = v]
                    \/ UNCHANGED stored
                 /\ Unsent' = Unsent \cup {[room |-> r, bucket |-> b, value |-> writes + 1]}
                 /\ UNCHANGED <<Member, Due, Handing, Streams>>
    BY <1>3
  <2> DEFINE new == [room |-> r, bucket |-> b, value |-> writes + 1]
  <2>3. ASSUME NEW i \in DOMAIN Streams[c], Streams[c][i] = new PROVE FALSE
    <3>1. Streams[c][i] \in Elems(Streams[c])
      BY DEF Elems
    <3>2. Streams[c][i].value <= writes
      BY <3>1 DEF NoneAhead
    <3>3. new.value = writes + 1 /\ writes \in Nat
      BY DEF TypeOK
    <3> QED
      BY <2>3, <3>2, <3>3
  <2>4. O(c) = Offers(c) /\ Unsent' = Unsent \cup {new} /\ Member' = Member
    BY <2>1 DEF Offers
  <2> HIDE DEF O, new
  <2>5. TwiceOK(Streams[c], Unsent \cup {new}, Offers(c))
    BY <1>0, <1>1, <2>3, TwiceStored
  <2> QED
    BY <1>1, <2>4, <2>5
<1>4. CASE \E d \in Conns :
                 /\ Member[d] = "new" /\ Member' = [Member EXCEPT ![d] = "in"]
                 /\ Due' = Due \cup {d}
                 /\ UNCHANGED <<store, Unsent, Handing, Streams>>
  <2>1. PICK d \in Conns :
                 /\ Member[d] = "new" /\ Member' = [Member EXCEPT ![d] = "in"]
                 /\ Due' = Due \cup {d}
                 /\ Unsent' = Unsent /\ Handing' = Handing
    BY <1>4
  <2>2. Member'[c] = "new" => Member[c] = "new"
    BY <1>0, <2>1
  <2>3. CASE c = d
    BY <1>1, <2>1, <2>3 DEF TwiceOK
  <2>4. CASE c # d
    <3>1. O(c) = Offers(c)
      BY <2>1, <2>4 DEF Offers
    <3> QED
      BY <1>2, <2>1, <2>2, <3>1
  <2> QED
    BY <2>3, <2>4
<1>5. CASE \E d \in Conns :
                 /\ d \in Due /\ Due' = Due \ {d}
                 /\ Handing' = Handing \/ Handing' = [Handing EXCEPT ![d] = Stored(d)]
                 /\ UNCHANGED <<store, Unsent, Member, Streams>>
  <2>1. PICK d \in Conns :
                 /\ d \in Due /\ Due' = Due \ {d}
                 /\ Handing' = Handing \/ Handing' = [Handing EXCEPT ![d] = Stored(d)]
                 /\ Unsent' = Unsent /\ Member' = Member
    BY <1>5
  <2>2. (c # d => Handing'[c] = Handing[c]) /\ (c = d => c \in Due)
    BY <1>0, <2>1
  <2>3. O(c) \in SUBSET Offers(c)
    BY <2>1, <2>2 DEF Offers
  <2> QED
    BY <1>2, <2>1, <2>3
<1>6. CASE /\ UNCHANGED <<store, Due>>
           /\ Unsent' \subseteq Unsent
           /\ \A d \in Conns :
                 /\ Handing'[d] \subseteq Handing[d]
                 /\ \/ Streams'[d] = Streams[d]
                    \/ \E u \in Unsent \cup Handing[d] : Streams'[d] = Append(Streams[d], u)
                 /\ Member'[d] = "new" => Member[d] = "new" /\ Streams'[d] = Streams[d]
  <2>1. O(c) \in SUBSET Offers(c)
    BY <1>6 DEF Offers
  <2> QED
    BY <1>2, <1>6, <2>1
<1>7. CASE UNCHANGED <<Unsent, Member, Due, Handing, Streams>>
  <2>1. O(c) = Offers(c)
    BY <1>7 DEF Offers
  <2> HIDE DEF O
  <2> QED
    BY <1>1, <1>7, <2>1
<1> QED
  BY <1>3, <1>4, <1>5, <1>6, <1>7, FeedSteps

LEMMA InitTwice == Init => TwiceInv
<1> SUFFICES ASSUME Init, NEW c \in Conns
             PROVE  Streams[c] = << >> /\ TwiceOK(Streams[c], Unsent, Offers(c))
  BY DEF TwiceInv
<1>1. << >> \o << >> = << >>
  OBVIOUS
<1>2. Streams[c] = << >>
  BY <1>1 DEF Init, Streams, Stream
<1> QED
  BY <1>2 DEF TwiceOK

(***************************************************************************)
(* A client is given the same value at most twice, once by its broadcast   *)
(* and once by its initial sync, whatever the writers do (add_client of    *)
(* hub.rs registers it before handle_client_connected reads the store, so  *)
(* a value stored in between goes both ways).                              *)
(***************************************************************************)
SentAtMostTwice ==
    \A c \in Conns : \A i, j, k \in DOMAIN Stream(c) :
        i < j /\ j < k => ~(Stream(c)[i] = Stream(c)[j] /\ Stream(c)[j] = Stream(c)[k])

THEOREM AtMostTwice == Spec => []SentAtMostTwice
<1>1. TwiceInv => SentAtMostTwice
  BY DEF TwiceInv, TwiceOK, SentAtMostTwice, Streams
<1>2. FeedInv /\ OrderInv /\ TwiceInv /\ [Next]_vars => TwiceInv'
  <2> SUFFICES ASSUME FeedInv, OrderInv, TwiceInv, [Next]_vars PROVE TwiceInv'
    OBVIOUS
  <2>1. TypeOK /\ TypeOK' /\ NoneAhead /\ OneTarget
    BY NextKeepsType DEF FeedInv, IInv, OrderInv
  <2>2. CASE Forward
    BY <2>1, <2>2, ForwardKeepsTwice
  <2>3. CASE ~Forward
    BY <2>1, <2>3, StepImplements, OnlyForwardGives, QuietKeepsTwice
  <2> QED
    BY <2>2, <2>3
<1> QED
  BY <1>1, <1>2, InitTwice, InitOrderInv, NextKeepsOrderInv, FeedInvAlways, PTL DEF Spec
=============================================================================
