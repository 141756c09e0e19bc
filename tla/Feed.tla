-------------------------------- MODULE Feed --------------------------------
(***************************************************************************)
(* What the websocket side of a server promises, without connections,      *)
(* ids, channels, locks or tasks: a multicast of stored values.            *)
(*                                                                         *)
(* A client joins once and may leave or be dropped.  A written value is    *)
(* stored or refused.  In both cases it is published in one step, to every *)
(* client that subscribes to its bucket at that moment, or is lost for all *)
(* of them; a subscriber that does not get a published value is dropped in *)
(* that same step.  Entries of the store may also go, or be replaced by    *)
(* restored ones; this is not published.  Once per join, the values then   *)
(* stored, restored ones included, are read for the client and handed to   *)
(* it one by one, in any order, each at most once.  Nothing else enters a  *)
(* client's stream.                                                        *)
(*                                                                         *)
(* Downstream implements this module (Downstream!FeedSpec).                *)
(***************************************************************************)
EXTENDS Naturals, Sequences

CONSTANTS
    Clients, Rooms, Buckets,
    RoomOf,     \* client -> the room it may read, or something that is no room
    GrantOf,    \* client -> the buckets it may read
    None        \* no value

VARIABLES
    writes,     \* number of values written so far
    stored,     \* room, bucket -> the number of the value stored there, 0 if
                \* it was restored, None if there is none
    unsent,     \* updates written and neither published nor lost
    member,     \* client -> "new", "in" or "out"
    due,        \* clients whose initial synchronisation has yet to read the store
    handing,    \* client -> updates its synchronisation has read and not handed over
    stream      \* client -> the updates it is given, in order

store == <<writes, stored>>
vars  == <<writes, stored, unsent, member, due, handing, stream>>

UpdateOf(r, b, v) == [room |-> r, bucket |-> b, value |-> v]

StoredFor(c) ==
    {UpdateOf(RoomOf[c], b, stored[<<RoomOf[c], b>>]) :
        b \in {d \in GrantOf[c] : stored[<<RoomOf[c], d>>] # None}}

\* A broadcast carries a bucket and no room: subscription is by bucket alone.
Subscribers(u) == {c \in Clients : member[c] = "in" /\ u.bucket \in GrantOf[c]}

Init ==
    /\ writes = 0
    /\ stored = [rb \in Rooms \X Buckets |-> None]
    /\ unsent = {}
    /\ member = [c \in Clients |-> "new"]
    /\ due = {}
    /\ handing = [c \in Clients |-> {}]
    /\ stream = [c \in Clients |-> << >>]

\* A null leaves nothing stored; a refused value leaves the store alone.
Write(r, b) ==
    /\ writes' = writes + 1
    /\ \/ \E v \in {writes + 1, None} : stored' = [stored EXCEPT ![<<r, b>>] = v]
       \/ UNCHANGED stored
    /\ unsent' = unsent \cup {UpdateOf(r, b, writes + 1)}
    /\ UNCHANGED <<member, due, handing, stream>>

\* Rooms are loaded and unloaded, rooms and buckets deleted.
Replace ==
    /\ stored' \in [Rooms \X Buckets -> Nat \cup {None}]
    /\ \A rb \in Rooms \X Buckets : stored'[rb] \in {stored[rb], 0, None}
    /\ UNCHANGED <<writes, unsent, member, due, handing, stream>>

Lose(u) ==
    /\ unsent' = unsent \ {u}
    /\ UNCHANGED <<store, member, due, handing, stream>>

\* The subscribers in D are dropped, all others are given the update.
Publish(u) ==
    /\ unsent' = unsent \ {u}
    /\ \E D \in SUBSET Subscribers(u) :
          /\ member' = [c \in Clients |-> IF c \in D THEN "out" ELSE member[c]]
          /\ stream' = [c \in Clients |->
                IF c \in Subscribers(u) \ D THEN Append(stream[c], u) ELSE stream[c]]
    /\ UNCHANGED <<store, due, handing>>

Join(c) ==
    /\ member[c] = "new"
    /\ member' = [member EXCEPT ![c] = "in"]
    /\ due' = due \cup {c}
    /\ UNCHANGED <<store, unsent, handing, stream>>

Leave(c) ==
    /\ member[c] = "in"
    /\ member' = [member EXCEPT ![c] = "out"]
    /\ UNCHANGED <<store, unsent, due, handing, stream>>

\* The initial synchronisation reads the store, or is given up.
Synchronise(c) ==
    /\ c \in due
    /\ due' = due \ {c}
    /\ handing' \in {handing, [handing EXCEPT ![c] = StoredFor(c)]}
    /\ UNCHANGED <<store, unsent, member, stream>>

\* One value of the synchronisation; a client that cannot take it is dropped.
Hand(c, u) ==
    /\ member[c] = "in"
    /\ handing' = [handing EXCEPT ![c] = @ \ {u}]
    /\ \/ stream' = [stream EXCEPT ![c] = Append(@, u)] /\ UNCHANGED member
       \/ member' = [member EXCEPT ![c] = "out"] /\ UNCHANGED stream
    /\ UNCHANGED <<store, unsent, due>>

\* The values in S are not handed over: no room for them, or the client left.
GiveUp(c, S) ==
    /\ handing' = [handing EXCEPT ![c] = @ \ S]
    /\ UNCHANGED <<store, unsent, member, due, stream>>

Next ==
    \/ \E r \in Rooms, b \in Buckets : Write(r, b)
    \/ Replace
    \/ \E u \in unsent : Lose(u) \/ Publish(u)
    \/ \E c \in Clients :
          \/ Join(c) \/ Leave(c) \/ Synchronise(c)
          \/ \E u \in handing[c] : Hand(c, u)
          \/ \E S \in SUBSET handing[c] : GiveUp(c, S)

Spec == Init /\ [][Next]_vars
=============================================================================
