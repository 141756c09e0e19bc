----------------------------- MODULE MCRoomSync -----------------------------
(* Instance of RoomSync: one room, enough data for every kind of write.     *)
EXTENDS RoomSync, TLC

CONSTANTS b0, b1, bS, k1, v1, f1

MCBuckets == {b0, b1, bS}
MCTrim == << >>   \* no names: MCTokens covers labels and members

\* A persisted room: bucket 1 defined with flags, bucket 0 holding fragments
\* nobody defined a bucket for.
MCImages ==
    {[defs      |-> (b1 :> [label |-> Absent, flags |-> {f1}]),
      members   |-> {},
      fragments |-> [s \in Slots |-> IF s[1] # bS THEN v1 ELSE Absent]]}
=============================================================================
