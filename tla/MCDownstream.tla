---------------------------- MODULE MCDownstream ----------------------------
(* Instances of Downstream: two connections, bucket 0 with or without the   *)
(* reserved bucket.                                                         *)
EXTENDS Downstream, TLC

CONSTANTS c1, c2, r1, r2, b0, bS

\* Both tokens name every bucket, a reserved one too; the two connections are
\* for one room or for two.
OneRoom  == [c \in Conns |-> r1]
TwoRooms == [c \in Conns |-> IF c = c1 THEN r1 ELSE r2]
Grants   == [c \in Conns |-> BucketIds]

\* Sound with OneRoom: the same room and grant for all.
Interchangeable == Permutations(Conns)
=============================================================================
