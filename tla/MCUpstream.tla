----------------------------- MODULE MCUpstream -----------------------------
(* An instance of Upstream: one room id, two buckets, one key; labels and   *)
(* members share the names.                                                 *)
EXTENDS Upstream, TLC

CONSTANTS b0, bS, k1, v1, name

MCBuckets == {b0, bS}
MCTrim == (name :> name) @@ (Empty :> Empty)
=============================================================================
