------------------------------ MODULE MCKernel ------------------------------
(* Instances of Kernel: two buckets, one key; labels and members share the  *)
(* names.  Symmetric in the tasks.                                          *)
EXTENDS Kernel, TLC

CONSTANTS b0, bS, k1, v1, name

MCBuckets == {b0, bS}
MCTrim == (name :> name) @@ (Empty :> Empty)
Interchangeable == Permutations(Tasks)
=============================================================================
