------------------------------ MODULE MCTokens ------------------------------
(* Instance of Tokens over several rooms and labels and very little data.   *)
EXTENDS Tokens, TLC

CONSTANTS b0, bS, k1, v1, name, padded, blank

MCBuckets == {b0, bS}
MCTrim == (name :> name) @@ (padded :> name) @@ (blank :> blank)

\* The room comes back from disk with one bucket and one fragment.
MCImages ==
    {[defs      |-> (b0 :> [label |-> Absent, flags |-> {}]),
      members   |-> {name},
      fragments |-> [s \in Slots |-> IF s[1] = b0 THEN v1 ELSE Absent]]}
=============================================================================
