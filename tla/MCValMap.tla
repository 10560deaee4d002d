------------------------------ MODULE MCValMap ------------------------------
(***************************************************************************)
(* Five keys whose hashes collide in every way an eight-slot table knows:  *)
(* equal hashes (k1, k2), equal only modulo 8 (k3), a neighbour whose home *)
(* slot a longer chain runs through (k4), and a chain that wraps past the  *)
(* end of the table into a home slot (k5).  The j-th pair of a call has    *)
(* the value j, so that every write is told from every other.              *)
(***************************************************************************)
EXTENDS ValMap, SequencesExt

CONSTANTS k1, k2, k3, k4, k5,
          MaxPairs    \* longest argument of val_map; 5 makes the table grow

MCKey == {k1, k2, k3, k4, k5}
Hashes == (k1 :> 7) @@ (k2 :> 7) @@ (k3 :> 15) @@ (k4 :> 6) @@ (k5 :> 0)
Calls ==
    {[j \in DOMAIN s |-> <<s[j], j>>] : s \in SeqOf({k1, k2, k3, k4, k5}, MaxPairs)}

MCHash == Hashes
MCInputs == Calls
=============================================================================
