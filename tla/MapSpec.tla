------------------------------ MODULE MapSpec ------------------------------
(***************************************************************************)
(* What a VAL_MAP promises its users: a finite function from keys to       *)
(* values.  It is built by writing the given pairs in order, so that the   *)
(* last write to a key wins, and is then only read.                        *)
(***************************************************************************)
EXTENDS Naturals, Sequences

CONSTANTS Key, Value, Inputs, NULL, NoKey

VARIABLES phase,    \* "idle", "building", "ready" or "asking"
          pairs,    \* the key-value pairs val_map was called with
          next,     \* index of the first pair not yet written
          map,      \* the map: NULL for a key that is absent
          ask,      \* the key of the last val_map_get
          answer    \* what the last finished val_map_get returned

vars == <<phase, pairs, next, map, ask, answer>>

Init ==
    /\ phase = "idle"
    /\ pairs = <<>>
    /\ next = 1
    /\ map = [k \in Key |-> NULL]
    /\ ask = NoKey
    /\ answer = NULL

Call ==
    /\ phase = "idle"
    /\ \E p \in Inputs :
        /\ pairs' = p
        /\ phase' \in IF p = <<>> THEN {"ready"} ELSE {"building"}
    /\ UNCHANGED <<next, map, ask, answer>>

Write ==
    /\ phase = "building"
    /\ next <= Len(pairs)
    /\ map' = [map EXCEPT ![pairs[next][1]] = pairs[next][2]]
    /\ next' = next + 1
    /\ UNCHANGED <<phase, pairs, ask, answer>>

Seal ==
    /\ phase = "building"
    /\ next > Len(pairs)
    /\ phase' = "ready"
    /\ UNCHANGED <<pairs, next, map, ask, answer>>

Ask ==
    /\ phase = "ready"
    /\ \E k \in Key : ask' = k
    /\ phase' = "asking"
    /\ UNCHANGED <<pairs, next, map, answer>>

Answer ==
    /\ phase = "asking"
    /\ answer' = map[ask]
    /\ phase' = "ready"
    /\ UNCHANGED <<pairs, next, map, ask>>

Next == Call \/ Write \/ Seal \/ Ask \/ Answer

Spec == Init /\ [][Next]_vars
=============================================================================
