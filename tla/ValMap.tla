------------------------------- MODULE ValMap -------------------------------
(***************************************************************************)
(* The hash map of val.c: val_map fills an open-addressed table of         *)
(* power-of-two capacity by linear probing, val_map_get probes it and      *)
(* val_map_entry enumerates it.                                            *)
(*                                                                         *)
(* A key stands for a class of values that val_cmp calls equal; Hash gives *)
(* the hash_val all members of the class share (the hash contract).        *)
(* One action is one turn of a loop of the code.  The local variable slot  *)
(* of the code is SlotAt(key, dist), dist being the number of slots the    *)
(* probe has left behind.                                                  *)
(***************************************************************************)
EXTENDS Integers, Sequences, FiniteSets

CONSTANTS
    Key,       \* classes of equal keys
    Value,     \* values stored in a map
    Hash,      \* hash_val of a key
    MinCap,    \* capacity the growth loop starts from (8 in the code)
    Inputs,    \* the arguments val_map is called with
    NULL,      \* the null pointer val_map_get returns for an absent key
    Empty      \* a slot that holds no key; also "nothing asked yet"

ASSUME ValMapAssumption ==
    /\ Hash \in [Key -> Nat]
    /\ MinCap \in Nat \ {0}
    /\ Inputs \subseteq Seq(Key \X Value)
    /\ Empty \notin Key
    /\ NULL \notin Value

VARIABLES
    phase,     \* where the code is: see Phases
    pairs,     \* keys[0..len-1], vals[0..len-1] given to val_map
    next,      \* the pair being inserted (i of the code, from 1)
    cap,       \* as.map.cap
    keys,      \* as.map.keys
    vals,      \* as.map.vals
    count,     \* occupied slots; as.map.len of the finished map
    dist,      \* probe distance of the running probe
    ask,       \* key of the last val_map_get
    answer     \* what the last finished val_map_get returned

vars == <<phase, pairs, next, cap, keys, vals, count, dist, ask, answer>>
table == <<cap, keys, vals, count>>

Phases == {"idle", "grow", "insert", "ready", "probe"}

Slots == IF phase \in {"idle", "grow"} THEN {} ELSE 0 .. cap - 1
SlotAt(k, d) == (Hash[k] + d) % cap
Occupied == {s \in Slots : keys[s] # Empty}

-----------------------------------------------------------------------------
(* val_map *)

Init ==
    /\ phase = "idle"
    /\ pairs = <<>>
    /\ next = 1
    /\ cap = 0
    /\ keys = <<>>
    /\ vals = <<>>
    /\ count = 0
    /\ dist = 0
    /\ ask = Empty
    /\ answer = NULL

CallEmpty ==
    /\ phase = "idle"
    /\ <<>> \in Inputs
    /\ phase' = "ready"
    /\ UNCHANGED <<pairs, next, table, dist, ask, answer>>

(* Faulty: the growth loop starts from nothing and never grows. *)
CallNoCap ==
    /\ phase = "idle"
    /\ \E p \in Inputs : p # <<>> /\ pairs' = p
    /\ phase' = "grow"
    /\ cap' = 0
    /\ UNCHANGED <<next, keys, vals, count, dist, ask, answer>>

Call ==
    /\ phase = "idle"
    /\ \E p \in Inputs : p # <<>> /\ pairs' = p
    /\ phase' = "grow"
    /\ cap' = MinCap
    /\ UNCHANGED <<next, keys, vals, count, dist, ask, answer>>

TooSmall == cap < 2 * Len(pairs)

Grow ==
    /\ phase = "grow"
    /\ TooSmall
    /\ cap' = 2 * cap
    /\ UNCHANGED <<phase, pairs, next, keys, vals, count, dist, ask, answer>>

Allocate ==
    /\ phase = "grow"
    /\ ~TooSmall
    /\ phase' = "insert"
    /\ keys' = [s \in 0 .. cap - 1 |-> Empty]
    /\ vals' = [s \in 0 .. cap - 1 |-> NULL]
    /\ UNCHANGED <<pairs, next, cap, count, dist, ask, answer>>

(* The key, the value and the slot of the insertion under way. *)
InsKey == pairs[next][1]
InsVal == pairs[next][2]
InsSlot == SlotAt(InsKey, dist)

Inserting ==
    /\ phase = "insert"
    /\ next <= Len(pairs)

InsertFree ==
    /\ Inserting
    /\ keys[InsSlot] = Empty
    /\ keys' = [keys EXCEPT ![InsSlot] = InsKey]
    /\ vals' = [vals EXCEPT ![InsSlot] = InsVal]
    /\ count' = count + 1
    /\ next' = next + 1
    /\ dist' = 0
    /\ UNCHANGED <<phase, pairs, cap, ask, answer>>

(* Faulty: the first write wins; a duplicate is counted. *)
InsertSameKept ==
    /\ Inserting
    /\ keys[InsSlot] = InsKey
    /\ next' = next + 1
    /\ dist' = 0
    /\ UNCHANGED <<phase, pairs, table, ask, answer>>

InsertSameCounted ==
    /\ Inserting
    /\ keys[InsSlot] = InsKey
    /\ vals' = [vals EXCEPT ![InsSlot] = InsVal]
    /\ count' = count + 1
    /\ next' = next + 1
    /\ dist' = 0
    /\ UNCHANGED <<phase, pairs, cap, keys, ask, answer>>

InsertSame ==
    /\ Inserting
    /\ keys[InsSlot] = InsKey
    /\ vals' = [vals EXCEPT ![InsSlot] = InsVal]
    /\ next' = next + 1
    /\ dist' = 0
    /\ UNCHANGED <<phase, pairs, cap, keys, count, ask, answer>>

(* Faulty: the probe does not move. *)
InsertProbeStuck ==
    /\ Inserting
    /\ keys[InsSlot] \notin {Empty, InsKey}
    /\ UNCHANGED vars

InsertProbe ==
    /\ Inserting
    /\ keys[InsSlot] \notin {Empty, InsKey}
    /\ dist' = dist + 1
    /\ UNCHANGED <<phase, pairs, next, table, ask, answer>>

Finish ==
    /\ phase = "insert"
    /\ next > Len(pairs)
    /\ phase' = "ready"
    /\ UNCHANGED <<pairs, next, table, dist, ask, answer>>

-----------------------------------------------------------------------------
(* val_map_get *)

Get ==
    /\ phase = "ready"
    /\ ask' \in Key
    /\ phase' = "probe"
    /\ dist' = 0
    /\ UNCHANGED <<pairs, next, table, answer>>

GetEmpty ==
    /\ phase = "probe"
    /\ count = 0
    /\ answer' = NULL
    /\ phase' = "ready"
    /\ UNCHANGED <<pairs, next, table, dist, ask>>

Probing == phase = "probe" /\ count # 0
AskSlot == SlotAt(ask, dist)

(* Faulty: gives up at the first slot of another key. *)
GetMissEarly ==
    /\ Probing
    /\ keys[AskSlot] # ask
    /\ answer' = NULL
    /\ phase' = "ready"
    /\ UNCHANGED <<pairs, next, table, dist, ask>>

GetMiss ==
    /\ Probing
    /\ keys[AskSlot] = Empty
    /\ answer' = NULL
    /\ phase' = "ready"
    /\ UNCHANGED <<pairs, next, table, dist, ask>>

GetHit ==
    /\ Probing
    /\ keys[AskSlot] = ask
    /\ answer' = vals[AskSlot]
    /\ phase' = "ready"
    /\ UNCHANGED <<pairs, next, table, dist, ask>>

(* Faulty: does not stop at an empty slot. *)
GetProbePast ==
    /\ Probing
    /\ keys[AskSlot] # ask
    /\ dist' = dist + 1
    /\ UNCHANGED <<phase, pairs, next, table, ask, answer>>

GetProbe ==
    /\ Probing
    /\ keys[AskSlot] \notin {Empty, ask}
    /\ dist' = dist + 1
    /\ UNCHANGED <<phase, pairs, next, table, ask, answer>>

Insert == InsertFree \/ InsertSame \/ InsertProbe
Lookup == GetEmpty \/ GetMiss \/ GetHit \/ GetProbe

Next ==
    \/ CallEmpty \/ Call \/ Grow \/ Allocate \/ Insert \/ Finish
    \/ Get \/ Lookup

Spec == Init /\ [][Next]_vars

(* The loops are sequential code: once entered they keep running.  Nothing *)
(* obliges a caller to ask for a key.                                      *)
Fairness == WF_vars(Grow \/ Allocate \/ Insert \/ Finish \/ Lookup)
FairSpec == Spec /\ Fairness

-----------------------------------------------------------------------------
(* val_map_entry: entry n is the occupied slot with n occupied slots       *)
(* before it; an index from len on has no entry.                           *)
Rank(s) == Cardinality({t \in Occupied : t < s})
EntrySlot(n) == {s \in Occupied : n < count /\ Rank(s) = n}

-----------------------------------------------------------------------------
(* Properties *)

(* The shape of the table: val_map's arrays have cap slots, and hold keys  *)
(* and values of the call (val.c:235-275).                                 *)
TypeOK ==
    /\ phase \in Phases
    /\ phase \in {"idle", "grow"} => next = 1 /\ count = 0 /\ dist = 0
    /\ phase = "idle" => cap = 0 /\ pairs = <<>>
    /\ pairs \in Seq(Key \X Value)
    /\ next \in 1 .. Len(pairs) + 1
    /\ cap \in Nat
    /\ phase \in {"grow", "insert"} \/ count > 0 => cap > 0
    /\ keys \in [Slots -> Key \cup {Empty}]
    /\ vals \in [Slots -> Value \cup {NULL}]
    /\ count \in Nat
    /\ dist \in Nat
    /\ ask \in Key \cup {Empty}
    /\ phase = "probe" => ask \in Key
    /\ answer \in Value \cup {NULL}

(* The first d slots of k's probe sequence all hold other keys. *)
Crowded(k, d) == \A e \in 0 .. d - 1 : keys[SlotAt(k, e)] \notin {Empty, k}

(* Every stored key is reached from its home slot before any empty slot,   *)
(* whatever was inserted around it; so a probe that stops at an empty slot *)
(* proves the key absent (val.c:249-268).                                  *)
Reachable ==
    \A s \in Occupied :
        \E d \in Nat : s = SlotAt(keys[s], d) /\ Crowded(keys[s], d)

(* The table is never more than half full and count counts the occupied    *)
(* slots, duplicates excluded: as.map.len is the number of entries.        *)
HalfFull ==
    phase \in {"insert", "ready", "probe"} =>
        /\ count = Cardinality(Occupied)
        /\ 2 * count <= cap

(* A probe never walks past more slots than there are keys: the infinite   *)
(* loops of val_map and val_map_get neither wrap around nor spin.          *)
ProbeBound == phase \in {"insert", "probe"} => dist <= count

(* The last value the call gave for k, NULL if it gave none. *)
LastWrite(k) ==
    LET at == {j \in DOMAIN pairs : pairs[j][1] = k}
    IN  IF at = {} THEN NULL
        ELSE pairs[CHOOSE j \in at : \A l \in at : l <= j][2]

(* val_map_get returns the last value given for the key, or NULL for a key *)
(* that was never given ("Duplicate key: last write wins", val.c:262).     *)
GetIsLastWrite ==
    phase = "ready" /\ ask # Empty => answer = LastWrite(ask)

(* val_map_entry with 0, 1, ..., len-1 visits each distinct key of the call *)
(* exactly once, with its last value (val.c:554-571).                      *)
EntriesExact ==
    phase = "ready" =>
        LET index == 0 .. count - 1
            Given == {pairs[j][1] : j \in DOMAIN pairs}
        IN  /\ \A n \in index : Cardinality(EntrySlot(n)) = 1
            /\ UNION {{<<keys[s], vals[s]>> : s \in EntrySlot(n)} : n \in index}
                 = {<<k, LastWrite(k)>> : k \in Given}

(* Building a map and looking a key up both come to an end. *)
Terminates ==
    /\ phase = "grow" ~> phase = "ready"
    /\ phase = "probe" ~> phase = "ready"

(* The table implements the function: a map at any moment maps each key to *)
(* the value in the slot that holds it.                                    *)
MapOf ==
    [k \in Key |->
        IF \E s \in Occupied : keys[s] = k
        THEN vals[CHOOSE s \in Occupied : keys[s] = k]
        ELSE NULL]

AbsPhase ==
    CASE phase \in {"grow", "insert"} -> "building"
      [] phase = "probe" -> "asking"
      [] OTHER -> phase

Abstract == INSTANCE MapSpec WITH
    phase <- AbsPhase, map <- MapOf, NoKey <- Empty

(* val_map and val_map_get behave as the plain function of MapSpec: the    *)
(* whole state of the table is the function val.c:235-275 was asked for.   *)
ImplementsMap == Abstract!Spec
=============================================================================
