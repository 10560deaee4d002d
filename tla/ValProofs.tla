------------------------------ MODULE ValProofs ------------------------------
(***************************************************************************)
(* Theorems about two parts of val.c: the hash map of ValMap, for every    *)
(* set of keys, every hash function and every call; and the order and the  *)
(* hash of ValCmp, for every set of finite values.                         *)
(***************************************************************************)
EXTENDS ValMap, ValCmp, FunctionTheorems, FiniteSetTheorems, WellFoundedInduction, TLAPS

-----------------------------------------------------------------------------
(* The hash map: ValMap *)

(* A probe position is always a slot of the table: the mask of the code. *)
LEMMA SlotInTable ==
    ASSUME NEW k \in Key, NEW d \in Nat, cap \in Nat, cap > 0
    PROVE  SlotAt(k, d) \in 0 .. cap - 1
<1>1. Hash[k] \in Nat
  BY ValMapAssumption
<1>2. Hash[k] + d \in Nat
  BY <1>1
<1>3. (Hash[k] + d) % cap \in 0 .. cap - 1
  BY <1>2
<1> QED
  BY <1>3 DEF SlotAt

(* The pair being inserted belongs to the call. *)
LEMMA InsPair ==
    ASSUME TypeOK, Inserting
    PROVE  /\ InsKey \in Key /\ InsKey # Empty /\ InsVal \in Value
           /\ cap \in Nat /\ cap > 0 /\ Slots = 0 .. cap - 1
           /\ next \in 1 .. Len(pairs) /\ dist \in Nat
           /\ InsSlot \in Slots
<1>1. next \in 1 .. Len(pairs) /\ pairs \in Seq(Key \X Value)
  BY DEF TypeOK, Inserting
<1>2. pairs[next] \in Key \X Value
  BY <1>1
<1>3. /\ cap \in Nat /\ cap > 0 /\ Slots = 0 .. cap - 1 /\ dist \in Nat
  BY DEF TypeOK, Inserting, Slots
<1>4. InsKey \in Key /\ InsKey # Empty /\ InsVal \in Value
  BY <1>2, ValMapAssumption DEF InsKey, InsVal
<1>5. InsSlot \in Slots
  BY <1>3, <1>4, SlotInTable DEF InsSlot
<1> QED
  BY <1>1, <1>3, <1>4, <1>5

(* A lookup that probes works on a table that has slots. *)
LEMMA AskedKey ==
    ASSUME TypeOK, Probing
    PROVE  /\ ask \in Key /\ ask # Empty
           /\ cap \in Nat /\ cap > 0 /\ Slots = 0 .. cap - 1
           /\ dist \in Nat /\ AskSlot \in Slots
<1>1. /\ ask \in Key /\ ask # Empty /\ cap \in Nat /\ cap > 0
      /\ Slots = 0 .. cap - 1 /\ dist \in Nat
  BY ValMapAssumption DEF TypeOK, Probing, Slots
<1>2. AskSlot \in Slots
  BY <1>1, SlotInTable DEF AskSlot
<1> QED
  BY <1>1, <1>2

-----------------------------------------------------------------------------
(* Type correctness *)

(* Before the call there is no table. *)
LEMMA TypeInit == Init => TypeOK
<1> SUFFICES ASSUME Init PROVE TypeOK
  OBVIOUS
<1>1. pairs \in Seq(Key \X Value) /\ Len(pairs) = 0
  BY DEF Init
<1>2. Slots = {}
  BY DEF Init, Slots
<1>3. keys \in [Slots -> Key \cup {Empty}] /\ vals \in [Slots -> Value \cup {NULL}]
  BY <1>2 DEF Init
<1> QED
  BY <1>1, <1>3 DEF Init, TypeOK, Phases

(* No turn of a loop of val_map or val_map_get breaks the shape of the     *)
(* table.                                                                  *)
LEMMA TypeNext == TypeOK /\ [Next]_vars => TypeOK'
<1> SUFFICES ASSUME TypeOK, [Next]_vars PROVE TypeOK'
  OBVIOUS
<1> USE DEF TypeOK, Phases, table
<1>1. CASE CallEmpty
  <2>1. Slots = {} /\ Slots' = {}
    BY <1>1 DEF CallEmpty, Slots
  <2> QED
    BY <1>1, <2>1 DEF CallEmpty
<1>2. CASE Call
  <2>1. Slots = {} /\ Slots' = {}
    BY <1>2 DEF Call, Slots
  <2>2. pairs' \in Seq(Key \X Value) /\ pairs' # <<>>
    BY <1>2, ValMapAssumption DEF Call
  <2> QED
    BY <1>2, <2>1, <2>2, ValMapAssumption DEF Call
<1>3. CASE Grow
  <2>1. Slots = {} /\ Slots' = {}
    BY <1>3 DEF Grow, Slots
  <2> QED
    BY <1>3, <2>1 DEF Grow
<1>4. CASE Allocate
  <2>1. Slots' = 0 .. cap - 1
    BY <1>4 DEF Allocate, TooSmall, Slots
  <2> QED
    BY <1>4, <2>1 DEF Allocate, TooSmall
<1>5. ASSUME Insert \/ Finish \/ Get \/ Lookup
      PROVE  Slots' = Slots
  BY <1>5 DEF Insert, InsertFree, InsertSame, InsertProbe, Inserting, Finish, Get,
      Lookup, GetEmpty, GetMiss, GetHit, GetProbe, Probing, Slots
<1>6. CASE Insert
  <2>0. Inserting
    BY <1>6 DEF Insert, InsertFree, InsertSame, InsertProbe
  <2>1. CASE InsertFree
    <3>1. /\ InsKey \in Key /\ InsVal \in Value /\ InsSlot \in Slots
          /\ next \in 1 .. Len(pairs)
      BY <2>0, InsPair
    <3>2. /\ keys' \in [Slots' -> Key \cup {Empty}]
          /\ vals' \in [Slots' -> Value \cup {NULL}]
      BY <2>1, <3>1, <1>5, <1>6 DEF InsertFree
    <3>3. next' \in 1 .. Len(pairs') + 1 /\ count' \in Nat /\ dist' = 0
      BY <2>1, <3>1 DEF InsertFree
    <3> QED
      BY <2>0, <2>1, <3>2, <3>3 DEF InsertFree, Inserting
  <2>2. CASE InsertSame
    <3>1. InsVal \in Value /\ InsSlot \in Slots /\ next \in 1 .. Len(pairs)
      BY <2>0, InsPair
    <3>2. vals' \in [Slots' -> Value \cup {NULL}]
      BY <2>2, <3>1, <1>5, <1>6 DEF InsertSame
    <3>3. next' \in 1 .. Len(pairs') + 1 /\ dist' = 0
      BY <2>2, <3>1 DEF InsertSame
    <3> QED
      BY <2>0, <2>2, <3>2, <3>3, <1>5, <1>6 DEF InsertSame, Inserting
  <2>3. CASE InsertProbe
    BY <2>0, <2>3, <1>5, <1>6 DEF InsertProbe, Inserting
  <2> QED
    BY <1>6, <2>1, <2>2, <2>3 DEF Insert
<1>7. CASE Finish
  BY <1>5, <1>7 DEF Finish
<1>8. CASE Get
  BY <1>5, <1>8 DEF Get
<1>9. CASE Lookup
  <2>1. CASE GetHit
    BY <2>1, <1>5, <1>9, AskedKey DEF GetHit, Probing
  <2>2. CASE GetEmpty \/ GetMiss \/ GetProbe
    BY <2>2, <1>5, <1>9 DEF GetEmpty, GetMiss, GetProbe, Probing
  <2> QED
    BY <1>9, <2>1, <2>2 DEF Lookup
<1>10. CASE UNCHANGED vars
  BY <1>10 DEF vars, Slots
<1> QED
  BY <1>1, <1>2, <1>3, <1>4, <1>6, <1>7, <1>8, <1>9, <1>10 DEF Next

-----------------------------------------------------------------------------
(* The probe sequences *)

(* Two numbers less than c apart leave different remainders. *)
LEMMA RemaindersDiffer ==
    ASSUME NEW h \in Nat, NEW c \in Nat, c > 0,
           NEW d \in 0 .. c - 1, NEW e \in 0 .. d - 1
    PROVE  (h + d) % c # (h + e) % c
<1> SUFFICES ASSUME (h + d) % c = (h + e) % c
             PROVE  FALSE
  OBVIOUS
<1> DEFINE q == (h + d) \div c
           r == (h + e) \div c
<1>1. /\ q \in Int /\ r \in Int
      /\ h + d = c * q + ((h + d) % c)
      /\ h + e = c * r + ((h + e) % c)
  OBVIOUS
<1>2. d - e = c * q - c * r
  BY <1>1
<1> HIDE DEF q, r
<1>3. d - e = c * (q - r)
  BY <1>1, <1>2
<1>4. CASE q - r <= 0
  BY <1>1, <1>3, <1>4
<1>5. CASE q - r >= 1
  BY <1>1, <1>3, <1>5
<1> QED
  BY <1>1, <1>4, <1>5

(* Two probe positions of a key less than cap apart are different slots. *)
LEMMA SlotsDiffer ==
    ASSUME NEW k \in Key, cap \in Nat, cap > 0,
           NEW d \in 0 .. cap - 1, NEW e \in 0 .. d - 1
    PROVE  SlotAt(k, d) # SlotAt(k, e)
BY RemaindersDiffer, ValMapAssumption DEF SlotAt

(* The running probe has only passed slots that hold other keys. *)
Probed ==
    /\ Inserting => Crowded(InsKey, dist)
    /\ Probing => Crowded(ask, dist)

(* Passing one more slot that holds another key. *)
LEMMA CrowdedStep ==
    ASSUME NEW k \in Key, NEW d \in Nat, Crowded(k, d),
           keys[SlotAt(k, d)] \notin {Empty, k}
    PROVE  Crowded(k, d + 1)
BY DEF Crowded

(* An empty table leads every probe to an empty slot. *)
LEMMA ReachableInit == Init => Reachable /\ Probed
BY DEF Init, Reachable, Probed, Occupied, Slots, Inserting, Probing

(* An insertion fills the first empty slot of its probe, so that no probe  *)
(* of a stored key is cut off, and every probe moves past slots of other   *)
(* keys only.                                                              *)
LEMMA ReachableNext ==
    TypeOK /\ Reachable /\ Probed /\ [Next]_vars => Reachable' /\ Probed'
<1> SUFFICES ASSUME TypeOK, Reachable, Probed, [Next]_vars
             PROVE  Reachable' /\ Probed'
  OBVIOUS
<1>1. CASE CallEmpty \/ Call \/ Grow \/ Allocate
  <2>1. Occupied' = {}
    <3>1. CASE Allocate
      BY <3>1 DEF Allocate, TooSmall, Occupied, Slots
    <3>2. CASE CallEmpty \/ Call \/ Grow
      <4>1. phase' \in {"idle", "grow"} \/ (phase' = "ready" /\ cap' = 0)
        BY <3>2 DEF CallEmpty, Call, Grow, TypeOK, table
      <4>2. Slots' = {}
        BY <4>1 DEF Slots
      <4> QED
        BY <4>2 DEF Occupied
    <3> QED
      BY <1>1, <3>1, <3>2
  <2>2. ~Probing'
    BY <1>1 DEF CallEmpty, Call, Grow, Allocate, Probing
  <2>3. Inserting' => dist' = 0
    BY <1>1 DEF CallEmpty, Call, Grow, Allocate, Inserting, TypeOK
  <2> QED
    BY <2>1, <2>2, <2>3 DEF Reachable, Probed, Crowded
<1>2. ASSUME keys' = keys, cap' = cap, Slots' = Slots
      PROVE  /\ Reachable'
             /\ \A k \in Key, d \in Nat : Crowded(k, d) => Crowded(k, d)'
  BY <1>2 DEF Reachable, Occupied, Crowded, SlotAt
<1>3. CASE InsertFree
  <2>1. /\ InsKey \in Key /\ InsKey # Empty /\ InsSlot \in Slots /\ dist \in Nat
        /\ cap \in Nat /\ cap > 0 /\ Slots = 0 .. cap - 1
    BY <1>3, InsPair DEF InsertFree
  <2>2. /\ Slots' = Slots /\ cap' = cap /\ ~Probing' /\ dist' = 0
        /\ keys[InsSlot] = Empty /\ keys' = [keys EXCEPT ![InsSlot] = InsKey]
    BY <1>3 DEF InsertFree, Inserting, Slots, Probing
  <2>3. ASSUME NEW k \in Key, NEW d \in Nat, Crowded(k, d)
        PROVE  Crowded(k, d)'
    <3>1. SUFFICES ASSUME NEW e \in 0 .. d - 1
                   PROVE  keys'[SlotAt(k, e)] = keys[SlotAt(k, e)]
      BY <2>2, <2>3 DEF Crowded, SlotAt
    <3>2. keys[SlotAt(k, e)] # Empty
      BY <2>3 DEF Crowded
    <3>3. SlotAt(k, e) \in Slots /\ SlotAt(k, e) # InsSlot
      <4>1. e \in Nat
        OBVIOUS
      <4> QED
        BY <2>1, <2>2, <3>2, <4>1, SlotInTable
    <3> QED
      BY <2>2, <3>3 DEF TypeOK
  <2>4. Occupied' = Occupied \cup {InsSlot}
    BY <2>1, <2>2 DEF Occupied, TypeOK
  <2>5. ASSUME NEW s \in Occupied', NEW k \in Key, k = keys'[s]
        PROVE  \E d \in Nat : s = SlotAt(k, d)' /\ Crowded(k, d)'
    <3>1. CASE s = InsSlot
      <4>1. k = InsKey
        BY <2>1, <2>2, <2>5, <3>1 DEF TypeOK
      <4>2. s = SlotAt(k, dist) /\ Crowded(k, dist)
        BY <1>3, <3>1, <4>1 DEF Probed, InsertFree, InsSlot
      <4>3. \A d \in Nat : s = SlotAt(k, d) /\ Crowded(k, d)
                => s = SlotAt(k, d)' /\ Crowded(k, d)'
        BY <2>2, <2>3 DEF SlotAt
      <4> QED
        BY <2>1, <4>2, <4>3
    <3>2. CASE s # InsSlot
      <4>1. s \in Occupied /\ k = keys[s]
        BY <2>2, <2>4, <2>5, <3>2 DEF Occupied, TypeOK
      <4>2. PICK d \in Nat : s = SlotAt(k, d) /\ Crowded(k, d)
        BY <4>1 DEF Reachable
      <4> QED
        BY <2>2, <2>3, <4>2 DEF SlotAt
    <3> QED
      BY <3>1, <3>2
  <2>6. \A s \in Occupied' : keys'[s] \in Key
    BY <2>1, <2>2, <2>4 DEF Occupied, TypeOK
  <2>7. \A s \in Occupied' :
            \E d \in Nat : s = SlotAt(keys[s], d)' /\ Crowded(keys[s], d)'
    BY <2>5, <2>6 DEF SlotAt, Crowded
  <2> QED
    BY <2>2, <2>7 DEF Reachable, Probed, Crowded
<1>4. CASE InsertSame
  <2>1. keys' = keys /\ cap' = cap /\ Slots' = Slots /\ ~Probing' /\ dist' = 0
    BY <1>4 DEF InsertSame, Inserting, Slots, Probing
  <2> QED
    BY <2>1, <1>2 DEF Probed, Crowded
<1>5. CASE InsertProbe
  <2>1. /\ keys' = keys /\ cap' = cap /\ Slots' = Slots /\ ~Probing'
        /\ InsKey' = InsKey /\ dist' = dist + 1
    BY <1>5 DEF InsertProbe, table, Inserting, Slots, Probing, InsKey
  <2>2. InsKey \in Key /\ dist \in Nat
    BY <1>5, InsPair DEF InsertProbe
  <2>3. Crowded(InsKey, dist + 1)
    BY <1>5, <2>2, CrowdedStep DEF InsertProbe, InsSlot, Probed
  <2> QED
    BY <2>1, <2>3, <1>2 DEF Probed, Crowded, SlotAt
<1>6. CASE Finish
  BY <1>6, <1>2 DEF Finish, table, Slots, Probed, Probing, Inserting
<1>7. CASE Get
  <2>1. keys' = keys /\ cap' = cap /\ Slots' = Slots /\ ~Inserting' /\ dist' = 0
    BY <1>7 DEF Get, table, Slots, Inserting
  <2> QED
    BY <2>1, <1>2 DEF Probed, Crowded
<1>8. CASE GetEmpty \/ GetMiss \/ GetHit
  <2>1. keys' = keys /\ cap' = cap /\ Slots' = Slots /\ ~Inserting' /\ ~Probing'
    BY <1>8 DEF GetEmpty, GetMiss, GetHit, Probing, Inserting, table, Slots
  <2> QED
    BY <2>1, <1>2 DEF Probed
<1>9. CASE GetProbe
  <2>1. /\ keys' = keys /\ cap' = cap /\ Slots' = Slots /\ ~Inserting'
        /\ ask' = ask /\ dist' = dist + 1
    BY <1>9 DEF GetProbe, table, Inserting, Slots, Probing
  <2>2. ask \in Key /\ dist \in Nat
    BY <1>9, AskedKey DEF GetProbe
  <2>3. Crowded(ask, dist + 1)
    BY <1>9, <2>2, CrowdedStep DEF GetProbe, AskSlot, Probed
  <2> QED
    BY <2>1, <2>3, <1>2 DEF Probed, Crowded, SlotAt
<1>10. CASE UNCHANGED vars
  BY <1>10, <1>2 DEF vars, Slots, Probed, Crowded, SlotAt, Inserting, Probing, InsKey
<1> QED
  BY <1>1, <1>3, <1>4, <1>5, <1>6, <1>7, <1>8, <1>9, <1>10 DEF Next, Insert, Lookup

(* No key sits in two slots. *)
LEMMA OneSlotPerKey ==
    ASSUME TypeOK, Reachable, NEW s \in Occupied, NEW t \in Occupied,
           keys[s] = keys[t]
    PROVE  s = t
<1> PICK d \in Nat : s = SlotAt(keys[s], d) /\ Crowded(keys[s], d)
  BY DEF Reachable
<1> PICK e \in Nat : t = SlotAt(keys[s], e) /\ Crowded(keys[s], e)
  BY DEF Reachable
<1>1. CASE d < e
  BY <1>1 DEF Crowded
<1>2. CASE e < d
  BY <1>2 DEF Crowded
<1> QED
  BY <1>1, <1>2

(* A probe of k that arrives at an empty slot shows that k is not stored. *)
LEMMA ProbeMiss ==
    ASSUME TypeOK, Reachable, NEW k \in Key, k # Empty, NEW d \in Nat,
           Crowded(k, d), keys[SlotAt(k, d)] = Empty,
           NEW s \in Occupied
    PROVE  keys[s] # k
<1> SUFFICES ASSUME keys[s] = k
             PROVE  FALSE
  OBVIOUS
<1>1. PICK e \in Nat : s = SlotAt(k, e) /\ Crowded(k, e)
  BY DEF Reachable
<1>2. CASE e < d
  BY <1>1, <1>2 DEF Crowded
<1>3. CASE d < e
  BY <1>1, <1>3 DEF Crowded
<1>4. CASE e = d
  BY <1>1, <1>4
<1> QED
  BY <1>2, <1>3, <1>4

-----------------------------------------------------------------------------
(* The load of the table and the length of a probe *)

(* count is the number of occupied slots, at most one per pair inserted,   *)
(* and the table has two slots for every pair of the call.                 *)
Counted ==
    /\ IsFiniteSet(Occupied) /\ count = Cardinality(Occupied)
    /\ count <= next - 1
    /\ phase \notin {"idle", "grow"} => 2 * Len(pairs) <= cap

(* Nothing is counted before the call. *)
LEMMA CountedInit == Init => Counted
<1> SUFFICES ASSUME Init PROVE Counted
  OBVIOUS
<1>1. Occupied = {}
  BY DEF Init, Occupied, Slots
<1> QED
  BY <1>1, FS_EmptySet DEF Init, Counted

(* The count follows the slots that are taken: a duplicate adds none. *)
LEMMA CountedNext == TypeOK /\ Counted /\ [Next]_vars => Counted'
<1> SUFFICES ASSUME TypeOK, Counted, [Next]_vars PROVE Counted'
  OBVIOUS
<1>1. CASE CallEmpty
  <2>1. Occupied' = {} /\ count = 0 /\ next = 1 /\ cap = 0 /\ Len(pairs) = 0
    <3>1. Slots' = {}
      BY <1>1 DEF CallEmpty, table, TypeOK, Slots
    <3> QED
      BY <1>1, <3>1 DEF CallEmpty, TypeOK, Occupied
  <2> QED
    BY <1>1, <2>1, FS_EmptySet DEF CallEmpty, table, Counted
<1>2. CASE Call \/ Grow
  <2>1. /\ Occupied' = {} /\ count' = 0 /\ next' = 1
        /\ phase' \in {"idle", "grow"}
    BY <1>2 DEF Call, Grow, TypeOK, Occupied, Slots
  <2> QED
    BY <2>1, FS_EmptySet DEF Counted
<1>3. CASE Allocate
  <2>1. Occupied' = {} /\ count' = 0 /\ next' = 1
    BY <1>3 DEF Allocate, TooSmall, TypeOK, Occupied, Slots
  <2>2. 2 * Len(pairs') <= cap'
    BY <1>3 DEF Allocate, TooSmall, TypeOK
  <2> QED
    BY <2>1, <2>2, FS_EmptySet DEF Counted
<1>4. CASE InsertFree
  <2>1. /\ InsSlot \in Slots /\ InsKey # Empty /\ Inserting /\ next \in Nat
    BY <1>4, InsPair DEF InsertFree, TypeOK
  <2>2. Occupied' = Occupied \cup {InsSlot} /\ InsSlot \notin Occupied
    BY <1>4, <2>1 DEF InsertFree, Inserting, Occupied, Slots, TypeOK
  <2>3. IsFiniteSet(Occupied') /\ Cardinality(Occupied') = count + 1
    BY <2>2, FS_AddElement DEF Counted
  <2>4. count' <= next' - 1 /\ 2 * Len(pairs') <= cap'
    BY <1>4, <2>1 DEF InsertFree, Inserting, Counted, TypeOK
  <2> QED
    BY <1>4, <2>3, <2>4 DEF InsertFree, Counted
<1>5. CASE InsertSame
  <2>1. Occupied' = Occupied /\ count' <= next' - 1 /\ 2 * Len(pairs') <= cap'
    BY <1>5, InsPair DEF InsertSame, Inserting, Occupied, Slots, Counted, TypeOK
  <2> QED
    BY <1>5, <2>1 DEF InsertSame, Counted
<1>6. CASE InsertProbe \/ Finish \/ Get \/ Lookup \/ UNCHANGED vars
  <2>1. /\ Occupied' = Occupied /\ UNCHANGED <<next, count, cap, pairs>>
        /\ phase \in {"idle", "grow"} <=> phase' \in {"idle", "grow"}
    BY <1>6 DEF InsertProbe, Inserting, Finish, Get, Lookup, GetEmpty, GetMiss,
        GetHit, GetProbe, Probing, table, vars, Occupied, Slots
  <2> QED
    BY <2>1 DEF Counted
<1> QED
  BY <1>1, <1>2, <1>3, <1>4, <1>5, <1>6 DEF Next, Insert

(* The growth loop left two slots for every pair, and no pair takes two. *)
LEMMA CountedHalfFull == TypeOK /\ Counted => HalfFull
BY DEF TypeOK, Counted, HalfFull

(* d different slots that are all occupied: d is at most their number. *)
LEMMA CrowdedBound ==
    ASSUME TypeOK, Counted, phase \in {"insert", "probe"}, cap > 0,
           NEW k \in Key, NEW d \in 0 .. cap, Crowded(k, d)
    PROVE  d <= count
<1> DEFINE f == [e \in 1 .. d |-> SlotAt(k, e - 1)]
<1>1. cap \in Nat /\ Slots = 0 .. cap - 1
  BY DEF TypeOK, Slots
<1>2. ASSUME NEW e \in 1 .. d
      PROVE  SlotAt(k, e - 1) \in Occupied
  <2>1. e - 1 \in 0 .. d - 1 /\ e - 1 \in Nat
    BY <1>1
  <2>2. SlotAt(k, e - 1) \in Slots
    BY <1>1, <2>1, SlotInTable
  <2> QED
    BY <2>1, <2>2 DEF Crowded, Occupied
<1>3. ASSUME NEW a \in 1 .. d, NEW b \in 1 .. d, a < b
      PROVE  SlotAt(k, a - 1) # SlotAt(k, b - 1)
  <2>1. b - 1 \in 0 .. cap - 1 /\ a - 1 \in 0 .. (b - 1) - 1
    BY <1>1, <1>3
  <2> QED
    BY <1>1, <2>1, SlotsDiffer
<1>4. ASSUME NEW a \in 1 .. d, NEW b \in 1 .. d, f[a] = f[b]
      PROVE  a = b
  BY <1>1, <1>3, <1>4
<1>5. f \in Injection(1 .. d, Occupied)
  BY <1>2, <1>4 DEF Injection, IsInjective
<1>6. Cardinality(1 .. d) <= Cardinality(Occupied)
  BY <1>5, FS_Injection DEF Counted
<1>7. Cardinality(1 .. d) = d
  BY <1>1, FS_Interval
<1> QED
  BY <1>6, <1>7 DEF Counted

(* A probe that moves on has one more taken slot behind it. *)
LEMMA BoundNext ==
    TypeOK /\ Counted /\ Probed /\ ProbeBound /\ [Next]_vars => ProbeBound'
<1> SUFFICES ASSUME TypeOK, Counted, Probed, ProbeBound, [Next]_vars
             PROVE  ProbeBound'
  OBVIOUS
<1>1. CASE InsertProbe
  <2>1. /\ InsKey \in Key /\ dist \in Nat /\ Inserting /\ phase = "insert"
        /\ cap \in Nat /\ cap > 0
    BY <1>1, InsPair DEF InsertProbe, Inserting
  <2>2. dist + 1 \in 0 .. cap
    BY <2>1, CountedHalfFull DEF HalfFull, ProbeBound, TypeOK
  <2>3. Crowded(InsKey, dist + 1)
    BY <1>1, <2>1, CrowdedStep DEF InsertProbe, InsSlot, Probed
  <2>4. dist + 1 <= count
    BY <2>1, <2>2, <2>3, CrowdedBound
  <2> QED
    BY <1>1, <2>4 DEF InsertProbe, table, ProbeBound
<1>2. CASE GetProbe
  <2>1. /\ ask \in Key /\ dist \in Nat /\ Probing /\ phase = "probe"
        /\ cap \in Nat /\ cap > 0
    BY <1>2, AskedKey DEF GetProbe, Probing
  <2>2. dist + 1 \in 0 .. cap
    BY <2>1, CountedHalfFull DEF HalfFull, ProbeBound, TypeOK
  <2>3. Crowded(ask, dist + 1)
    BY <1>2, <2>1, CrowdedStep DEF GetProbe, AskSlot, Probed
  <2>4. dist + 1 <= count
    BY <2>1, <2>2, <2>3, CrowdedBound
  <2> QED
    BY <1>2, <2>4 DEF GetProbe, table, ProbeBound
<1>3. CASE Allocate \/ InsertFree \/ InsertSame \/ Get
  BY <1>3 DEF Allocate, TooSmall, InsertFree, InsertSame, Get, table, ProbeBound, TypeOK
<1>4. CASE CallEmpty \/ Call \/ Grow \/ Finish \/ GetEmpty \/ GetMiss \/ GetHit
  BY <1>4 DEF CallEmpty, Call, Grow, Finish, GetEmpty, GetMiss, GetHit, ProbeBound
<1>5. CASE UNCHANGED vars
  BY <1>5 DEF vars, ProbeBound
<1> QED
  BY <1>1, <1>2, <1>3, <1>4, <1>5 DEF Next, Insert, Lookup

-----------------------------------------------------------------------------
(* The table implements the function of MapSpec *)

(* MapOf maps a stored key to its value, every other key to NULL. *)
LEMMA MapOfTable ==
    TypeOK /\ Reachable =>
        /\ \A s \in Occupied : keys[s] \in Key /\ MapOf[keys[s]] = vals[s]
        /\ \A k \in Key : (\A s \in Occupied : keys[s] # k) => MapOf[k] = NULL
        /\ MapOf = [k \in Key |-> MapOf[k]]
<1> SUFFICES ASSUME TypeOK, Reachable
             PROVE  /\ \A s \in Occupied : keys[s] \in Key /\ MapOf[keys[s]] = vals[s]
                    /\ \A k \in Key : (\A s \in Occupied : keys[s] # k) => MapOf[k] = NULL
                    /\ MapOf = [k \in Key |-> MapOf[k]]
  OBVIOUS
<1>1. ASSUME NEW s \in Occupied
      PROVE  keys[s] \in Key /\ MapOf[keys[s]] = vals[s]
  <2>1. keys[s] \in Key
    BY DEF Occupied, TypeOK
  <2> DEFINE t == CHOOSE u \in Occupied : keys[u] = keys[s]
  <2>2. t \in Occupied /\ keys[t] = keys[s]
    OBVIOUS
  <2>3. t = s
    BY <2>2, OneSlotPerKey
  <2> QED
    BY <2>1, <2>3 DEF MapOf
<1>2. ASSUME NEW k \in Key, \A s \in Occupied : keys[s] # k
      PROVE  MapOf[k] = NULL
  BY <1>2 DEF MapOf
<1>3. MapOf = [k \in Key |-> MapOf[k]]
  BY DEF MapOf
<1> QED
  BY <1>1, <1>2, <1>3

(* The same in the next state. *)
LEMMA MapOfTableNext ==
    (TypeOK /\ Reachable =>
        /\ \A s \in Occupied : keys[s] \in Key /\ MapOf[keys[s]] = vals[s]
        /\ \A k \in Key : (\A s \in Occupied : keys[s] # k) => MapOf[k] = NULL
        /\ MapOf = [k \in Key |-> MapOf[k]])'
BY MapOfTable, PTL

(* Writing one pair into the table is one write of the function. *)
LEMMA WriteOne ==
    ASSUME TypeOK, Reachable, TypeOK', Reachable',
           Inserting, InsertFree \/ InsertSame
    PROVE  MapOf' = [MapOf EXCEPT ![InsKey] = InsVal]
<1>1. /\ InsKey \in Key /\ InsKey # Empty /\ InsSlot \in Slots
  BY InsPair
<1>2. /\ Slots' = Slots /\ InsSlot \in Occupied' /\ keys'[InsSlot] = InsKey
      /\ vals'[InsSlot] = InsVal
  <2>1. CASE InsertFree
    BY <1>1, <2>1 DEF InsertFree, Inserting, Slots, Occupied, TypeOK
  <2>2. CASE InsertSame
    BY <1>1, <2>2 DEF InsertSame, Inserting, Slots, Occupied, TypeOK
  <2> QED
    BY <2>1, <2>2
<1>3. \A s \in Slots : s # InsSlot => keys'[s] = keys[s] /\ vals'[s] = vals[s]
  BY <1>1 DEF InsertFree, InsertSame, TypeOK
<1>4. ASSUME NEW k \in Key
      PROVE  MapOf'[k] = IF k = InsKey THEN InsVal ELSE MapOf[k]
  <2>1. CASE k = InsKey
    BY <1>2, <2>1, MapOfTableNext
  <2>2. CASE k # InsKey /\ \E s \in Occupied : keys[s] = k
    <3> PICK s \in Occupied : keys[s] = k
      BY <2>2
    <3>1. s # InsSlot
      BY <1>1, <2>2 DEF InsertFree, InsertSame, Occupied
    <3>2. s \in Occupied' /\ keys'[s] = k /\ vals'[s] = vals[s]
      BY <1>2, <1>3, <3>1 DEF Occupied
    <3> QED
      BY <2>2, <3>2, MapOfTable, MapOfTableNext
  <2>3. CASE k # InsKey /\ \A s \in Occupied : keys[s] # k
    <3>1. \A s \in Occupied' : keys'[s] # k
      BY <1>2, <1>3, <2>3 DEF Occupied
    <3> QED
      BY <2>3, <3>1, MapOfTable, MapOfTableNext
  <2> QED
    BY <2>1, <2>2, <2>3
<1> QED
  BY <1>4, MapOfTable, MapOfTableNext

(* The table does not change unless a pair is written. *)
LEMMA SameMap ==
    ASSUME Occupied' = Occupied, keys' = keys, vals' = vals
    PROVE  MapOf' = MapOf
BY DEF MapOf

(* A lookup that ends returns what the function has for the key asked. *)
LEMMA LookupRight ==
    ASSUME TypeOK, Reachable, Probed, Counted, GetEmpty \/ GetMiss \/ GetHit
    PROVE  answer' = MapOf[ask]
<1>1. ask \in Key
  BY DEF GetEmpty, GetMiss, GetHit, Probing, TypeOK
<1>2. CASE GetEmpty
  <2>1. Occupied = {}
    BY <1>2, FS_EmptySet DEF GetEmpty, Counted
  <2> QED
    BY <1>1, <1>2, <2>1, MapOfTable DEF GetEmpty
<1>3. CASE GetMiss
  <2>1. /\ dist \in Nat /\ Crowded(ask, dist) /\ ask # Empty
        /\ keys[SlotAt(ask, dist)] = Empty
    BY <1>3, AskedKey DEF GetMiss, AskSlot, Probed
  <2>2. \A s \in Occupied : keys[s] # ask
    BY <1>1, <2>1, ProbeMiss
  <2> QED
    BY <1>1, <1>3, <2>2, MapOfTable DEF GetMiss
<1>4. CASE GetHit
  <2>1. AskSlot \in Occupied /\ keys[AskSlot] = ask
    BY <1>4, AskedKey DEF GetHit, Occupied
  <2> QED
    BY <1>4, <2>1, MapOfTable DEF GetHit
<1> QED
  BY <1>2, <1>3, <1>4

-----------------------------------------------------------------------------
(* Last write wins *)

(* The table holds the last value written for each key written so far, and *)
(* the finished map every pair of the call.                                *)
Written ==
    /\ \A s \in Occupied : \E j \in 1 .. next - 1 :
        /\ pairs[j][1] = keys[s] /\ pairs[j][2] = vals[s]
        /\ \A l \in j + 1 .. next - 1 : pairs[l][1] # keys[s]
    /\ \A j \in 1 .. next - 1 : \E s \in Occupied : keys[s] = pairs[j][1]
    /\ phase \in {"ready", "probe"} => next = Len(pairs) + 1
    /\ phase \in {"idle", "grow", "insert"} => ask = Empty

(* Nothing is written before the call. *)
LEMMA WrittenInit == Init => Written
BY DEF Init, Written, Occupied, Slots

(* The slot of a key holds the last value written to it so far, and a key  *)
(* without a slot has not been written.                                    *)
LEMMA WrittenNext ==
    TypeOK /\ Reachable /\ Probed /\ Written /\ [Next]_vars => Written'
<1> SUFFICES ASSUME TypeOK, Reachable, Probed, Written, [Next]_vars
             PROVE  Written'
  OBVIOUS
<1>1. CASE CallEmpty
  <2>1. Occupied' = {} /\ next' = 1 /\ Len(pairs') = 0
    <3>1. Slots' = {}
      BY <1>1 DEF CallEmpty, table, TypeOK, Slots
    <3> QED
      BY <1>1, <3>1 DEF CallEmpty, TypeOK, Occupied
  <2> QED
    BY <1>1, <2>1 DEF CallEmpty, Written
<1>2. CASE Call \/ Grow \/ Allocate
  <2>1. /\ Occupied' = {} /\ next' = 1 /\ ask' = ask
        /\ phase \in {"idle", "grow"} /\ phase' \in {"grow", "insert"}
    BY <1>2 DEF Call, Grow, Allocate, TypeOK, Occupied, Slots
  <2> QED
    BY <2>1 DEF Written
<1>3. ASSUME InsertFree \/ InsertSame
      PROVE  Written'
  <2>1. /\ InsKey # Empty /\ InsSlot \in Slots /\ next \in 1 .. Len(pairs)
        /\ Inserting
    BY <1>3, InsPair DEF InsertFree, InsertSame
  <2>2. /\ Slots' = Slots /\ keys' \in [Slots -> Key \cup {Empty}]
        /\ keys'[InsSlot] = InsKey /\ vals'[InsSlot] = InsVal
        /\ \A s \in Slots : s # InsSlot => keys'[s] = keys[s] /\ vals'[s] = vals[s]
        /\ next' = next + 1 /\ pairs' = pairs /\ phase' = "insert" /\ ask' = ask
        /\ InsSlot \in Occupied => keys[InsSlot] = InsKey
    <3>1. CASE InsertFree
      BY <2>1, <3>1, InsPair DEF InsertFree, Inserting, Slots, Occupied, TypeOK
    <3>2. CASE InsertSame
      BY <2>1, <3>2 DEF InsertSame, Inserting, Slots, Occupied, TypeOK
    <3> QED
      BY <1>3, <3>1, <3>2
  <2>3. Occupied' = Occupied \cup {InsSlot}
    BY <2>1, <2>2 DEF Occupied
  <2>4. \A s \in Occupied : keys'[s] = keys[s]
    BY <2>2 DEF Occupied
  <2>5. ASSUME NEW s \in Occupied, s # InsSlot
        PROVE  keys[s] # InsKey
    <3>1. CASE InsSlot \in Occupied
      BY <2>2, <2>5, <3>1, OneSlotPerKey
    <3>2. CASE InsSlot \notin Occupied
      <4>1. InsertFree
        BY <1>3, <2>1, <3>2 DEF InsertSame, Occupied
      <4> QED
        BY <2>1, <4>1, InsPair, ProbeMiss DEF InsertFree, InsSlot, Probed
    <3> QED
      BY <3>1, <3>2
  <2>6. ASSUME NEW s \in Occupied'
        PROVE  \E j \in 1 .. next' - 1 :
                /\ pairs'[j][1] = keys'[s] /\ pairs'[j][2] = vals'[s]
                /\ \A l \in j + 1 .. next' - 1 : pairs'[l][1] # keys'[s]
    <3>1. CASE s = InsSlot
      <4>1. next \in 1 .. next' - 1 /\ next + 1 .. next' - 1 = {}
        BY <2>1, <2>2
      <4> QED
        BY <2>2, <3>1, <4>1 DEF InsKey, InsVal
    <3>2. CASE s # InsSlot
      <4>1. /\ s \in Occupied /\ keys'[s] = keys[s] /\ vals'[s] = vals[s]
            /\ keys[s] # InsKey
        BY <2>2, <2>3, <2>5, <3>2 DEF Occupied
      <4>2. PICK j \in 1 .. next - 1 :
                /\ pairs[j][1] = keys[s] /\ pairs[j][2] = vals[s]
                /\ \A l \in j + 1 .. next - 1 : pairs[l][1] # keys[s]
        BY <4>1 DEF Written
      <4>3. \A l \in j + 1 .. next' - 1 : pairs[l][1] # keys[s]
        BY <2>1, <2>2, <4>1, <4>2 DEF InsKey
      <4> QED
        BY <2>1, <2>2, <4>1, <4>2, <4>3
    <3> QED
      BY <3>1, <3>2
  <2>7. ASSUME NEW j \in 1 .. next' - 1
        PROVE  \E s \in Occupied' : keys'[s] = pairs'[j][1]
    <3>1. CASE j = next
      BY <2>2, <2>3, <3>1 DEF InsKey
    <3>2. CASE j \in 1 .. next - 1
      BY <2>2, <2>3, <2>4, <3>2 DEF Written
    <3> QED
      BY <2>1, <2>2, <3>1, <3>2
  <2> QED
    BY <2>1, <2>2, <2>6, <2>7 DEF Written, Inserting
<1>4. CASE InsertProbe \/ Finish \/ Get \/ Lookup \/ UNCHANGED vars
  <2>1. UNCHANGED <<next, pairs, keys, vals>> /\ Occupied' = Occupied
    BY <1>4 DEF InsertProbe, Inserting, Finish, Get, Lookup, GetEmpty, GetMiss,
        GetHit, GetProbe, Probing, table, vars, Occupied, Slots
  <2>2. phase' \in {"ready", "probe"} => next' = Len(pairs') + 1
    BY <1>4 DEF InsertProbe, Inserting, Finish, Get, Lookup, GetEmpty, GetMiss,
        GetHit, GetProbe, Probing, table, vars, Written, TypeOK
  <2>3. phase' \in {"idle", "grow", "insert"} => ask' = Empty
    BY <1>4 DEF InsertProbe, Inserting, Finish, Get, Lookup, GetEmpty, GetMiss,
        GetHit, GetProbe, Probing, table, vars, Written
  <2> QED
    BY <2>1, <2>2, <2>3 DEF Written
<1> QED
  BY <1>1, <1>2, <1>3, <1>4 DEF Next, Insert

(* Of the finished map, MapOf is the last write of each key. *)
LEMMA MapIsLastWrite ==
    ASSUME TypeOK, Reachable, Written, phase \in {"ready", "probe"}, NEW k \in Key
    PROVE  MapOf[k] = LastWrite(k)
<1> DEFINE at == {j \in DOMAIN pairs : pairs[j][1] = k}
<1>1. DOMAIN pairs = 1 .. next - 1 /\ next \in Nat
  BY DEF Written, TypeOK
<1>2. CASE at = {}
  <2>1. \A s \in Occupied : keys[s] # k
    BY <1>1, <1>2 DEF Written
  <2> QED
    BY <1>2, <2>1, MapOfTable DEF LastWrite
<1>3. CASE at # {}
  <2>1. PICK s \in Occupied : keys[s] = k
    BY <1>1, <1>3 DEF Written
  <2>2. PICK j \in 1 .. next - 1 :
            /\ pairs[j][1] = k /\ pairs[j][2] = vals[s]
            /\ \A l \in j + 1 .. next - 1 : pairs[l][1] # k
    BY <2>1 DEF Written
  <2>3. j \in at /\ \A l \in at : l <= j
    BY <1>1, <2>2
  <2>4. \A i \in at : (\A l \in at : l <= i) => i = j
    BY <1>1, <2>3
  <2>5. (CHOOSE i \in at : \A l \in at : l <= i) = j
    BY <2>3, <2>4
  <2>6. LastWrite(k) = pairs[j][2]
    BY <1>3, <2>5 DEF LastWrite
  <2> QED
    BY <2>1, <2>2, <2>6, MapOfTable
<1> QED
  BY <1>2, <1>3

-----------------------------------------------------------------------------
(* The theorems *)

IInv == TypeOK /\ Reachable /\ Probed /\ Counted /\ ProbeBound /\ Written

(* The inductive invariant holds before the call. *)
LEMMA IInvInit == Init => IInv
BY TypeInit, ReachableInit, CountedInit, WrittenInit DEF IInv, Init, ProbeBound

(* Every turn of a loop keeps the inductive invariant. *)
LEMMA IInvNext == IInv /\ [Next]_vars => IInv'
BY TypeNext, ReachableNext, CountedNext, BoundNext, WrittenNext DEF IInv

(* The inductive invariant always holds. *)
LEMMA Invariance == Spec => []IInv
BY IInvInit, IInvNext, PTL DEF Spec

(* The arrays, indices and results of the map are always well formed. *)
THEOREM TypeCorrect == Spec => []TypeOK
<1>1. IInv => TypeOK
  BY DEF IInv
<1> QED
  BY <1>1, Invariance, PTL

(* as.map.len counts the distinct keys of the call, and no more than half  *)
(* of the slots are ever taken.                                            *)
THEOREM NeverMoreThanHalfFull == Spec => []HalfFull
<1>1. IInv => HalfFull
  BY CountedHalfFull DEF IInv
<1> QED
  BY <1>1, Invariance, PTL

(* No probe of val_map or val_map_get passes more slots than are taken:    *)
(* with NeverMoreThanHalfFull, their for (;;) loops end.                   *)
THEOREM ProbesAreShort == Spec => []ProbeBound
<1>1. IInv => ProbeBound
  BY DEF IInv
<1> QED
  BY <1>1, Invariance, PTL

(* No answer is given before the first lookup. *)
LEMMA AnswerInit == Init => GetIsLastWrite
BY DEF Init, GetIsLastWrite

(* A lookup that ends has the last write of the key; nothing else is an    *)
(* answer, and the table no longer changes.                                *)
LEMMA AnswerNext == IInv /\ IInv' /\ GetIsLastWrite /\ [Next]_vars => GetIsLastWrite'
<1> SUFFICES ASSUME IInv, IInv', GetIsLastWrite, [Next]_vars
             PROVE  GetIsLastWrite'
  OBVIOUS
<1>1. CASE CallEmpty \/ Call \/ Grow \/ Allocate \/ Insert \/ Finish
  BY <1>1 DEF CallEmpty, Call, Grow, Allocate, Insert, InsertFree, InsertSame,
      InsertProbe, Inserting, Finish, IInv, Written, GetIsLastWrite
<1>2. CASE Get \/ GetProbe
  BY <1>2 DEF Get, GetProbe, Probing, GetIsLastWrite
<1>3. CASE GetEmpty \/ GetMiss \/ GetHit
  <2>1. answer' = MapOf[ask] /\ pairs' = pairs /\ ask' = ask
    BY <1>3, LookupRight DEF IInv, GetEmpty, GetMiss, GetHit
  <2>2. MapOf[ask] = LastWrite(ask)
    BY <1>3, MapIsLastWrite DEF IInv, TypeOK, GetEmpty, GetMiss, GetHit, Probing
  <2> QED
    BY <2>1, <2>2 DEF GetIsLastWrite, LastWrite
<1>4. CASE UNCHANGED vars
  BY <1>4 DEF vars, GetIsLastWrite, LastWrite
<1> QED
  BY <1>1, <1>2, <1>3, <1>4 DEF Next, Lookup

(* val_map_get answers with the last value written to the key, or NULL     *)
(* for a key that was never written.                                       *)
THEOREM LookupFindsLastWrite == Spec => []GetIsLastWrite
BY AnswerInit, AnswerNext, Invariance, PTL DEF Spec

-----------------------------------------------------------------------------
(* Entries *)

(* The number of smaller ones tells the elements of a finite set of        *)
(* integers apart, and none of the numbers is left out.                    *)
LEMMA RanksCount ==
    ASSUME NEW S, S \subseteq Int, IsFiniteSet(S)
    PROVE  [s \in S |-> Cardinality({t \in S : t < s})] \in Bijection(S, 0 .. Cardinality(S) - 1)
<1> DEFINE Below(s) == {t \in S : t < s}
           rank == [s \in S |-> Cardinality(Below(s))]
           n == Cardinality(S)
<1>1. n \in Nat
  BY FS_CardinalityType
<1>2. ASSUME NEW s \in S
      PROVE  IsFiniteSet(Below(s)) /\ Cardinality(Below(s)) \in 0 .. n - 1
  <2>1. Below(s) \in SUBSET S /\ s \notin Below(s)
    OBVIOUS
  <2> HIDE DEF Below
  <2>2. IsFiniteSet(Below(s)) /\ Cardinality(Below(s)) <= n /\ Cardinality(Below(s)) # n
    BY <2>1, FS_Subset
  <2>3. Cardinality(Below(s)) \in Nat
    BY <2>2, FS_CardinalityType
  <2> QED
    BY <1>1, <2>2, <2>3
<1>3. ASSUME NEW s \in S, NEW u \in S, s < u
      PROVE  rank[s] # rank[u]
  <2>1. Below(s) \in SUBSET Below(u) /\ s \in Below(u) /\ s \notin Below(s)
    <3>1. ASSUME NEW t \in S, t < s PROVE t < u
      <4>1. t \in Int /\ s \in Int /\ u \in Int
        OBVIOUS
      <4> QED
        BY <1>3, <3>1, <4>1
    <3>2. ~ (s < s)
      <4>1. s \in Int
        OBVIOUS
      <4> QED
        BY <4>1
    <3> QED
      BY <1>3, <3>1, <3>2, Zenon
  <2>2. IsFiniteSet(Below(u))
    BY <1>2
  <2>3. rank[s] = Cardinality(Below(s)) /\ rank[u] = Cardinality(Below(u))
    OBVIOUS
  <2> HIDE DEF Below, rank
  <2>4. Cardinality(Below(s)) # Cardinality(Below(u))
    BY <2>1, <2>2, FS_Subset
  <2> QED
    BY <2>3, <2>4
<1>4. rank \in [S -> 0 .. n - 1]
  BY <1>2
<1> HIDE DEF rank
<1>5. \A s, u \in S : rank[s] = rank[u] => s = u
  <2> SUFFICES ASSUME NEW s \in S, NEW u \in S, s # u PROVE rank[s] # rank[u]
    OBVIOUS
  <2>1. s < u \/ u < s
    OBVIOUS
  <2> QED
    BY <1>3, <2>1
<1>6. rank \in Injection(S, 0 .. n - 1)
  BY <1>4, <1>5, Fun_IsInj
<1>7. IsFiniteSet(0 .. n - 1) /\ Cardinality(0 .. n - 1) = n
  <2>1. 0 \in Int /\ n - 1 \in Int
    BY <1>1
  <2>2. Cardinality(0 .. n - 1) = IF 0 > n - 1 THEN 0 ELSE n - 1 - 0 + 1
    BY <2>1, FS_Interval
  <2>3. IsFiniteSet(0 .. n - 1)
    BY <2>1, FS_Interval
  <2> QED
    BY <1>1, <2>2, <2>3
<1>8. rank \in Surjection(S, 0 .. n - 1)
  BY <1>6, <1>7, FS_Injection
<1>9. rank \in Bijection(S, 0 .. n - 1)
  BY <1>6, <1>8 DEF Bijection
<1> QED
  BY <1>9, Zenon DEF rank

(* Each index below len has one slot, and each occupied slot one index.    *)
LEMMA EntriesAreSlots ==
    ASSUME TypeOK, Counted, phase = "ready"
    PROVE  /\ \A n \in 0 .. count - 1 : Cardinality(EntrySlot(n)) = 1
           /\ \A s \in Occupied : \E n \in 0 .. count - 1 : s \in EntrySlot(n)
<1> DEFINE rank == [s \in Occupied |-> Cardinality({t \in Occupied : t < s})]
<1>1. Occupied \subseteq Int /\ IsFiniteSet(Occupied) /\ count = Cardinality(Occupied) /\ count \in Nat
  BY DEF Occupied, Slots, Counted, TypeOK
<1>2. rank \in Bijection(Occupied, 0 .. count - 1)
  BY <1>1, RanksCount
<1>3. \A s \in Occupied : rank[s] = Rank(s)
  BY DEF Rank
<1> HIDE DEF rank
<1>4. /\ rank \in [Occupied -> 0 .. count - 1]
      /\ \A s, t \in Occupied : rank[s] = rank[t] => s = t
      /\ \A n \in 0 .. count - 1 : \E s \in Occupied : rank[s] = n
  BY <1>2 DEF Bijection, Injection, Surjection, IsInjective
<1>5. ASSUME NEW n \in 0 .. count - 1 PROVE Cardinality(EntrySlot(n)) = 1
  <2>1. PICK s \in Occupied : rank[s] = n
    BY <1>4
  <2>2. n < count
    BY <1>1
  <2>3. EntrySlot(n) = {s}
    BY <1>3, <1>4, <2>1, <2>2 DEF EntrySlot
  <2> QED
    BY <2>3, FS_Singleton
<1>6. ASSUME NEW s \in Occupied PROVE \E n \in 0 .. count - 1 : s \in EntrySlot(n)
  <2>1. rank[s] \in 0 .. count - 1 /\ rank[s] < count
    BY <1>1, <1>4
  <2>2. s \in EntrySlot(rank[s])
    BY <1>3, <2>1 DEF EntrySlot
  <2> QED
    BY <2>1, <2>2
<1> QED
  BY <1>5, <1>6

(* val_map_entry called with 0, 1, ..., len - 1 visits each distinct key of *)
(* the call once, with its last value, wherever the probes put it          *)
(* (val.c:554-571).                                                        *)
THEOREM EnumerationIsComplete == Spec => []EntriesExact
<1>1. IInv => EntriesExact
  <2> SUFFICES ASSUME IInv, phase = "ready" PROVE EntriesExact
    BY DEF EntriesExact
  <2> DEFINE index == 0 .. count - 1
             Given == {pairs[j][1] : j \in DOMAIN pairs}
             entries == UNION {{<<keys[s], vals[s]>> : s \in EntrySlot(n)} : n \in index}
             wanted == {<<k, LastWrite(k)>> : k \in Given}
  <2>1. /\ \A n \in index : Cardinality(EntrySlot(n)) = 1
        /\ \A s \in Occupied : \E n \in index : s \in EntrySlot(n)
        /\ \A n \in index : EntrySlot(n) \subseteq Occupied
    BY EntriesAreSlots DEF IInv, EntrySlot
  <2>2. DOMAIN pairs = 1 .. next - 1
    BY DEF IInv, Written, TypeOK
  <2>3. ASSUME NEW s \in Occupied PROVE keys[s] \in Given /\ vals[s] = LastWrite(keys[s])
    <3>1. keys[s] \in Key /\ MapOf[keys[s]] = vals[s]
      BY MapOfTable DEF IInv
    <3>2. MapOf[keys[s]] = LastWrite(keys[s])
      BY <3>1, MapIsLastWrite DEF IInv
    <3>3. keys[s] \in Given
      BY <2>2 DEF IInv, Written
    <3> QED
      BY <3>1, <3>2, <3>3
  <2>4. ASSUME NEW k \in Given PROVE \E s \in Occupied : keys[s] = k
    BY <2>2 DEF IInv, Written
  <2>5. ASSUME NEW e \in entries PROVE e \in wanted
    <3>1. PICK n \in index : \E s \in EntrySlot(n) : e = <<keys[s], vals[s]>>
      OBVIOUS
    <3>2. PICK s \in EntrySlot(n) : e = <<keys[s], vals[s]>>
      BY <3>1
    <3> QED
      BY <2>1, <2>3, <3>2
  <2>6. ASSUME NEW e \in wanted PROVE e \in entries
    <3>1. PICK k \in Given : e = <<k, LastWrite(k)>>
      OBVIOUS
    <3>2. PICK s \in Occupied : keys[s] = k
      BY <2>4
    <3>3. e = <<keys[s], vals[s]>>
      BY <2>3, <3>1, <3>2
    <3> QED
      BY <2>1, <3>3
  <2>7. entries = wanted
    BY <2>5, <2>6
  <2> QED
    BY <2>1, <2>7 DEF EntriesExact
<1> QED
  BY <1>1, Invariance, PTL

-----------------------------------------------------------------------------
(* Refinement *)

(* A table without keys is the function that is NULL everywhere. *)
LEMMA MapOfEmpty == Occupied = {} => MapOf = [k \in Key |-> NULL]
BY DEF MapOf

(* The same in the next state. *)
LEMMA MapOfEmptyNext ==
    (Occupied = {} => MapOf = [k \in Key |-> NULL])'
BY MapOfEmpty, PTL

(* The initial state is an initial state of MapSpec. *)
LEMMA RefineInit == Init => Abstract!Init
<1> SUFFICES ASSUME Init PROVE Abstract!Init
  OBVIOUS
<1>1. Occupied = {}
  BY DEF Init, Occupied, Slots
<1> QED
  BY <1>1, MapOfEmpty DEF Init, Abstract!Init, AbsPhase

(* A step of the table is a step of MapSpec or changes nothing MapSpec     *)
(* sees.                                                                   *)
LEMMA RefineNext ==
    IInv /\ IInv' /\ [Next]_vars => [Abstract!Next]_(Abstract!vars)
<1> SUFFICES ASSUME IInv, IInv', [Next]_vars
             PROVE  [Abstract!Next]_(Abstract!vars)
  OBVIOUS
<1> USE DEF AbsPhase, Abstract!Next, Abstract!vars
<1>1. CASE CallEmpty
  <2>1. Occupied = {} /\ Occupied' = {} /\ pairs = <<>>
    <3>1. Slots = {} /\ Slots' = {}
      BY <1>1 DEF CallEmpty, table, IInv, TypeOK, Slots
    <3> QED
      BY <1>1, <3>1 DEF CallEmpty, IInv, TypeOK, Occupied
  <2>2. MapOf' = MapOf
    BY <1>1, <2>1, SameMap DEF CallEmpty, table
  <2> QED
    BY <1>1, <2>1, <2>2 DEF CallEmpty, table, Abstract!Call
<1>2. CASE Call
  <2>1. Occupied = {} /\ Occupied' = {}
    BY <1>2 DEF Call, Occupied, Slots
  <2>2. MapOf' = MapOf
    BY <1>2, <2>1, SameMap DEF Call
  <2> QED
    BY <1>2, <2>2 DEF Call, Abstract!Call
<1>3. CASE Grow \/ Allocate
  <2>1. Occupied = {} /\ Occupied' = {}
    BY <1>3 DEF Grow, Allocate, Occupied, Slots
  <2>2. MapOf' = MapOf
    BY <2>1, MapOfEmpty, MapOfEmptyNext
  <2> QED
    BY <1>3, <2>2 DEF Grow, Allocate
<1>4. CASE InsertFree \/ InsertSame
  <2>1. Inserting /\ MapOf' = [MapOf EXCEPT ![InsKey] = InsVal]
    BY <1>4, WriteOne DEF InsertFree, InsertSame, IInv
  <2> QED
    BY <1>4, <2>1 DEF InsertFree, InsertSame, Inserting, InsKey, InsVal, Abstract!Write
<1>5. ASSUME InsertProbe \/ Finish \/ Get \/ Lookup \/ UNCHANGED vars
      PROVE  MapOf' = MapOf
  <2>1. Occupied' = Occupied /\ keys' = keys /\ vals' = vals
    BY <1>5 DEF InsertProbe, Inserting, Finish, Get, Lookup, GetEmpty, GetMiss,
        GetHit, GetProbe, Probing, table, vars, Occupied, Slots
  <2> QED
    BY <2>1, SameMap
<1>6. CASE InsertProbe
  BY <1>5, <1>6 DEF InsertProbe
<1>7. CASE Finish
  BY <1>5, <1>7 DEF Finish, Abstract!Seal
<1>8. CASE Get
  BY <1>5, <1>8 DEF Get, Abstract!Ask
<1>9. CASE GetEmpty \/ GetMiss \/ GetHit
  <2>1. answer' = MapOf[ask]
    BY <1>9, LookupRight DEF IInv
  <2> QED
    BY <1>5, <1>9, <2>1 DEF Lookup, GetEmpty, GetMiss, GetHit, Probing, Abstract!Answer
<1>10. CASE GetProbe
  BY <1>5, <1>10 DEF Lookup, GetProbe, Probing
<1>11. CASE UNCHANGED vars
  BY <1>5, <1>11 DEF vars
<1> QED
  BY <1>1, <1>2, <1>3, <1>4, <1>6, <1>7, <1>8, <1>9, <1>10, <1>11
     DEF Next, Insert, Lookup

(* val_map and val_map_get implement the plain function of MapSpec: each   *)
(* step of their loops writes one pair, answers one question, or changes   *)
(* nothing a user of the map can see.                                      *)
THEOREM MapIsFunction == Spec => ImplementsMap
<1>1. Spec => Abstract!Init /\ [][Abstract!Next]_(Abstract!vars)
  BY RefineInit, RefineNext, Invariance, PTL DEF Spec
<1> QED
  BY <1>1 DEF ImplementsMap, Abstract!Spec

-----------------------------------------------------------------------------
(* Recursion and induction *)

(* A set of numbers that is not empty has a least one.                     *)
LEMMA LeastNatural ==
    ASSUME NEW S \in SUBSET Nat, S # {}
    PROVE  \E n \in S : \A k \in S : n <= k
<1> DEFINE R == {ss \in Nat \X Nat : ss[1] < ss[2]}
<1>1. IsWellFoundedOn(R, Nat)
  BY NatLessThanWellFounded DEF OpToRel
<1>2. PICK n \in S : \A k \in S : <<k, n>> \notin R
  <2> HIDE DEF R
  <2>1. \E n \in S : \A k \in S : ~(<<k, n>> \in R)
    BY <1>1, WFMin
  <2> QED
    BY <2>1
<1>3. ASSUME NEW k \in S PROVE n <= k
  <2>1. k \in Nat /\ n \in Nat /\ <<k, n>> \notin R
    BY <1>2
  <2>2. ~ (k < n)
    BY <2>1
  <2> QED
    BY <2>1, <2>2
<1> QED
  BY <1>3

(* F makes of a function another, whose value at x depends on the values   *)
(* at places of lower rank: the functions that F is asked of.              *)
Graded(D, X, rank, F) ==
    \A f, g \in [D -> X] : \A x \in D :
        (\A y \in D : rank[y] < rank[x] => f[y] = g[y]) => F[f][x] = F[g][x]

Recursion(D, X, rank, F) ==
    /\ X # {}
    /\ rank \in [D -> Nat]
    /\ F \in [[D -> X] -> [D -> X]]
    /\ Graded(D, X, rank, F)
Solvable(D, X, F) == \E f \in [D -> X] : f = F[f]

(* Such a recursion has a solution, which is what a recursive function is. *)
LEMMA RecursionSolved ==
    ASSUME NEW D, NEW X, NEW rank, NEW F, Recursion(D, X, rank, F)
    PROVE  Solvable(D, X, F)
<1> PICK x0 \in X : TRUE
  BY DEF Recursion
<1> /\ rank \in [D -> Nat]
    /\ F \in [[D -> X] -> [D -> X]]
    /\ Graded(D, X, rank, F)
  BY DEF Recursion
<1> DEFINE Solves(f, d) == \A x \in D : rank[x] < d => f[x] = F[f][x]
           Unsolved == {d \in Nat : ~ \E f \in [D -> X] : Solves(f, d)}
           Sol(d) == CHOOSE f \in [D -> X] : Solves(f, d)
           h == [x \in D |-> Sol(rank[x] + 1)[x]]
<1>1. ASSUME NEW f \in [D -> X], NEW g \in [D -> X], NEW x \in D,
             \A y \in D : rank[y] < rank[x] => f[y] = g[y]
      PROVE  F[f][x] = F[g][x]
  BY <1>1 DEF Graded
<1>2. \E f \in [D -> X] : Solves(f, 0)
  <2>1. [x \in D |-> x0] \in [D -> X]
    OBVIOUS
  <2>2. \A x \in D : ~ (rank[x] < 0)
    OBVIOUS
  <2> QED
    BY <2>1, <2>2
<1>3. ASSUME NEW d \in Nat, NEW f \in [D -> X], Solves(f, d)
      PROVE  F[f] \in [D -> X] /\ Solves(F[f], d + 1)
  <2>1. F[f] \in [D -> X]
    OBVIOUS
  <2>2. ASSUME NEW x \in D, rank[x] < d + 1 PROVE F[f][x] = F[F[f]][x]
    <3>1. ASSUME NEW y \in D, rank[y] < rank[x] PROVE f[y] = F[f][y]
      <4>1. rank[y] < d
        BY <2>2, <3>1
      <4> QED
        BY <1>3, <4>1
    <3> QED
      BY <1>1, <2>1, <3>1
  <2> QED
    BY <2>1, <2>2
<1>4. Unsolved = {}
  <2> SUFFICES ASSUME Unsolved # {} PROVE FALSE
    OBVIOUS
  <2>1. Unsolved \in SUBSET Nat
    OBVIOUS
  <2> HIDE DEF Solves, Unsolved
  <2>2. PICK d \in Unsolved : \A m \in Unsolved : d <= m
    BY <2>1, LeastNatural
  <2>3. d \in Nat /\ ~ \E f \in [D -> X] : Solves(f, d)
    BY <2>2 DEF Unsolved
  <2>4. d # 0
    BY <1>2, <2>3
  <2>5. d - 1 \in Nat /\ d - 1 + 1 = d /\ d - 1 \notin Unsolved
    BY <2>2, <2>3, <2>4
  <2>6. PICK f \in [D -> X] : Solves(f, d - 1)
    BY <2>5 DEF Unsolved
  <2> QED
    BY <1>3, <2>3, <2>5, <2>6
<1>5. \A d \in Nat : Sol(d) \in [D -> X] /\ Solves(Sol(d), d)
  BY <1>4
<1>6. ASSUME NEW f \in [D -> X], NEW g \in [D -> X], NEW d \in Nat, NEW e \in Nat,
             Solves(f, d), Solves(g, e), NEW x \in D, rank[x] < d, rank[x] < e
      PROVE  f[x] = g[x]
  <2> DEFINE Bad == {rank[y] : y \in {y \in D : rank[y] < d /\ rank[y] < e /\ f[y] # g[y]}}
  <2> SUFFICES ASSUME f[x] # g[x] PROVE FALSE
    OBVIOUS
  <2>1. Bad \in SUBSET Nat /\ Bad # {}
    BY <1>6
  <2>2. PICK n \in Bad : \A k \in Bad : n <= k
    <3> HIDE DEF Bad
    <3> QED
      BY <2>1, LeastNatural
  <2>3. PICK y \in D : rank[y] = n /\ rank[y] < d /\ rank[y] < e /\ f[y] # g[y]
    BY <2>2
  <2>4. ASSUME NEW z \in D, rank[z] < rank[y] PROVE f[z] = g[z]
    <3>1. rank[z] < d /\ rank[z] < e
      BY <2>3, <2>4
    <3>2. ~ (n <= rank[z])
      BY <2>3, <2>4
    <3> QED
      BY <2>2, <3>1, <3>2
  <2>5. F[f][y] = F[g][y]
    BY <1>1, <2>4
  <2> QED
    BY <1>6, <2>3, <2>5
<1>7. h \in [D -> X]
  <2>1. \A x \in D : Sol(rank[x] + 1)[x] \in X
    <3> HIDE DEF Sol
    <3> QED
      BY <1>5
  <2> QED
    BY <2>1
<1>8. ASSUME NEW x \in D PROVE h[x] = F[h][x]
  <2> DEFINE g == Sol(rank[x] + 1)
  <2>1. rank[x] + 1 \in Nat /\ rank[x] < rank[x] + 1
    OBVIOUS
  <2>2. g \in [D -> X] /\ Solves(g, rank[x] + 1)
    <3> HIDE DEF Sol, Solves
    <3> QED
      BY <1>5, <2>1
  <2>3. h[x] = g[x]
    OBVIOUS
  <2>4. g[x] = F[g][x]
    BY <2>1, <2>2
  <2>5. ASSUME NEW y \in D, rank[y] < rank[x] PROVE g[y] = h[y]
    <3>1. h[y] = Sol(rank[y] + 1)[y]
      OBVIOUS
    <3>2. rank[y] + 1 \in Nat /\ rank[y] < rank[y] + 1 /\ rank[y] < rank[x] + 1
      BY <2>5
    <3> HIDE DEF Sol, Solves, h
    <3>3. Sol(rank[y] + 1) \in [D -> X] /\ Solves(Sol(rank[y] + 1), rank[y] + 1)
      BY <1>5, <3>2
    <3> QED
      BY <1>6, <2>1, <2>2, <3>1, <3>2, <3>3
  <2>6. F[g][x] = F[h][x]
    <3> HIDE DEF g, h
    <3> QED
      BY <1>1, <1>7, <2>2, <2>5
  <2> QED
    BY <2>3, <2>4, <2>6
<1> QED
  <2> HIDE DEF h
  <2>1. F[h] \in [D -> X]
    BY <1>7
  <2>2. h = F[h]
    BY <1>7, <1>8, <2>1
  <2> QED
    BY <1>7, <2>2 DEF Solvable

-----------------------------------------------------------------------------
(* Orders *)

(* A comparison orders X: the sign of the opposite, equality a congruence, *)
(* and transitive.                                                         *)
Ordered(order, X) ==
    \A x, y \in X :
        /\ By(order, x, y) \in -1..1
        /\ By(order, x, y) = -By(order, y, x)
        /\ By(order, x, y) = 0 => \A z \in X : By(order, x, z) = By(order, y, z)
        /\ \A z \in X : By(order, x, y) < 0 /\ By(order, y, z) < 0 => By(order, x, z) < 0

(* What is compared with itself is equal; and equal things compare alike   *)
(* from the other side too.                                                *)
LEMMA OrderFacts ==
    ASSUME NEW order, NEW X, Ordered(order, X), NEW x \in X, NEW y \in X, NEW z \in X
    PROVE  /\ By(order, x, y) \in -1..1
           /\ By(order, x, x) = 0
           /\ By(order, x, y) = -By(order, y, x)
           /\ By(order, x, y) = 0 => By(order, x, z) = By(order, y, z)
           /\ By(order, x, y) = 0 => By(order, z, x) = By(order, z, y)
           /\ By(order, x, y) < 0 /\ By(order, y, z) < 0 => By(order, x, z) < 0
<1>1. /\ By(order, x, y) \in -1..1 /\ By(order, x, y) = -By(order, y, x)
      /\ By(order, x, x) \in -1..1 /\ By(order, x, x) = -By(order, x, x)
      /\ By(order, x, y) = 0 => By(order, x, z) = By(order, y, z)
      /\ By(order, z, x) = -By(order, x, z) /\ By(order, z, y) = -By(order, y, z)
      /\ By(order, x, y) < 0 /\ By(order, y, z) < 0 => By(order, x, z) < 0
  BY DEF Ordered
<1> QED
  BY <1>1

(* Up to a place two sequences are equal.                                  *)
EqualBefore(order, s, t, n) ==
    \A i \in DOMAIN s \cap DOMAIN t : i < n => By(order, s[i], t[i]) = 0
DifferAt(order, s, t, n) ==
    n \in DOMAIN s \cap DOMAIN t /\ By(order, s[n], t[n]) # 0 /\ EqualBefore(order, s, t, n)
NoDifference(order, s, t) == \A i \in DOMAIN s \cap DOMAIN t : By(order, s[i], t[i]) = 0

LEMMA LexNone ==
    ASSUME NEW order, NEW s, NEW t, NoDifference(order, s, t)
    PROVE  Lex(order, s, t) = Sign(Len(s), Len(t))
BY DEF Lex, NoDifference

LEMMA LexAt ==
    ASSUME NEW order, NEW X, NEW s \in Seq(X), NEW t \in Seq(X), NEW n, DifferAt(order, s, t, n)
    PROVE  Lex(order, s, t) = By(order, s[n], t[n])
<1> DEFINE diff == {i \in DOMAIN s \cap DOMAIN t : By(order, s[i], t[i]) # 0}
<1>1. n \in diff /\ \A i \in diff : n <= i
  <2>1. n \in Nat /\ \A i \in diff : i \in Nat /\ ~(i < n)
    BY DEF DifferAt, EqualBefore
  <2> QED
    BY <2>1 DEF DifferAt
<1>2. diff \in SUBSET Nat
  OBVIOUS
<1>3. Min(diff) = n
  <2> HIDE DEF diff
  <2>1. \A m \in diff : (\A i \in diff : m <= i) => m = n
    BY <1>1, <1>2
  <2> QED
    BY <1>1, <2>1 DEF Min
<1>4. Lex(order, s, t) = By(order, s[Min(diff)], t[Min(diff)])
  BY <1>1 DEF Lex
<1> QED
  BY <1>3, <1>4

LEMMA LexCases ==
    ASSUME NEW order, NEW X, NEW s \in Seq(X), NEW t \in Seq(X)
    PROVE  NoDifference(order, s, t) \/ \E n : DifferAt(order, s, t, n)
<1> DEFINE diff == {i \in DOMAIN s \cap DOMAIN t : By(order, s[i], t[i]) # 0}
<1> SUFFICES ASSUME ~ NoDifference(order, s, t) PROVE \E n : DifferAt(order, s, t, n)
  OBVIOUS
<1>1. diff \in SUBSET Nat /\ diff # {}
  BY DEF NoDifference
<1>2. PICK n \in diff : \A i \in diff : n <= i
  <2> HIDE DEF diff
  <2> QED
    BY <1>1, LeastNatural
<1>3. \A i \in DOMAIN s \cap DOMAIN t : i < n => i \notin diff
  BY <1>1, <1>2
<1> QED
  BY <1>2, <1>3 DEF DifferAt, EqualBefore

(* Sequences are equal when they are as long and equal everywhere.         *)
LEMMA LexEqual ==
    ASSUME NEW order, NEW X, Ordered(order, X), NEW s \in Seq(X), NEW t \in Seq(X)
    PROVE  /\ Lex(order, s, t) \in -1..1
           /\ Lex(order, s, t) = 0 <=> Len(s) = Len(t) /\ NoDifference(order, s, t)
<1>1. CASE NoDifference(order, s, t)
  BY <1>1, LexNone DEF Sign
<1>2. CASE \E n : DifferAt(order, s, t, n)
  <2>1. PICK n : DifferAt(order, s, t, n)
    BY <1>2
  <2>2. s[n] \in X /\ t[n] \in X /\ By(order, s[n], t[n]) # 0 /\ ~ NoDifference(order, s, t)
    BY <2>1 DEF DifferAt, NoDifference
  <2>3. By(order, s[n], t[n]) \in -1..1
    BY <2>2, OrderFacts
  <2> QED
    BY <2>1, <2>2, <2>3, LexAt
<1> QED
  BY <1>1, <1>2, LexCases

LEMMA LexOpposite ==
    ASSUME NEW order, NEW X, Ordered(order, X), NEW s \in Seq(X), NEW t \in Seq(X)
    PROVE  Lex(order, s, t) = -Lex(order, t, s)
<1>1. \A i \in DOMAIN s \cap DOMAIN t :
          /\ By(order, s[i], t[i]) \in -1..1 /\ By(order, t[i], s[i]) \in -1..1
          /\ By(order, s[i], t[i]) = -By(order, t[i], s[i])
  BY OrderFacts
<1>2. CASE NoDifference(order, s, t)
  <2>1. NoDifference(order, t, s)
    BY <1>1, <1>2 DEF NoDifference
  <2> QED
    BY <1>2, <2>1, LexNone DEF Sign
<1>3. CASE \E n : DifferAt(order, s, t, n)
  <2>1. PICK n : DifferAt(order, s, t, n)
    BY <1>3
  <2>2. DifferAt(order, t, s, n) /\ n \in DOMAIN s \cap DOMAIN t
    BY <1>1, <2>1 DEF DifferAt, EqualBefore
  <2> QED
    BY <1>1, <2>1, <2>2, LexAt
<1> QED
  BY <1>2, <1>3, LexCases

LEMMA LexCongruent ==
    ASSUME NEW order, NEW X, Ordered(order, X), NEW s \in Seq(X), NEW t \in Seq(X), NEW u \in Seq(X),
           Lex(order, s, t) = 0
    PROVE  Lex(order, s, u) = Lex(order, t, u)
<1>1. Len(s) = Len(t) /\ NoDifference(order, s, t)
  BY LexEqual
<1>2. DOMAIN s = DOMAIN t
  BY <1>1
<1>3. ASSUME NEW i \in DOMAIN s \cap DOMAIN u PROVE By(order, s[i], u[i]) = By(order, t[i], u[i])
  <2>1. s[i] \in X /\ t[i] \in X /\ u[i] \in X /\ By(order, s[i], t[i]) = 0
    BY <1>1, <1>2, <1>3 DEF NoDifference
  <2> QED
    BY <2>1, OrderFacts
<1>4. CASE NoDifference(order, s, u)
  <2>1. NoDifference(order, t, u)
    BY <1>2, <1>3, <1>4 DEF NoDifference
  <2> QED
    BY <1>1, <1>4, <2>1, LexNone
<1>5. CASE \E n : DifferAt(order, s, u, n)
  <2>1. PICK n : DifferAt(order, s, u, n)
    BY <1>5
  <2>2. DifferAt(order, t, u, n) /\ By(order, s[n], u[n]) = By(order, t[n], u[n])
    BY <1>2, <1>3, <2>1 DEF DifferAt, EqualBefore
  <2> QED
    BY <2>1, <2>2, LexAt
<1> QED
  BY <1>4, <1>5, LexCases

LEMMA LexTransitive ==
    ASSUME NEW order, NEW X, Ordered(order, X), NEW s \in Seq(X), NEW t \in Seq(X), NEW u \in Seq(X),
           Lex(order, s, t) < 0, Lex(order, t, u) < 0
    PROVE  Lex(order, s, u) < 0
<1>0. /\ DOMAIN s = 1..Len(s) /\ DOMAIN t = 1..Len(t) /\ DOMAIN u = 1..Len(u)
      /\ Len(s) \in Nat /\ Len(t) \in Nat /\ Len(u) \in Nat
  OBVIOUS
<1>1. \A i \in DOMAIN s \cap DOMAIN t \cap DOMAIN u :
          /\ By(order, s[i], t[i]) \in -1..1 /\ By(order, t[i], u[i]) \in -1..1
          /\ By(order, s[i], u[i]) \in -1..1
          /\ By(order, s[i], t[i]) = 0 => By(order, s[i], u[i]) = By(order, t[i], u[i])
          /\ By(order, t[i], u[i]) = 0 => By(order, s[i], t[i]) = By(order, s[i], u[i])
          /\ By(order, s[i], t[i]) < 0 /\ By(order, t[i], u[i]) < 0 => By(order, s[i], u[i]) < 0
  BY OrderFacts
<1>2. CASE NoDifference(order, s, t) /\ NoDifference(order, t, u)
  <2>1. Len(s) < Len(t) /\ Len(t) < Len(u)
    BY <1>0, <1>2, LexNone DEF Sign
  <2>2. NoDifference(order, s, u)
    BY <1>0, <1>1, <1>2, <2>1 DEF NoDifference
  <2> QED
    BY <1>0, <2>1, <2>2, LexNone DEF Sign
<1>3. CASE NoDifference(order, s, t) /\ \E n : DifferAt(order, t, u, n)
  <2>1. Len(s) < Len(t)
    BY <1>0, <1>3, LexNone DEF Sign
  <2>2. PICK n : DifferAt(order, t, u, n)
    BY <1>3
  <2>3. By(order, t[n], u[n]) < 0 /\ n \in DOMAIN t \cap DOMAIN u
    BY <2>2, LexAt DEF DifferAt
  <2>4. CASE n \in DOMAIN s
    <3>1. DifferAt(order, s, u, n) /\ By(order, s[n], u[n]) < 0
      BY <1>0, <1>1, <1>3, <2>1, <2>2, <2>3, <2>4 DEF DifferAt, EqualBefore, NoDifference
    <3> QED
      BY <3>1, LexAt
  <2>5. CASE n \notin DOMAIN s
    <3>1. Len(s) < n /\ n <= Len(u) /\ Len(s) < Len(u)
      BY <1>0, <2>3, <2>5
    <3>2. NoDifference(order, s, u)
      BY <1>0, <1>1, <1>3, <2>1, <2>2, <3>1 DEF DifferAt, EqualBefore, NoDifference
    <3> QED
      BY <1>0, <3>1, <3>2, LexNone DEF Sign
  <2> QED
    BY <2>4, <2>5
<1>4. CASE (\E n : DifferAt(order, s, t, n)) /\ NoDifference(order, t, u)
  <2>1. Len(t) < Len(u)
    BY <1>0, <1>4, LexNone DEF Sign
  <2>2. PICK n : DifferAt(order, s, t, n)
    BY <1>4
  <2>3. By(order, s[n], t[n]) < 0 /\ n \in DOMAIN s \cap DOMAIN t
    BY <2>2, LexAt DEF DifferAt
  <2>4. DifferAt(order, s, u, n) /\ By(order, s[n], u[n]) < 0
    BY <1>0, <1>1, <1>4, <2>1, <2>2, <2>3 DEF DifferAt, EqualBefore, NoDifference
  <2> QED
    BY <2>4, LexAt
<1>5. CASE (\E n : DifferAt(order, s, t, n)) /\ (\E n : DifferAt(order, t, u, n))
  <2>1. PICK n : DifferAt(order, s, t, n)
    BY <1>5
  <2>2. PICK m : DifferAt(order, t, u, m)
    BY <1>5
  <2>3. /\ By(order, s[n], t[n]) < 0 /\ n \in DOMAIN s \cap DOMAIN t
        /\ By(order, t[m], u[m]) < 0 /\ m \in DOMAIN t \cap DOMAIN u
    BY <2>1, <2>2, LexAt DEF DifferAt
  <2>4. CASE n <= m
    <3>1. DifferAt(order, s, u, n) /\ By(order, s[n], u[n]) < 0
      BY <1>0, <1>1, <2>1, <2>2, <2>3, <2>4 DEF DifferAt, EqualBefore
    <3> QED
      BY <3>1, LexAt
  <2>5. CASE m < n
    <3>1. DifferAt(order, s, u, m) /\ By(order, s[m], u[m]) < 0
      BY <1>0, <1>1, <2>1, <2>2, <2>3, <2>5 DEF DifferAt, EqualBefore
    <3> QED
      BY <3>1, LexAt
  <2> QED
    BY <1>0, <2>3, <2>4, <2>5
<1> QED
  BY <1>2, <1>3, <1>4, <1>5, LexCases

LEMMA ByteOrdered == Ordered(ByteOrder, Int)
<1>1. \A x, y \in Int : By(ByteOrder, x, y) = Sign(x, y)
  BY DEF By, ByteOrder
<1>2. \A x, y, z \in Int :
         /\ Sign(x, y) \in -1..1
         /\ Sign(x, y) = -Sign(y, x)
         /\ Sign(x, y) = 0 => Sign(x, z) = Sign(y, z)
         /\ Sign(x, y) < 0 /\ Sign(y, z) < 0 => Sign(x, z) < 0
  BY DEF Sign
<1> QED
  BY <1>1, <1>2 DEF Ordered

(* Entries are ordered by their keys, then by their values.                *)
LEMMA EntryOrderIs ==
    ASSUME NEW order, NEW e \in Entries, NEW f \in Entries
    PROVE  By(EntryOrder(order), e, f) =
               IF By(order, e[1], f[1]) # 0 THEN By(order, e[1], f[1]) ELSE By(order, e[2], f[2])
BY DEF By, EntryOrder

LEMMA EntryOrdered ==
    ASSUME NEW order, NEW X \in SUBSET Values, Ordered(order, X)
    PROVE  Ordered(EntryOrder(order), X \X X)
<1> DEFINE o == EntryOrder(order)
<1>1. \A e, f \in X \X X :
          /\ e[1] \in X /\ e[2] \in X
          /\ By(o, e, f) = IF By(order, e[1], f[1]) # 0 THEN By(order, e[1], f[1])
                           ELSE By(order, e[2], f[2])
  BY EntryOrderIs DEF Entries
<1> HIDE DEF o
<1>2. ASSUME NEW e \in X \X X, NEW f \in X \X X
      PROVE  By(o, e, f) \in -1..1 /\ By(o, e, f) = -By(o, f, e)
  <2>1. \A k \in 1..2 : /\ By(order, e[k], f[k]) \in -1..1 /\ By(order, f[k], e[k]) \in -1..1
                        /\ By(order, e[k], f[k]) = -By(order, f[k], e[k])
    BY <1>1, OrderFacts
  <2> QED
    BY <1>1, <2>1
<1>3. ASSUME NEW e \in X \X X, NEW f \in X \X X, NEW g \in X \X X
      PROVE  /\ By(o, e, f) = 0 => By(o, e, g) = By(o, f, g)
             /\ By(o, e, f) < 0 /\ By(o, f, g) < 0 => By(o, e, g) < 0
  <2>1. \A k \in 1..2 :
            /\ By(order, e[k], f[k]) \in -1..1
            /\ By(order, f[k], g[k]) \in -1..1
            /\ By(order, e[k], g[k]) \in -1..1
            /\ By(order, e[k], f[k]) = 0 => By(order, e[k], g[k]) = By(order, f[k], g[k])
            /\ By(order, f[k], g[k]) = 0 => By(order, e[k], f[k]) = By(order, e[k], g[k])
            /\ By(order, e[k], f[k]) < 0 /\ By(order, f[k], g[k]) < 0 => By(order, e[k], g[k]) < 0
    BY <1>1, OrderFacts
  <2> QED
    BY <1>1, <2>1
<1> QED
  BY <1>2, <1>3 DEF Ordered, o

-----------------------------------------------------------------------------
(* Sorting *)

(* A sequence over an order can be sorted: the place of an element is the  *)
(* number of those that come before it.                                    *)
LEMMA CanBeSorted ==
    ASSUME NEW order, NEW X, Ordered(order, X), NEW s \in Seq(X)
    PROVE  Sortings(order, s) # {}
<1> DEFINE n == Len(s)
           I == 1..n
           first(i, j) == By(order, s[i], s[j]) < 0 \/ (By(order, s[i], s[j]) = 0 /\ i < j)
           before(i) == {j \in I : first(j, i)}
           rank == [i \in I |-> Cardinality(before(i)) + 1]
           at == [k \in I |-> CHOOSE i \in I : rank[i] = k]
<1>0. n \in Nat /\ DOMAIN s = I /\ IsFiniteSet(I) /\ Cardinality(I) = n
  <2>1. n \in Nat /\ DOMAIN s = I
    OBVIOUS
  <2>2. IsFiniteSet(1..n) /\ Cardinality(1..n) = IF 1 > n THEN 0 ELSE n - 1 + 1
    BY <2>1, FS_Interval
  <2> QED
    BY <2>1, <2>2
<1>1. \A i, j, k \in I :
          /\ i \in Int /\ By(order, s[i], s[j]) \in -1..1
          /\ By(order, s[i], s[i]) = 0
          /\ By(order, s[i], s[j]) = -By(order, s[j], s[i])
          /\ By(order, s[i], s[j]) = 0 => By(order, s[i], s[k]) = By(order, s[j], s[k])
          /\ By(order, s[j], s[k]) = 0 => By(order, s[i], s[j]) = By(order, s[i], s[k])
          /\ By(order, s[i], s[j]) < 0 /\ By(order, s[j], s[k]) < 0 => By(order, s[i], s[k]) < 0
  <2>1. \A i \in I : s[i] \in X
    OBVIOUS
  <2> HIDE DEF I
  <2> QED
    BY <2>1, OrderFacts DEF I
<1>2. \A i, j \in I : i # j => first(i, j) \/ first(j, i)
  <2> SUFFICES ASSUME NEW i \in I, NEW j \in I, i # j PROVE first(i, j) \/ first(j, i)
    OBVIOUS
  <2>1. /\ By(order, s[i], s[j]) \in -1..1 /\ By(order, s[j], s[i]) \in -1..1
        /\ By(order, s[i], s[j]) = -By(order, s[j], s[i])
    BY <1>1
  <2> QED
    BY <2>1
<1>3. \A i \in I : ~ first(i, i)
  BY <1>1
<1>4. \A i, j, k \in I : first(i, j) /\ first(j, k) => first(i, k)
  BY <1>1
<1> HIDE DEF first
<1>5. \A i \in I : before(i) \subseteq I /\ IsFiniteSet(before(i)) /\ Cardinality(before(i)) \in 0..n - 1
  <2> SUFFICES ASSUME NEW i \in I
               PROVE  before(i) \subseteq I /\ IsFiniteSet(before(i)) /\ Cardinality(before(i)) \in 0..n - 1
    OBVIOUS
  <2> HIDE DEF I
  <2>1. before(i) \subseteq I \ {i}
    BY <1>3
  <2>2. IsFiniteSet(I \ {i}) /\ Cardinality(I \ {i}) = n - 1
    BY <1>0, FS_RemoveElement
  <2> HIDE DEF before
  <2>3. IsFiniteSet(before(i)) /\ Cardinality(before(i)) <= n - 1
    BY <2>1, <2>2, FS_Subset
  <2>4. Cardinality(before(i)) \in Nat
    BY <2>3, FS_CardinalityType
  <2> QED
    BY <1>0, <2>1, <2>3, <2>4
<1>6. \A i, j \in I : first(i, j) => Cardinality(before(i)) < Cardinality(before(j))
  <2> SUFFICES ASSUME NEW i \in I, NEW j \in I, first(i, j)
               PROVE  Cardinality(before(i)) < Cardinality(before(j))
    OBVIOUS
  <2> HIDE DEF I
  <2>1. before(i) \subseteq before(j) /\ i \in before(j) /\ i \notin before(i)
    BY <1>3, <1>4
  <2> HIDE DEF before
  <2>2. /\ IsFiniteSet(before(j)) /\ Cardinality(before(i)) \in Int /\ Cardinality(before(j)) \in Int
    BY <1>5
  <2>3. /\ Cardinality(before(i)) <= Cardinality(before(j))
        /\ Cardinality(before(j)) # Cardinality(before(i))
    BY <2>1, <2>2, FS_Subset
  <2> QED
    BY <2>2, <2>3
<1> HIDE DEF before
<1>7. rank \in [I -> I] /\ \A i, j \in I : first(i, j) => rank[i] < rank[j]
  <2>1. \A i \in I : Cardinality(before(i)) + 1 \in I
    BY <1>0, <1>5
  <2>2. \A i, j \in I : first(i, j) => Cardinality(before(i)) + 1 < Cardinality(before(j)) + 1
    BY <1>5, <1>6
  <2> HIDE DEF I
  <2> QED
    BY <2>1, <2>2
<1> HIDE DEF rank
<1>8. \A i, j \in I : rank[i] = rank[j] => i = j
  <2>1. \A i \in I : rank[i] \in Int
    BY <1>7
  <2> HIDE DEF I
  <2>2. \A i, j \in I : first(i, j) => rank[i] # rank[j]
    BY <1>7, <2>1
  <2> QED
    BY <1>2, <2>2
<1>9. \A k \in I : \E i \in I : rank[i] = k
  <2> HIDE DEF I
  <2>1. rank \in Injection(I, I)
    BY <1>7, <1>8 DEF Injection, IsInjective
  <2>2. rank \in Surjection(I, I)
    BY <1>0, <2>1, FS_Injection
  <2> QED
    BY <2>2 DEF Surjection
<1>10. at \in [I -> I] /\ \A k \in I : rank[at[k]] = k
  <2> HIDE DEF I
  <2> QED
    BY <1>9
<1>11. \A i \in I : at[rank[i]] = i
  <2> HIDE DEF I, at
  <2>1. \A i \in I : rank[i] \in I
    BY <1>7
  <2>2. \A i \in I : rank[at[rank[i]]] = rank[i] /\ at[rank[i]] \in I
    BY <1>10, <2>1
  <2> QED
    BY <1>8, <2>2
<1> HIDE DEF at
<1>12. at \in Bijection(DOMAIN s, DOMAIN s)
  <2> HIDE DEF I
  <2>1. \A k, l \in I : at[k] = at[l] => k = l
    BY <1>10
  <2>2. \A i \in I : \E k \in I : at[k] = i
    BY <1>7, <1>11
  <2> QED
    BY <1>0, <1>10, <2>1, <2>2 DEF Bijection, Injection, IsInjective, Surjection
<1>13. \A k, l \in I : k < l => By(order, s[at[k]], s[at[l]]) <= 0
  <2> SUFFICES ASSUME NEW k \in I, NEW l \in I, k < l
               PROVE  By(order, s[at[k]], s[at[l]]) <= 0
    OBVIOUS
  <2>1. at[k] \in I /\ at[l] \in I /\ rank[at[k]] = k /\ rank[at[l]] = l
    BY <1>10
  <2>2. k # l /\ ~ (l < k)
    OBVIOUS
  <2>3. first(at[k], at[l])
    BY <1>2, <1>7, <2>1, <2>2
  <2>4. By(order, s[at[k]], s[at[l]]) \in -1..1
    BY <1>1, <2>1
  <2> QED
    BY <2>3, <2>4 DEF first
<1>14. at \in Sortings(order, s)
  BY <1>0, <1>12, <1>13 DEF Sortings
<1> QED
  BY <1>14

(* What qsort makes is the sequence in some order, and sorted.             *)
LEMMA SortedIs ==
    ASSUME NEW order, NEW X, Ordered(order, X), NEW s \in Seq(X)
    PROVE  /\ Sorted(order, s) \in Seq(X)
           /\ Len(Sorted(order, s)) = Len(s)
           /\ \E at \in Bijection(1..Len(s), 1..Len(s)) :
                /\ \A i \in 1..Len(s) : Sorted(order, s)[i] = s[at[i]]
                /\ \A i, j \in 1..Len(s) : i < j => By(order, s[at[i]], s[at[j]]) <= 0
<1> DEFINE at == CHOOSE at \in Sortings(order, s) : TRUE
<1>1. at \in Sortings(order, s)
  BY CanBeSorted
<1>2. DOMAIN s = 1..Len(s) /\ Len(s) \in Nat
  OBVIOUS
<1>3. Sorted(order, s) = [i \in DOMAIN s |-> s[at[i]]]
  BY DEF Sorted
<1> HIDE DEF at
<1>4. /\ at \in Bijection(1..Len(s), 1..Len(s))
      /\ \A i, j \in 1..Len(s) : i < j => By(order, s[at[i]], s[at[j]]) <= 0
  BY <1>1, <1>2 DEF Sortings
<1>5. at \in [1..Len(s) -> 1..Len(s)]
  BY <1>4 DEF Bijection, Injection
<1>6. \A i \in 1..Len(s) : s[at[i]] \in X
  BY <1>2, <1>5
<1>7. Sorted(order, s) \in [1..Len(s) -> X]
  BY <1>2, <1>3, <1>6
<1>8. Sorted(order, s) \in Seq(X) /\ Len(Sorted(order, s)) = Len(s)
  BY <1>2, <1>7
<1> QED
  BY <1>2, <1>3, <1>4, <1>8

-----------------------------------------------------------------------------
(* val_cmp, when what it is asked of is ordered *)

(* The four facts of an order, of three things x, y, z and what they are   *)
(* compared by: c is x with y, and so on.                                  *)
Facts(xy, yx, xz, yz) ==
    /\ xy \in -1..1
    /\ xy = -yx
    /\ xy = 0 => xz = yz
    /\ xy < 0 /\ yz < 0 => xz < 0

LEMMA LexFacts ==
    ASSUME NEW order, NEW X, Ordered(order, X), NEW s \in Seq(X), NEW t \in Seq(X), NEW u \in Seq(X)
    PROVE  Facts(Lex(order, s, t), Lex(order, t, s), Lex(order, s, u), Lex(order, t, u))
BY LexEqual, LexOpposite, LexCongruent, LexTransitive DEF Facts

LEMMA SignFacts ==
    ASSUME NEW x \in Int, NEW y \in Int, NEW z \in Int
    PROVE  Facts(Sign(x, y), Sign(y, x), Sign(x, z), Sign(y, z))
BY DEF Facts, Sign

LEMMA FloatFacts ==
    ASSUME NEW f \in DOMAIN FloatOrder \cup NaN, NEW g \in DOMAIN FloatOrder \cup NaN,
           NEW h \in DOMAIN FloatOrder \cup NaN
    PROVE  Facts(CmpFloat(f, g), CmpFloat(g, f), CmpFloat(f, h), CmpFloat(g, h))
<1>1. \A x \in {f, g, h} : x \notin NaN => FloatOrder[x] \in Int
  BY FloatAssumption
<1> QED
  BY <1>1 DEF Facts, CmpFloat, Sign

LEMMA MapFacts ==
    ASSUME NEW order, NEW X \in SUBSET Values, Ordered(order, X),
           NEW s \in Seq(X \X X), NEW t \in Seq(X \X X), NEW u \in Seq(X \X X)
    PROVE  Facts(CmpMap(order, s, t), CmpMap(order, t, s), CmpMap(order, s, u), CmpMap(order, t, u))
<1> DEFINE o == EntryOrder(order)
           S == Sorted(o, s)
           T == Sorted(o, t)
           U == Sorted(o, u)
<1>1. Ordered(o, X \X X)
  BY EntryOrdered
<1>2. Len(s) \in Nat /\ Len(t) \in Nat /\ Len(u) \in Nat
  OBVIOUS
<1>3. /\ CmpMap(order, s, t) = IF Len(s) # Len(t) THEN Sign(Len(s), Len(t)) ELSE Lex(o, S, T)
      /\ CmpMap(order, t, s) = IF Len(t) # Len(s) THEN Sign(Len(t), Len(s)) ELSE Lex(o, T, S)
      /\ CmpMap(order, s, u) = IF Len(s) # Len(u) THEN Sign(Len(s), Len(u)) ELSE Lex(o, S, U)
      /\ CmpMap(order, t, u) = IF Len(t) # Len(u) THEN Sign(Len(t), Len(u)) ELSE Lex(o, T, U)
  BY DEF CmpMap
<1> HIDE DEF o
<1>4. S \in Seq(X \X X) /\ T \in Seq(X \X X) /\ U \in Seq(X \X X)
  BY <1>1, SortedIs
<1> HIDE DEF S, T, U
<1>5. Facts(Lex(o, S, T), Lex(o, T, S), Lex(o, S, U), Lex(o, T, U))
  BY <1>1, <1>4, LexFacts
<1>6. Facts(Sign(Len(s), Len(t)), Sign(Len(t), Len(s)), Sign(Len(s), Len(u)), Sign(Len(t), Len(u)))
  BY <1>2, SignFacts
<1>7. Lex(o, T, U) \in -1..1 /\ Lex(o, S, U) \in -1..1
  BY <1>1, <1>4, LexEqual
<1>8. /\ Sign(Len(s), Len(t)) = 0 <=> Len(s) = Len(t)
      /\ Sign(Len(t), Len(u)) = 0 <=> Len(t) = Len(u)
      /\ Sign(Len(t), Len(u)) \in -1..1 /\ Sign(Len(s), Len(u)) \in -1..1
  BY <1>2 DEF Sign
<1> HIDE DEF Facts
<1>9. CASE Len(s) = Len(t)
  <2>1. CASE Len(t) = Len(u)
    BY <1>3, <1>5, <1>9, <2>1
  <2>2. CASE Len(t) # Len(u)
    <3>1. Lex(o, S, T) = 0 => CmpMap(order, s, u) = CmpMap(order, t, u)
      BY <1>3, <1>9, <2>2
    <3>2. CmpMap(order, t, u) < 0 => CmpMap(order, s, u) < 0
      BY <1>3, <1>9, <2>2
    <3> QED
      BY <1>3, <1>5, <1>9, <3>1, <3>2 DEF Facts
  <2> QED
    BY <2>1, <2>2
<1>10. CASE Len(s) # Len(t)
  <2>1. /\ CmpMap(order, s, t) = Sign(Len(s), Len(t)) /\ CmpMap(order, t, s) = Sign(Len(t), Len(s))
    BY <1>3, <1>10
  <2>2. CASE Len(t) = Len(u)
    <3>1. CmpMap(order, s, t) < 0 => CmpMap(order, s, u) < 0
      BY <1>3, <1>10, <2>2
    <3> QED
      BY <1>6, <1>8, <1>10, <2>1, <3>1 DEF Facts
  <2>3. CASE Len(t) # Len(u) /\ Len(s) # Len(u)
    BY <1>3, <1>6, <1>10, <2>3
  <2>4. CASE Len(s) = Len(u) /\ Len(t) # Len(u)
    <3>1. ~ (CmpMap(order, s, t) < 0 /\ CmpMap(order, t, u) < 0)
      BY <1>2, <1>3, <1>10, <2>4 DEF Sign
    <3> QED
      BY <1>6, <1>8, <1>10, <2>1, <3>1 DEF Facts
  <2> QED
    BY <2>2, <2>3, <2>4
<1> QED
  BY <1>9, <1>10

LEMMA RankIs ==
    ASSUME NEW t \in Range(Types), NEW u \in Range(Types)
    PROVE  /\ TypeRank(t) \in Int
           /\ TypeRank(t) = TypeRank(u) => t = u
<1>1. ASSUME NEW x \in Range(Types) PROVE TypeRank(x) \in DOMAIN Types /\ Types[TypeRank(x)] = x
  <2>1. \E i \in DOMAIN Types : Types[i] = x
    BY DEF Range
  <2> QED
    BY <2>1 DEF TypeRank
<1>2. DOMAIN Types \subseteq Int
  BY DEF Types
<1> QED
  BY <1>1, <1>2

(* What a value is made of, as a set X that it is made of allows.          *)
LEMMA PayloadIs ==
    ASSUME NEW X \in SUBSET Values, NEW v \in Values, Within(v) \subseteq X
    PROVE  /\ v.type \in Range(Types)
           /\ v.type \in {"bool", "int"} => v.num \in Int
           /\ v.type = "float" => v.bits \in DOMAIN FloatOrder \cup NaN
           /\ v.type = "list" => v.items \in Seq(X)
           /\ v.type = "map" => v.entries \in Seq(X \X X)
           /\ v.type \notin {"nil", "bool", "int", "float", "list", "map"} => v.bytes \in Seq(Int)
<1>1. CASE v.type = "list"
  <2>1. v.items \in Seq(Values) /\ \A i \in DOMAIN v.items : v.items[i] \in X
    BY <1>1, ValuesAssumption DEF Within, Range
  <2>2. v.items \in Seq(X)
    BY <2>1
  <2> QED
    BY <1>1, <2>2, ValuesAssumption
<1>2. CASE v.type = "map"
  <2>1. v.entries \in Seq(Values \X Values)
    BY <1>2, ValuesAssumption DEF Entries
  <2>2. \A i \in DOMAIN v.entries : v.entries[i] \in Values \X Values
    BY <2>1
  <2>3. \A i \in DOMAIN v.entries : v.entries[i][1] \in X /\ v.entries[i][2] \in X
    <3>1. Within(v) = UNION {{e[1], e[2]} : e \in Range(v.entries)}
      BY <1>2 DEF Within
    <3>2. \A i \in DOMAIN v.entries : v.entries[i] \in Range(v.entries)
      BY DEF Range
    <3> QED
      BY <3>1, <3>2
  <2>4. \A i \in DOMAIN v.entries : v.entries[i] \in X \X X
    BY <2>2, <2>3
  <2>5. v.entries \in Seq(X \X X)
    BY <2>1, <2>4
  <2> QED
    BY <1>2, <2>5, ValuesAssumption
<1>3. CASE v.type \notin {"list", "map"}
  BY <1>3, ValuesAssumption
<1> QED
  BY <1>1, <1>2, <1>3

LEMMA SameTypeFacts ==
    ASSUME NEW order, NEW X \in SUBSET Values, Ordered(order, X),
           NEW v \in Values, NEW w \in Values, NEW u \in Values,
           Within(v) \subseteq X, Within(w) \subseteq X, Within(u) \subseteq X,
           v.type = w.type, w.type = u.type
    PROVE  Facts(CmpBy(order, v, w), CmpBy(order, w, v), CmpBy(order, v, u), CmpBy(order, w, u))
<1>1. CASE v.type = "nil"
  BY <1>1 DEF CmpBy, Facts
<1>2. CASE v.type \in {"bool", "int"}
  <2>1. v.num \in Int /\ w.num \in Int /\ u.num \in Int
    BY <1>2, PayloadIs
  <2>2. /\ CmpBy(order, v, w) = Sign(v.num, w.num) /\ CmpBy(order, w, v) = Sign(w.num, v.num)
        /\ CmpBy(order, v, u) = Sign(v.num, u.num) /\ CmpBy(order, w, u) = Sign(w.num, u.num)
    BY <1>2 DEF CmpBy
  <2> QED
    BY <2>1, <2>2, SignFacts
<1>3. CASE v.type = "float"
  <2> DEFINE F == DOMAIN FloatOrder \cup NaN
  <2>1. v.bits \in F /\ w.bits \in F /\ u.bits \in F
    BY <1>3, PayloadIs
  <2>2. /\ CmpBy(order, v, w) = CmpFloat(v.bits, w.bits) /\ CmpBy(order, w, v) = CmpFloat(w.bits, v.bits)
        /\ CmpBy(order, v, u) = CmpFloat(v.bits, u.bits) /\ CmpBy(order, w, u) = CmpFloat(w.bits, u.bits)
    BY <1>3 DEF CmpBy
  <2> QED
    BY <2>1, <2>2, FloatFacts
<1>4. CASE v.type = "list"
  <2>1. v.items \in Seq(X) /\ w.items \in Seq(X) /\ u.items \in Seq(X)
    BY <1>4, PayloadIs
  <2>2. /\ CmpBy(order, v, w) = Lex(order, v.items, w.items)
        /\ CmpBy(order, w, v) = Lex(order, w.items, v.items)
        /\ CmpBy(order, v, u) = Lex(order, v.items, u.items)
        /\ CmpBy(order, w, u) = Lex(order, w.items, u.items)
    BY <1>4 DEF CmpBy
  <2> QED
    BY <2>1, <2>2, LexFacts
<1>5. CASE v.type = "map"
  <2>1. v.entries \in Seq(X \X X) /\ w.entries \in Seq(X \X X) /\ u.entries \in Seq(X \X X)
    BY <1>5, PayloadIs
  <2>2. /\ CmpBy(order, v, w) = CmpMap(order, v.entries, w.entries)
        /\ CmpBy(order, w, v) = CmpMap(order, w.entries, v.entries)
        /\ CmpBy(order, v, u) = CmpMap(order, v.entries, u.entries)
        /\ CmpBy(order, w, u) = CmpMap(order, w.entries, u.entries)
    BY <1>5 DEF CmpBy
  <2> QED
    BY <2>1, <2>2, MapFacts
<1>6. CASE v.type \notin {"nil", "bool", "int", "float", "list", "map"}
  <2>1. v.bytes \in Seq(Int) /\ w.bytes \in Seq(Int) /\ u.bytes \in Seq(Int)
    BY <1>6, PayloadIs
  <2>2. /\ CmpBy(order, v, w) = Lex(ByteOrder, v.bytes, w.bytes)
        /\ CmpBy(order, w, v) = Lex(ByteOrder, w.bytes, v.bytes)
        /\ CmpBy(order, v, u) = Lex(ByteOrder, v.bytes, u.bytes)
        /\ CmpBy(order, w, u) = Lex(ByteOrder, w.bytes, u.bytes)
    BY <1>6 DEF CmpBy
  <2> QED
    BY <2>1, <2>2, LexFacts, ByteOrdered
<1> QED
  BY <1>1, <1>2, <1>3, <1>4, <1>5, <1>6

LEMMA CmpByFacts ==
    ASSUME NEW order, NEW X \in SUBSET Values, Ordered(order, X),
           NEW v \in Values, NEW w \in Values, NEW u \in Values,
           Within(v) \subseteq X, Within(w) \subseteq X, Within(u) \subseteq X
    PROVE  Facts(CmpBy(order, v, w), CmpBy(order, w, v), CmpBy(order, v, u), CmpBy(order, w, u))
<1> DEFINE r(x) == TypeRank(x.type)
<1>1. \A x, y \in {v, w, u} :
          /\ r(x) \in Int
          /\ r(x) = r(y) => x.type = y.type
          /\ x.type # y.type => CmpBy(order, x, y) = Sign(r(x), r(y)) /\ r(x) # r(y)
  BY PayloadIs, RankIs DEF CmpBy
<1>2. CASE v.type = w.type /\ w.type = u.type
  BY <1>2, SameTypeFacts
<1>3. CASE v.type = w.type /\ w.type # u.type
  <2>1. Facts(CmpBy(order, v, w), CmpBy(order, w, v), CmpBy(order, v, w), CmpBy(order, w, w))
    BY <1>3, SameTypeFacts
  <2>2. CmpBy(order, v, u) = CmpBy(order, w, u)
    BY <1>3 DEF CmpBy
  <2> QED
    BY <2>1, <2>2 DEF Facts
<1>4. CASE v.type # w.type
  <2>1. CmpBy(order, v, w) = Sign(r(v), r(w)) /\ CmpBy(order, w, v) = Sign(r(w), r(v)) /\ r(v) # r(w)
    BY <1>1, <1>4
  <2>2. CASE w.type = u.type
    <3>1. CmpBy(order, v, u) = CmpBy(order, v, w)
      BY <1>4, <2>2 DEF CmpBy
    <3> QED
      BY <1>1, <2>1, <3>1 DEF Facts, Sign
  <2>3. CASE w.type # u.type /\ v.type = u.type
    <3>1. CmpBy(order, w, u) = Sign(r(w), r(v))
      BY <1>1, <2>3
    <3> QED
      BY <1>1, <2>1, <3>1 DEF Facts, Sign
  <2>4. CASE w.type # u.type /\ v.type # u.type
    <3>1. CmpBy(order, w, u) = Sign(r(w), r(u)) /\ CmpBy(order, v, u) = Sign(r(v), r(u))
      BY <1>1, <2>4
    <3> QED
      BY <1>1, <2>1, <3>1 DEF Facts, Sign
  <2> QED
    BY <2>2, <2>3, <2>4
<1> QED
  BY <1>2, <1>3, <1>4

-----------------------------------------------------------------------------
(* val_cmp orders all values *)

(* order is what CmpBy says of it, at least where what CmpBy asks of it is *)
(* ordered.                                                                *)
Parts(v, w) == Within(v) \cup Within(w)
Follows(order) ==
    \A v, w \in Values :
        Ordered(order, Parts(v, w)) => By(order, v, w) = CmpBy(order, v, w)

Shallow(d) == {v \in Values : Depth(v) < d}

LEMMA WithinShallow ==
    ASSUME NEW v \in Values, NEW d \in Nat, Depth(v) <= d
    PROVE  Within(v) \subseteq Shallow(d)
<1>1. Within(v) \subseteq Values
  <2>1. CASE v.type = "list"
    <3>1. v.items \in Seq(Values)
      BY <2>1, ValuesAssumption
    <3> QED
      BY <2>1, <3>1 DEF Within, Range
  <2>2. CASE v.type = "map"
    <3>1. v.entries \in Seq(Values \X Values)
      BY <2>2, ValuesAssumption DEF Entries
    <3>2. \A e \in Range(v.entries) : e[1] \in Values /\ e[2] \in Values
      BY <3>1 DEF Range
    <3> QED
      BY <2>2, <3>2 DEF Within
  <2>3. CASE v.type \notin {"list", "map"}
    BY <2>3 DEF Within
  <2> QED
    BY <2>1, <2>2, <2>3
<1>2. \A w \in Within(v) : Depth(w) < Depth(v)
  BY ValuesAssumption
<1>3. \A w \in Values : Depth(w) \in Nat
  BY ValuesAssumption
<1>4. \A w \in Within(v) : Depth(w) < d
  BY <1>1, <1>2, <1>3
<1> QED
  BY <1>1, <1>4 DEF Shallow

LEMMA FollowsOrdered ==
    ASSUME NEW order, Follows(order)
    PROVE  \A d \in Nat : Ordered(order, Shallow(d))
<1> DEFINE Bad == {d \in Nat : ~ Ordered(order, Shallow(d))}
<1> SUFFICES ASSUME Bad # {} PROVE FALSE
  OBVIOUS
<1>1. PICK d \in Bad : \A n \in Bad : d <= n
  <2>1. Bad \in SUBSET Nat
    OBVIOUS
  <2> HIDE DEF Bad
  <2> QED
    BY <2>1, LeastNatural
<1>2. d \in Nat /\ ~ Ordered(order, Shallow(d))
  BY <1>1
<1>3. d # 0
  <2>1. SUFFICES ASSUME d = 0 PROVE Ordered(order, Shallow(d))
    BY <1>2
  <2>2. Shallow(d) = {}
    BY <2>1, ValuesAssumption DEF Shallow
  <2> QED
    BY <2>2 DEF Ordered
<1>4. d - 1 \in Nat /\ Ordered(order, Shallow(d - 1))
  BY <1>1, <1>2, <1>3
<1>5. ASSUME NEW v \in Shallow(d), NEW w \in Shallow(d), NEW u \in Shallow(d)
      PROVE  /\ Facts(CmpBy(order, v, w), CmpBy(order, w, v), CmpBy(order, v, u), CmpBy(order, w, u))
             /\ By(order, v, w) = CmpBy(order, v, w)
  <2>1. \A x \in Shallow(d) : x \in Values /\ Within(x) \subseteq Shallow(d - 1)
    <3>1. \A x \in Shallow(d) : x \in Values /\ Depth(x) <= d - 1
      BY <1>2, ValuesAssumption DEF Shallow
    <3> QED
      BY <1>4, <3>1, WithinShallow
  <2>2. Shallow(d - 1) \in SUBSET Values
    BY DEF Shallow
  <2>3. Facts(CmpBy(order, v, w), CmpBy(order, w, v), CmpBy(order, v, u), CmpBy(order, w, u))
    BY <1>4, <2>1, <2>2, CmpByFacts
  <2>4. Ordered(order, Parts(v, w))
    <3>1. \A x \in Parts(v, w) : x \in Shallow(d - 1)
      BY <2>1 DEF Parts
    <3> QED
      BY <1>4, <3>1 DEF Ordered
  <2> QED
    BY <2>1, <2>3, <2>4 DEF Follows
<1>6. Ordered(order, Shallow(d))
  BY <1>5 DEF Ordered, Facts
<1> QED
  BY <1>2, <1>6

LEMMA FollowsOrders ==
    ASSUME NEW order, Follows(order)
    PROVE  /\ Ordered(order, Values)
           /\ \A v, w \in Values : CmpBy(order, v, w) \in -1..1
<1>1. ASSUME NEW v \in Values, NEW w \in Values, NEW u \in Values
      PROVE  \E d \in Nat : v \in Shallow(d) /\ w \in Shallow(d) /\ u \in Shallow(d)
  <2> DEFINE d == Depth(v) + Depth(w) + Depth(u) + 1
  <2>1. Depth(v) \in Nat /\ Depth(w) \in Nat /\ Depth(u) \in Nat
    BY ValuesAssumption
  <2>2. d \in Nat /\ Depth(v) < d /\ Depth(w) < d /\ Depth(u) < d
    BY <2>1
  <2> HIDE DEF d
  <2> QED
    BY <2>2 DEF Shallow
<1>2. Ordered(order, Values)
  <2>1. ASSUME NEW v \in Values, NEW w \in Values, NEW u \in Values
        PROVE  /\ By(order, v, w) \in -1..1
               /\ By(order, v, w) = -By(order, w, v)
               /\ By(order, v, w) = 0 => By(order, v, u) = By(order, w, u)
               /\ By(order, v, w) < 0 /\ By(order, w, u) < 0 => By(order, v, u) < 0
    <3>1. PICK d \in Nat : v \in Shallow(d) /\ w \in Shallow(d) /\ u \in Shallow(d)
      BY <1>1
    <3> QED
      BY <3>1, FollowsOrdered, OrderFacts
  <2> QED
    BY <2>1 DEF Ordered
<1>3. ASSUME NEW v \in Values, NEW w \in Values PROVE CmpBy(order, v, w) \in -1..1
  <2>1. Within(v) \subseteq Values /\ Within(w) \subseteq Values
    <3>1. Depth(v) \in Nat /\ Depth(w) \in Nat
      BY ValuesAssumption
    <3>2. Within(v) \subseteq Shallow(Depth(v)) /\ Within(w) \subseteq Shallow(Depth(w))
      BY <3>1, WithinShallow
    <3> QED
      BY <3>2 DEF Shallow
  <2>2. Facts(CmpBy(order, v, w), CmpBy(order, w, v), CmpBy(order, v, v), CmpBy(order, w, v))
    BY <1>2, <2>1, CmpByFacts
  <2> QED
    BY <2>2 DEF Facts
<1> QED
  BY <1>2, <1>3

-----------------------------------------------------------------------------
(* val_cmp exists *)

(* Two comparisons that say the same of the things of X.                   *)
Agree(order, another, X) == \A x, y \in X : By(order, x, y) = By(another, x, y)

LEMMA LexAgrees ==
    ASSUME NEW order, NEW another, NEW X, Agree(order, another, X),
           NEW s \in Seq(X), NEW t \in Seq(X)
    PROVE  Lex(order, s, t) = Lex(another, s, t)
<1>1. \A i \in DOMAIN s \cap DOMAIN t : By(order, s[i], t[i]) = By(another, s[i], t[i])
  BY DEF Agree
<1>2. CASE NoDifference(order, s, t)
  <2>1. NoDifference(another, s, t)
    BY <1>1, <1>2 DEF NoDifference
  <2> QED
    BY <1>2, <2>1, LexNone
<1>3. CASE \E n : DifferAt(order, s, t, n)
  <2>1. PICK n : DifferAt(order, s, t, n)
    BY <1>3
  <2>2. DifferAt(another, s, t, n) /\ By(order, s[n], t[n]) = By(another, s[n], t[n])
    BY <1>1, <2>1 DEF DifferAt, EqualBefore
  <2> QED
    BY <2>1, <2>2, LexAt
<1> QED
  BY <1>2, <1>3, LexCases

LEMMA EntriesAgree ==
    ASSUME NEW order, NEW another, NEW X \in SUBSET Values, Agree(order, another, X)
    PROVE  Agree(EntryOrder(order), EntryOrder(another), X \X X)
<1> SUFFICES ASSUME NEW e \in X \X X, NEW f \in X \X X
             PROVE  By(EntryOrder(order), e, f) = By(EntryOrder(another), e, f)
  BY DEF Agree
<1>1. e \in Entries /\ f \in Entries
  BY DEF Entries
<1>2. \A n \in 1..2 : By(order, e[n], f[n]) = By(another, e[n], f[n])
  BY DEF Agree
<1> QED
  BY <1>1, <1>2, EntryOrderIs

LEMMA SortedAgrees ==
    ASSUME NEW order, NEW another, NEW X, Agree(order, another, X), NEW s \in Seq(X)
    PROVE  Sorted(order, s) = Sorted(another, s)
<1>1. ASSUME NEW at \in Bijection(DOMAIN s, DOMAIN s), NEW i \in DOMAIN s, NEW j \in DOMAIN s
      PROVE  By(order, s[at[i]], s[at[j]]) = By(another, s[at[i]], s[at[j]])
  <2>1. at \in [DOMAIN s -> DOMAIN s]
    BY <1>1 DEF Bijection, Injection
  <2>2. s[at[i]] \in X /\ s[at[j]] \in X
    BY <2>1
  <2> QED
    BY <2>2 DEF Agree
<1>2. Sortings(order, s) = Sortings(another, s)
  BY <1>1 DEF Sortings
<1> QED
  BY <1>2 DEF Sorted

LEMMA MapsAgree ==
    ASSUME NEW order, NEW another, NEW X \in SUBSET Values, Agree(order, another, X),
           Ordered(order, X), NEW s \in Seq(X \X X), NEW t \in Seq(X \X X)
    PROVE  CmpMap(order, s, t) = CmpMap(another, s, t)
<1> DEFINE o == EntryOrder(order)
           a == EntryOrder(another)
<1>1. Ordered(o, X \X X) /\ Agree(o, a, X \X X)
  BY EntriesAgree, EntryOrdered
<1>2. CmpMap(order, s, t) =
          IF Len(s) # Len(t) THEN Sign(Len(s), Len(t)) ELSE Lex(o, Sorted(o, s), Sorted(o, t))
  BY DEF CmpMap
<1>3. CmpMap(another, s, t) =
          IF Len(s) # Len(t) THEN Sign(Len(s), Len(t)) ELSE Lex(a, Sorted(a, s), Sorted(a, t))
  BY DEF CmpMap
<1> HIDE DEF o, a
<1>4. Sorted(o, s) \in Seq(X \X X) /\ Sorted(o, t) \in Seq(X \X X)
  BY <1>1, SortedIs
<1>5. Sorted(o, s) = Sorted(a, s) /\ Sorted(o, t) = Sorted(a, t)
  BY <1>1, SortedAgrees
<1>6. Lex(o, Sorted(o, s), Sorted(o, t)) = Lex(a, Sorted(o, s), Sorted(o, t))
  BY <1>1, <1>4, LexAgrees
<1> QED
  BY <1>2, <1>3, <1>5, <1>6

LEMMA CmpByAgrees ==
    ASSUME NEW order, NEW another, NEW X \in SUBSET Values, Agree(order, another, X),
           Ordered(order, X), NEW v \in Values, NEW w \in Values,
           Within(v) \subseteq X, Within(w) \subseteq X
    PROVE  CmpBy(order, v, w) = CmpBy(another, v, w)
<1>1. CASE v.type # w.type \/ v.type \notin {"list", "map"}
  BY <1>1 DEF CmpBy
<1>2. CASE v.type = w.type /\ v.type = "list"
  <2>1. v.items \in Seq(X) /\ w.items \in Seq(X)
    BY <1>2, PayloadIs
  <2>2. Lex(order, v.items, w.items) = Lex(another, v.items, w.items)
    BY <2>1, LexAgrees
  <2> QED
    BY <1>2, <2>2 DEF CmpBy
<1>3. CASE v.type = w.type /\ v.type = "map"
  <2>1. v.entries \in Seq(X \X X) /\ w.entries \in Seq(X \X X)
    BY <1>3, PayloadIs
  <2>2. CmpMap(order, v.entries, w.entries) = CmpMap(another, v.entries, w.entries)
    BY <2>1, MapsAgree
  <2> QED
    BY <1>3, <2>2 DEF CmpBy
<1> QED
  BY <1>1, <1>2, <1>3

LEMMA AgreeOrdered ==
    ASSUME NEW order, NEW another, NEW X, Agree(order, another, X), Ordered(order, X)
    PROVE  Ordered(another, X)
BY DEF Agree, Ordered

LEMMA PartsAre ==
    ASSUME NEW v \in Values, NEW w \in Values
    PROVE  /\ Parts(v, w) \in SUBSET Values
           /\ Within(v) \subseteq Parts(v, w) /\ Within(w) \subseteq Parts(v, w)
           /\ \A x \in Parts(v, w) : Depth(x) < Depth(v) \/ Depth(x) < Depth(w)
<1>1. Depth(v) \in Nat /\ Depth(w) \in Nat
  BY ValuesAssumption
<1>2. Within(v) \subseteq Shallow(Depth(v)) /\ Within(w) \subseteq Shallow(Depth(w))
  BY <1>1, WithinShallow
<1> QED
  BY <1>2 DEF Parts, Shallow

(* How deep a comparison of two values is nested; it asks of others that   *)
(* are less so.                                                            *)
Deeper == [p \in Values \X Values |->
               IF Depth(p[1]) < Depth(p[2]) THEN Depth(p[2]) ELSE Depth(p[1])]

LEMMA PartsAgree ==
    ASSUME NEW f, NEW g, NEW p \in Values \X Values,
           \A q \in Values \X Values : Deeper[q] < Deeper[p] => f[q] = g[q]
    PROVE  Agree(f, g, Parts(p[1], p[2]))
<1> DEFINE v == p[1]
           w == p[2]
<1> SUFFICES ASSUME NEW x \in Parts(v, w), NEW y \in Parts(v, w)
             PROVE  By(f, x, y) = By(g, x, y)
  BY DEF Agree
<1>1. v \in Values /\ w \in Values /\ x \in Values /\ y \in Values
  BY PartsAre
<1>2. /\ Depth(x) < Depth(v) \/ Depth(x) < Depth(w)
      /\ Depth(y) < Depth(v) \/ Depth(y) < Depth(w)
  BY <1>1, PartsAre
<1>3. Depth(x) \in Nat /\ Depth(y) \in Nat /\ Depth(v) \in Nat /\ Depth(w) \in Nat
  BY <1>1, ValuesAssumption
<1>4. /\ <<x, y>> \in Values \X Values
      /\ Deeper[<<x, y>>] = IF Depth(x) < Depth(y) THEN Depth(y) ELSE Depth(x)
      /\ Deeper[p] = IF Depth(v) < Depth(w) THEN Depth(w) ELSE Depth(v)
  BY <1>1 DEF Deeper
<1>5. Deeper[<<x, y>>] < Deeper[p]
  <2> HIDE DEF v, w
  <2> QED
    BY <1>2, <1>3, <1>4
<1> QED
  BY <1>4, <1>5 DEF By

(* The recursion that defines cmp has a solution, so cmp is one.           *)
LEMMA CmpFollows ==
    /\ cmp = [p \in Values \X Values |-> CmpBy(cmp, p[1], p[2])]
    /\ Follows(cmp)
<1> DEFINE D == Values \X Values
           X == -1..1
           asked(f, v, w) == IF Ordered(f, Parts(v, w)) THEN CmpBy(f, v, w) ELSE 0
           F == [f \in [D -> X] |-> [p \in D |-> asked(f, p[1], p[2])]]
<1>1. Deeper \in [D -> Nat]
  BY ValuesAssumption DEF Deeper
<1>2. ASSUME NEW order, NEW v \in Values, NEW w \in Values, Ordered(order, Parts(v, w))
      PROVE  CmpBy(order, v, w) \in X
  <2>1. Facts(CmpBy(order, v, w), CmpBy(order, w, v), CmpBy(order, v, v), CmpBy(order, w, v))
    BY <1>2, PartsAre, CmpByFacts
  <2> QED
    BY <2>1 DEF Facts
<1>3. F \in [[D -> X] -> [D -> X]]
  <2>1. \A f \in [D -> X] : \A p \in D : asked(f, p[1], p[2]) \in X
    BY <1>2
  <2> HIDE DEF asked, D, X
  <2> QED
    BY <2>1
<1>4. ASSUME NEW f \in [D -> X], NEW g \in [D -> X], NEW p \in D,
             \A q \in D : Deeper[q] < Deeper[p] => f[q] = g[q]
      PROVE  F[f][p] = F[g][p]
  <2> DEFINE P == Parts(p[1], p[2])
  <2>1. p[1] \in Values /\ p[2] \in Values
    OBVIOUS
  <2>2. P \in SUBSET Values /\ Within(p[1]) \subseteq P /\ Within(p[2]) \subseteq P
    BY <2>1, PartsAre
  <2>3. Agree(f, g, P)
    BY <1>4, PartsAgree
  <2>4. Agree(g, f, P)
    BY <2>3 DEF Agree
  <2>5. Ordered(f, P) <=> Ordered(g, P)
    BY <2>3, <2>4, AgreeOrdered
  <2>6. Ordered(f, P) => CmpBy(f, p[1], p[2]) = CmpBy(g, p[1], p[2])
    BY <2>1, <2>2, <2>3, CmpByAgrees
  <2>7. F[f][p] = asked(f, p[1], p[2]) /\ F[g][p] = asked(g, p[1], p[2])
    <3> HIDE DEF asked, D, X
    <3> QED
      OBVIOUS
  <2> QED
    BY <2>5, <2>6, <2>7
<1>5. PICK f \in [D -> X] : f = F[f]
  <2> HIDE DEF D, X, F
  <2>1. Graded(D, X, Deeper, F)
    BY <1>4 DEF Graded
  <2>2. Recursion(D, X, Deeper, F)
    BY <1>1, <1>3, <2>1 DEF Recursion, X
  <2>3. Solvable(D, X, F)
    BY <2>2, RecursionSolved
  <2> QED
    BY <2>3 DEF Solvable
<1>6. f = [p \in D |-> asked(f, p[1], p[2])]
  <2> HIDE DEF asked, D, X
  <2> QED
    BY <1>5
<1>7. Follows(f)
  BY <1>6 DEF Follows, By
<1>8. \A v, w \in Values : Ordered(f, Parts(v, w))
  BY <1>7, FollowsOrders, PartsAre DEF Ordered
<1>9. \A p \in D : asked(f, p[1], p[2]) = CmpBy(f, p[1], p[2])
  BY <1>8
<1>10. f = [p \in D |-> CmpBy(f, p[1], p[2])]
  <2> HIDE DEF asked, D
  <2> QED
    BY <1>6, <1>9
<1>11. cmp = [p \in D |-> CmpBy(cmp, p[1], p[2])]
  <2> DEFINE Solves(g) == g = [p \in D |-> CmpBy(g, p[1], p[2])]
  <2>1. cmp = CHOOSE g : Solves(g)
    BY DEF cmp
  <2>2. Solves(f)
    BY <1>10
  <2> HIDE DEF Solves
  <2>3. Solves(cmp)
    BY <2>1, <2>2
  <2> QED
    BY <2>3 DEF Solves
<1>12. \A v, w \in Values : By(cmp, v, w) = CmpBy(cmp, v, w)
  <2> DEFINE g == cmp
  <2>1. g = [p \in D |-> CmpBy(g, p[1], p[2])]
    BY <1>11
  <2> HIDE DEF g
  <2>2. \A v, w \in Values : By(g, v, w) = CmpBy(g, v, w)
    BY <2>1 DEF By
  <2> QED
    BY <2>2 DEF g
<1> QED
  BY <1>11, <1>12 DEF Follows

(* val_cmp orders the values, and compares two as CmpBy says.              *)
LEMMA CmpOrders ==
    /\ Ordered(cmp, Values)
    /\ \A v, w \in Values : Cmp(v, w) = CmpBy(cmp, v, w)
<1>1. Ordered(cmp, Values)
  BY CmpFollows, FollowsOrders
<1>2. \A v, w \in Values : Ordered(cmp, Parts(v, w))
  BY <1>1, PartsAre DEF Ordered
<1> QED
  BY <1>1, <1>2, CmpFollows DEF Follows, Cmp

(* What the run compares are values.                                       *)
AreValues == one \in Values /\ other \in Values /\ third \in Values

THEOREM ComparesValues == Comparing => []AreValues
<1>1. Chosen => AreValues
  BY DEF Chosen, AreValues
<1>2. AreValues /\ [Compare]_compared => AreValues'
  BY DEF AreValues, Compare, compared
<1> QED
  BY <1>1, <1>2, PTL DEF Comparing

(* val_cmp is a total order over all values, of any depth.                 *)
THEOREM CmpIsTotalOrder == Comparing => []TotalOrder
<1>1. AreValues => TotalOrder
  <2> SUFFICES ASSUME AreValues PROVE TotalOrder
    OBVIOUS
  <2>1. one \in Values /\ other \in Values /\ third \in Values
    BY DEF AreValues
  <2> QED
    BY <2>1, CmpOrders, OrderFacts DEF TotalOrder, Cmp
<1> QED
  BY <1>1, ComparesValues, PTL

-----------------------------------------------------------------------------
(* Equal values *)

LEMMA SameByAgrees ==
    ASSUME NEW order, NEW another, NEW X \in SUBSET Values, Agree(order, another, X),
           NEW v \in Values, NEW w \in Values,
           Within(v) \subseteq X, Within(w) \subseteq X
    PROVE  SameBy(order, v, w) = SameBy(another, v, w)
<1>1. CASE v.type # w.type \/ v.type \notin {"list", "map"}
  BY <1>1 DEF SameBy
<1>2. CASE v.type = w.type /\ v.type = "list"
  <2>1. v.items \in Seq(X) /\ w.items \in Seq(X)
    BY <1>2, PayloadIs
  <2>2. ASSUME Len(v.items) = Len(w.items), NEW i \in DOMAIN v.items
        PROVE  By(order, v.items[i], w.items[i]) = By(another, v.items[i], w.items[i])
    BY <2>1, <2>2 DEF Agree
  <2> QED
    BY <1>2, <2>2 DEF SameBy
<1>3. CASE v.type = w.type /\ v.type = "map"
  <2>1. v.entries \in Seq(X \X X) /\ w.entries \in Seq(X \X X)
    BY <1>3, PayloadIs
  <2>2. ASSUME NEW i \in DOMAIN v.entries, NEW j \in DOMAIN w.entries, NEW n \in 1..2
        PROVE  By(order, v.entries[i][n], w.entries[j][n]) = By(another, v.entries[i][n], w.entries[j][n])
    <3>1. v.entries[i] \in X \X X /\ w.entries[j] \in X \X X
      BY <2>1
    <3>2. v.entries[i][n] \in X /\ w.entries[j][n] \in X
      BY <3>1
    <3> QED
      BY <3>2 DEF Agree
  <2> QED
    BY <1>3, <2>2 DEF SameBy
<1> QED
  BY <1>1, <1>2, <1>3

LEMMA SameIs == \A v, w \in Values : By(same, v, w) = SameBy(same, v, w)
<1> DEFINE D == Values \X Values
           F == [f \in [D -> BOOLEAN] |-> [p \in D |-> SameBy(f, p[1], p[2])]]
<1>1. Deeper \in [D -> Nat]
  BY ValuesAssumption DEF Deeper
<1>2. F \in [[D -> BOOLEAN] -> [D -> BOOLEAN]]
  <2>1. \A f \in [D -> BOOLEAN] : \A p \in D : SameBy(f, p[1], p[2]) \in BOOLEAN
    BY DEF SameBy
  <2> HIDE DEF D
  <2> QED
    BY <2>1
<1>3. ASSUME NEW f \in [D -> BOOLEAN], NEW g \in [D -> BOOLEAN], NEW p \in D,
             \A q \in D : Deeper[q] < Deeper[p] => f[q] = g[q]
      PROVE  F[f][p] = F[g][p]
  <2> DEFINE P == Parts(p[1], p[2])
  <2>1. p[1] \in Values /\ p[2] \in Values
    OBVIOUS
  <2>2. P \in SUBSET Values /\ Within(p[1]) \subseteq P /\ Within(p[2]) \subseteq P
    BY <2>1, PartsAre
  <2>3. Agree(f, g, P)
    BY <1>3, PartsAgree
  <2>4. SameBy(f, p[1], p[2]) = SameBy(g, p[1], p[2])
    BY <2>1, <2>2, <2>3, SameByAgrees
  <2>5. F[f][p] = SameBy(f, p[1], p[2]) /\ F[g][p] = SameBy(g, p[1], p[2])
    <3> HIDE DEF D
    <3> QED
      OBVIOUS
  <2> QED
    BY <2>4, <2>5
<1>4. PICK f \in [D -> BOOLEAN] : f = F[f]
  <2> HIDE DEF D, F
  <2>1. Graded(D, BOOLEAN, Deeper, F)
    BY <1>3 DEF Graded
  <2>2. Recursion(D, BOOLEAN, Deeper, F)
    BY <1>1, <1>2, <2>1 DEF Recursion
  <2>3. Solvable(D, BOOLEAN, F)
    BY <2>2, RecursionSolved
  <2> QED
    BY <2>3 DEF Solvable
<1> DEFINE Solves(g) == g = [p \in D |-> SameBy(g, p[1], p[2])]
<1>5. Solves(f)
  <2> HIDE DEF D
  <2> QED
    BY <1>4
<1>6. same = CHOOSE g : Solves(g)
  BY DEF same
<1>7. Solves(same)
  <2> HIDE DEF Solves
  <2> QED
    BY <1>5, <1>6
<1>8. \A g : Solves(g) => \A v, w \in Values : By(g, v, w) = SameBy(g, v, w)
  BY DEF By
<1> QED
  BY <1>7, <1>8

(* Two sequences of entries, each with the same key and value as one of    *)
(* the other: what val_cmp takes for the same map.                         *)
AlikeEntries(order, e, f) == By(order, e[1], f[1]) = 0 /\ By(order, e[2], f[2]) = 0
Matched(order, s, t) ==
    Len(s) = Len(t) /\ \A i \in DOMAIN s : \E j \in DOMAIN t : AlikeEntries(order, s[i], t[j])
DistinctKeys(order, s) ==
    \A i, j \in DOMAIN s : i # j => By(order, s[i][1], s[j][1]) # 0

LEMMA AlikeIs ==
    ASSUME NEW order, NEW X \in SUBSET Values, Ordered(order, X),
           NEW e \in X \X X, NEW f \in X \X X
    PROVE  By(EntryOrder(order), e, f) = 0 <=> AlikeEntries(order, e, f)
<1>1. e \in Entries /\ f \in Entries
  BY DEF Entries
<1> QED
  BY <1>1, EntryOrderIs DEF AlikeEntries

(* An order-preserving choice among as many places is the identity.        *)
LEMMA IncreasingIsIdentity ==
    ASSUME NEW n \in Nat, NEW m \in [1..n -> 1..n],
           \A i, j \in 1..n : i < j => m[i] < m[j]
    PROVE  \A i \in 1..n : m[i] = i
<1>0. \A i \in 1..n : m[i] \in 1..n
  OBVIOUS
<1>1. \A i \in 1..n : ~ (m[i] < i)
  <2> DEFINE Low == {i \in 1..n : m[i] < i}
  <2> SUFFICES ASSUME Low # {} PROVE FALSE
    OBVIOUS
  <2>1. Low \in SUBSET Nat
    OBVIOUS
  <2>2. PICK i \in Low : \A j \in Low : i <= j
    <3> HIDE DEF Low
    <3> QED
      BY <2>1, LeastNatural
  <2>3. i \in 1..n /\ m[i] \in 1..n /\ m[i] < i /\ m[m[i]] < m[i]
    BY <1>0
  <2> QED
    BY <2>2, <2>3
<1>2. \A i \in 1..n : ~ (i < m[i])
  <2> DEFINE High == {i \in 1..n : i < m[i]}
             Left == {n - i : i \in High}
  <2> SUFFICES ASSUME High # {} PROVE FALSE
    OBVIOUS
  <2>1. Left \in SUBSET Nat /\ Left # {}
    OBVIOUS
  <2>2. PICK l \in Left : \A j \in Left : l <= j
    <3> HIDE DEF Left
    <3> QED
      BY <2>1, LeastNatural
  <2>3. PICK i \in High : l = n - i
    OBVIOUS
  <2>4. i \in 1..n /\ m[i] \in 1..n /\ i < m[i] /\ m[i] < m[m[i]]
    BY <1>0
  <2>5. m[i] \in High
    BY <2>4
  <2>6. n - m[i] \in Left /\ ~ (n - i <= n - m[i])
    <3>1. ~ (n - i <= n - m[i])
      BY <2>4
    <3> HIDE DEF High
    <3> QED
      BY <2>5, <3>1
  <2> QED
    BY <2>2, <2>3, <2>6
<1> QED
  BY <1>0, <1>1, <1>2

(* Sorting entries with distinct keys puts them in strictly rising order.  *)
LEMMA SortedRises ==
    ASSUME NEW order, NEW X \in SUBSET Values, Ordered(order, X), NEW s \in Seq(X \X X),
           DistinctKeys(order, s),
           NEW at \in Bijection(1..Len(s), 1..Len(s)),
           \A i, j \in 1..Len(s) : i < j => By(EntryOrder(order), s[at[i]], s[at[j]]) <= 0,
           NEW i \in 1..Len(s), NEW j \in 1..Len(s), i < j
    PROVE  By(EntryOrder(order), s[at[i]], s[at[j]]) < 0
<1>1. at \in [1..Len(s) -> 1..Len(s)] /\ at[i] # at[j]
  BY DEF Bijection, Injection, IsInjective
<1>2. s[at[i]] \in X \X X /\ s[at[j]] \in X \X X /\ at[i] \in DOMAIN s /\ at[j] \in DOMAIN s
  BY <1>1
<1>3. By(order, s[at[i]][1], s[at[j]][1]) # 0
  BY <1>1, <1>2 DEF DistinctKeys
<1>4. By(EntryOrder(order), s[at[i]], s[at[j]]) # 0
  BY <1>2, <1>3, AlikeIs DEF AlikeEntries
<1>5. Ordered(EntryOrder(order), X \X X)
  BY EntryOrdered
<1>6. By(EntryOrder(order), s[at[i]], s[at[j]]) \in -1..1
  BY <1>2, <1>5, OrderFacts
<1> QED
  BY <1>4, <1>6

(* Two maps with distinct keys are equal to val_cmp when each entry of the *)
(* one has its like in the other, wherever it sits.                        *)
LEMMA MapZeroIs ==
    ASSUME NEW order, NEW X \in SUBSET Values, Ordered(order, X),
           NEW s \in Seq(X \X X), NEW t \in Seq(X \X X),
           DistinctKeys(order, s), DistinctKeys(order, t)
    PROVE  CmpMap(order, s, t) = 0 <=> Matched(order, s, t)
<1> DEFINE o == EntryOrder(order)
           n == Len(s)
<1>1. Ordered(o, X \X X)
  BY EntryOrdered
<1>2. /\ \A e, f \in X \X X : By(o, e, f) = 0 <=> AlikeEntries(order, e, f)
      /\ \A e, f, g \in X \X X :
            /\ By(o, e, f) \in -1..1 /\ By(o, e, e) = 0 /\ By(o, e, f) = -By(o, f, e)
            /\ By(o, e, f) = 0 => By(o, e, g) = By(o, f, g) /\ By(o, g, e) = By(o, g, f)
  <2>1. \A e, f \in X \X X : By(o, e, f) = 0 <=> AlikeEntries(order, e, f)
    BY AlikeIs
  <2> DEFINE E == X \X X
  <2> HIDE DEF o, E
  <2>2. \A e, f, g \in E :
            /\ By(o, e, f) \in -1..1 /\ By(o, e, e) = 0 /\ By(o, e, f) = -By(o, f, e)
            /\ By(o, e, f) = 0 => By(o, e, g) = By(o, f, g) /\ By(o, g, e) = By(o, g, f)
    <3>1. Ordered(o, E)
      BY <1>1 DEF E
    <3> QED
      BY <3>1, OrderFacts
  <2> QED
    BY <2>1, <2>2 DEF E
<1>3. CmpMap(order, s, t) =
          IF n # Len(t) THEN Sign(n, Len(t)) ELSE Lex(o, Sorted(o, s), Sorted(o, t))
  BY DEF CmpMap
<1>4. n \in Nat /\ Len(t) \in Nat /\ DOMAIN s = 1..n /\ DOMAIN t = 1..Len(t)
  OBVIOUS
<1>5. CASE n # Len(t)
  <2>1. ~ Matched(order, s, t)
    BY <1>5 DEF Matched
  <2>2. Sign(n, Len(t)) # 0
    <3>1. \A x, y \in Nat : x # y => Sign(x, y) # 0
      BY DEF Sign
    <3> QED
      BY <1>4, <1>5, <3>1
  <2> QED
    BY <1>3, <1>5, <2>1, <2>2
<1>6. CASE n = Len(t)
  <2>1. PICK a \in Bijection(1..n, 1..n) :
            /\ \A i \in 1..n : Sorted(o, s)[i] = s[a[i]]
            /\ \A i, j \in 1..n : i < j => By(o, s[a[i]], s[a[j]]) <= 0
    BY <1>1, SortedIs
  <2>2. PICK b \in Bijection(1..n, 1..n) :
            /\ \A i \in 1..n : Sorted(o, t)[i] = t[b[i]]
            /\ \A i, j \in 1..n : i < j => By(o, t[b[i]], t[b[j]]) <= 0
    <3>1. \E b \in Bijection(1..Len(t), 1..Len(t)) :
              /\ \A i \in 1..Len(t) : Sorted(o, t)[i] = t[b[i]]
              /\ \A i, j \in 1..Len(t) : i < j => By(o, t[b[i]], t[b[j]]) <= 0
      BY <1>1, SortedIs
    <3> QED
      BY <1>6, <3>1
  <2>3. /\ Sorted(o, s) \in Seq(X \X X) /\ Sorted(o, t) \in Seq(X \X X)
        /\ Len(Sorted(o, s)) = n /\ Len(Sorted(o, t)) = n
    BY <1>1, <1>6, SortedIs
  <2>4. /\ a \in [1..n -> 1..n] /\ b \in [1..n -> 1..n]
        /\ \A i \in 1..n : \E j \in 1..n : a[j] = i
        /\ \A i \in 1..n : \E j \in 1..n : b[j] = i
    BY DEF Bijection, Injection, Surjection
  <2>5. \A i \in 1..n : /\ s[i] \in X \X X /\ t[i] \in X \X X
                        /\ s[a[i]] \in X \X X /\ t[b[i]] \in X \X X
    <3>1. \A i \in 1..n : s[i] \in X \X X /\ t[i] \in X \X X
      BY <1>4, <1>6
    <3> QED
      BY <2>4, <3>1
  <2>6. CmpMap(order, s, t) = 0 <=> \A i \in 1..n : By(o, s[a[i]], t[b[i]]) = 0
    <3> HIDE DEF o
    <3>1. Lex(o, Sorted(o, s), Sorted(o, t)) = 0 <=> NoDifference(o, Sorted(o, s), Sorted(o, t))
      BY <1>1, <2>3, LexEqual
    <3>2. DOMAIN Sorted(o, s) = 1..n /\ DOMAIN Sorted(o, t) = 1..n
      BY <2>3
    <3>3. NoDifference(o, Sorted(o, s), Sorted(o, t)) <=> \A i \in 1..n : By(o, s[a[i]], t[b[i]]) = 0
      BY <2>1, <2>2, <3>2 DEF NoDifference
    <3> QED
      BY <1>3, <1>6, <3>1, <3>3
  <2>7. ASSUME \A i \in 1..n : By(o, s[a[i]], t[b[i]]) = 0
        PROVE  Matched(order, s, t)
    <3> SUFFICES ASSUME NEW i \in 1..n
                 PROVE  \E j \in 1..n : AlikeEntries(order, s[i], t[j])
      BY <1>4, <1>6 DEF Matched
    <3>1. PICK j \in 1..n : a[j] = i
      BY <2>4
    <3>2. AlikeEntries(order, s[i], t[b[j]])
      BY <1>2, <2>5, <2>7, <3>1
    <3> QED
      BY <2>4, <3>2
  <2>8. ASSUME Matched(order, s, t)
        PROVE  \A i \in 1..n : By(o, s[a[i]], t[b[i]]) = 0
    <3> DEFINE like(i, j) == By(o, s[a[i]], t[b[j]]) = 0
               m == [i \in 1..n |-> CHOOSE j \in 1..n : like(i, j)]
    <3>1. ASSUME NEW i \in 1..n PROVE \E j \in 1..n : like(i, j)
      <4>1. PICK l \in 1..n : AlikeEntries(order, s[a[i]], t[l])
        BY <1>4, <1>6, <2>4, <2>8 DEF Matched
      <4>2. PICK j \in 1..n : b[j] = l
        BY <2>4
      <4> QED
        BY <1>2, <2>5, <4>1, <4>2
    <3>2. m \in [1..n -> 1..n] /\ \A i \in 1..n : like(i, m[i])
      <4> HIDE DEF like
      <4> QED
        BY <3>1
    <3> HIDE DEF m
    <3>3. \A i, j \in 1..n : i < j => By(o, s[a[i]], s[a[j]]) < 0 /\ By(o, t[b[i]], t[b[j]]) < 0
      <4> SUFFICES ASSUME NEW i \in 1..n, NEW j \in 1..n, i < j
                   PROVE  By(o, s[a[i]], s[a[j]]) < 0 /\ By(o, t[b[i]], t[b[j]]) < 0
        OBVIOUS
      <4>1. By(o, s[a[i]], s[a[j]]) < 0
        BY <2>1, SortedRises
      <4>2. By(o, t[b[i]], t[b[j]]) < 0
        BY <1>6, <2>2, SortedRises
      <4> QED
        BY <4>1, <4>2
    <3>4. ASSUME NEW i \in 1..n, NEW j \in 1..n, i < j PROVE m[i] < m[j]
      <4> DEFINE x == s[a[i]]
                 y == s[a[j]]
                 u == t[b[m[i]]]
                 w == t[b[m[j]]]
      <4>1. m[i] \in 1..n /\ m[j] \in 1..n
        BY <3>2
      <4>2. x \in X \X X /\ y \in X \X X /\ u \in X \X X /\ w \in X \X X
        BY <2>5, <4>1
      <4>3. By(o, x, u) = 0 /\ By(o, y, w) = 0 /\ By(o, x, y) < 0
        BY <3>2, <3>3, <3>4
      <4>4. m[j] < m[i] => By(o, w, u) < 0
        BY <3>3, <4>1
      <4>5. m[i] = m[j] => w = u
        OBVIOUS
      <4> HIDE DEF o, x, y, u, w
      <4>6. By(o, x, y) = By(o, u, y)
        BY <1>2, <4>2, <4>3
      <4>7. By(o, u, y) = By(o, u, w)
        BY <1>2, <4>2, <4>3
      <4>8. By(o, u, w) = -By(o, w, u) /\ By(o, u, w) \in -1..1 /\ By(o, w, u) \in -1..1 /\ By(o, u, u) = 0
        BY <1>2, <4>2
      <4>9. m[i] # m[j] /\ ~ (m[j] < m[i])
        BY <4>3, <4>4, <4>5, <4>6, <4>7, <4>8
      <4> QED
        BY <4>1, <4>9
    <3>5. \A i \in 1..n : m[i] = i
      BY <1>4, <3>2, <3>4, IncreasingIsIdentity
    <3> QED
      BY <3>2, <3>5
  <2> QED
    BY <2>6, <2>7, <2>8
<1> QED
  BY <1>5, <1>6

(* Equality as val_cmp has it.                                             *)
Equal == [p \in Values \X Values |-> Cmp(p[1], p[2]) = 0]

LEMMA EqualIs == \A v, w \in Values : By(Equal, v, w) = (Cmp(v, w) = 0)
BY DEF Equal, By

LEMMA FloatZero ==
    ASSUME NEW f \in DOMAIN FloatOrder \cup NaN, NEW g \in DOMAIN FloatOrder \cup NaN
    PROVE  CmpFloat(f, g) = 0 <=>
               \/ f \in NaN /\ g \in NaN
               \/ {f, g} \cap NaN = {} /\ FloatOrder[f] = FloatOrder[g]
<1>1. \A x \in {f, g} : x \notin NaN => FloatOrder[x] \in Int
  BY FloatAssumption
<1> QED
  BY <1>1 DEF CmpFloat, Sign

LEMMA BytesZero ==
    ASSUME NEW s \in Seq(Int), NEW t \in Seq(Int)
    PROVE  Lex(ByteOrder, s, t) = 0 <=> s = t
<1>1. \A x, y \in Int : By(ByteOrder, x, y) = 0 <=> x = y
  BY DEF By, ByteOrder, Sign
<1>2. \A i \in DOMAIN s \cap DOMAIN t : s[i] \in Int /\ t[i] \in Int
  OBVIOUS
<1>3. Len(s) = Len(t) /\ NoDifference(ByteOrder, s, t) <=> s = t
  <2>1. Len(s) = Len(t) => DOMAIN s = DOMAIN t
    OBVIOUS
  <2>2. NoDifference(ByteOrder, s, t) <=> \A i \in DOMAIN s \cap DOMAIN t : s[i] = t[i]
    BY <1>1, <1>2 DEF NoDifference
  <2> QED
    BY <2>1, <2>2
<1> QED
  BY <1>3, LexEqual, ByteOrdered

LEMMA KeysAre ==
    ASSUME NEW v \in Values, v.type = "map"
    PROVE  DistinctKeys(cmp, v.entries)
BY KeysAssumption DEF DistinctKeys, Cmp

LEMMA WithinValues == \A v \in Values : Within(v) \subseteq Values
BY PartsAre

(* Equality is one with equality within.                                   *)
LEMMA ZeroIs ==
    ASSUME NEW v \in Values, NEW w \in Values
    PROVE  Cmp(v, w) = 0 <=> SameBy(Equal, v, w)
<1>1. Cmp(v, w) = CmpBy(cmp, v, w) /\ Ordered(cmp, Values)
  BY CmpOrders
<1>2. \A x \in {v, w} : /\ x.type \in Range(Types)
                        /\ x.type \in {"bool", "int"} => x.num \in Int
                        /\ x.type = "float" => x.bits \in DOMAIN FloatOrder \cup NaN
                        /\ x.type = "list" => x.items \in Seq(Values)
                        /\ x.type = "map" => x.entries \in Seq(Values \X Values)
                        /\ x.type \notin {"nil", "bool", "int", "float", "list", "map"} => x.bytes \in Seq(Int)
  BY WithinValues, PayloadIs
<1>3. CASE v.type # w.type
  <2>1. TypeRank(v.type) \in Int /\ TypeRank(w.type) \in Int /\ TypeRank(v.type) # TypeRank(w.type)
    BY <1>2, <1>3, RankIs
  <2> QED
    BY <1>1, <1>3, <2>1 DEF CmpBy, SameBy, Sign
<1>4. CASE v.type = w.type /\ v.type = "nil"
  BY <1>1, <1>4 DEF CmpBy, SameBy
<1>5. CASE v.type = w.type /\ v.type \in {"bool", "int"}
  <2>1. v.num \in Int /\ w.num \in Int /\ Cmp(v, w) = Sign(v.num, w.num)
    BY <1>1, <1>2, <1>5 DEF CmpBy
  <2>2. Sign(v.num, w.num) = 0 <=> v.num = w.num
    BY <2>1 DEF Sign
  <2> QED
    BY <1>5, <2>1, <2>2 DEF SameBy
<1>6. CASE v.type = w.type /\ v.type = "float"
  <2>1. Cmp(v, w) = CmpFloat(v.bits, w.bits)
    BY <1>1, <1>6 DEF CmpBy
  <2>2. CmpFloat(v.bits, w.bits) = 0 <=>
            \/ v.bits \in NaN /\ w.bits \in NaN
            \/ {v.bits, w.bits} \cap NaN = {} /\ FloatOrder[v.bits] = FloatOrder[w.bits]
    BY <1>2, <1>6, FloatZero
  <2> QED
    BY <1>6, <2>1, <2>2 DEF SameBy
<1>7. CASE v.type = w.type /\ v.type = "list"
  <2>1. v.items \in Seq(Values) /\ w.items \in Seq(Values) /\ Cmp(v, w) = Lex(cmp, v.items, w.items)
    BY <1>1, <1>2, <1>7 DEF CmpBy
  <2>2. Cmp(v, w) = 0 <=> Len(v.items) = Len(w.items) /\ NoDifference(cmp, v.items, w.items)
    BY <1>1, <2>1, LexEqual
  <2>3. ASSUME Len(v.items) = Len(w.items)
        PROVE  NoDifference(cmp, v.items, w.items)
                 <=> \A i \in DOMAIN v.items : By(Equal, v.items[i], w.items[i])
    <3>1. DOMAIN v.items = DOMAIN w.items
      BY <2>1, <2>3
    <3>2. \A i \in DOMAIN v.items : By(Equal, v.items[i], w.items[i]) <=> By(cmp, v.items[i], w.items[i]) = 0
      <4>1. \A i \in DOMAIN v.items : v.items[i] \in Values /\ w.items[i] \in Values
        BY <2>1, <3>1
      <4> QED
        BY <4>1, EqualIs DEF Cmp
    <3> QED
      BY <3>1, <3>2 DEF NoDifference
  <2> QED
    BY <1>7, <2>2, <2>3 DEF SameBy
<1>8. CASE v.type = w.type /\ v.type = "map"
  <2>1. /\ v.entries \in Seq(Values \X Values) /\ w.entries \in Seq(Values \X Values)
        /\ Cmp(v, w) = CmpMap(cmp, v.entries, w.entries)
    BY <1>1, <1>2, <1>8 DEF CmpBy
  <2>2. DistinctKeys(cmp, v.entries) /\ DistinctKeys(cmp, w.entries)
    BY <1>8, KeysAre
  <2>3. Cmp(v, w) = 0 <=> Matched(cmp, v.entries, w.entries)
    BY <1>1, <2>1, <2>2, MapZeroIs
  <2>4. ASSUME NEW i \in DOMAIN v.entries, NEW j \in DOMAIN w.entries
        PROVE  AlikeEntries(cmp, v.entries[i], w.entries[j])
                 <=> \A k \in 1..2 : By(Equal, v.entries[i][k], w.entries[j][k])
    <3>1. v.entries[i] \in Values \X Values /\ w.entries[j] \in Values \X Values
      BY <2>1
    <3>2. \A k \in 1..2 : By(Equal, v.entries[i][k], w.entries[j][k]) <=> By(cmp, v.entries[i][k], w.entries[j][k]) = 0
      <4>1. \A k \in 1..2 : v.entries[i][k] \in Values /\ w.entries[j][k] \in Values
        BY <3>1
      <4> QED
        BY <4>1, EqualIs DEF Cmp
    <3> QED
      BY <3>2 DEF AlikeEntries
  <2> QED
    BY <1>8, <2>3, <2>4 DEF SameBy, Matched
<1>9. CASE v.type = w.type /\ v.type \notin {"nil", "bool", "int", "float", "list", "map"}
  <2>1. v.bytes \in Seq(Int) /\ w.bytes \in Seq(Int) /\ Cmp(v, w) = Lex(ByteOrder, v.bytes, w.bytes)
    BY <1>1, <1>2, <1>9 DEF CmpBy
  <2> QED
    BY <1>9, <2>1, BytesZero DEF SameBy
<1> QED
  BY <1>3, <1>4, <1>5, <1>6, <1>7, <1>8, <1>9

(* Equality to val_cmp is the equality of values, at any depth.            *)
LEMMA SameIsEqual == \A v, w \in Values : By(same, v, w) <=> Cmp(v, w) = 0
<1> DEFINE Bad == {d \in Nat : ~ Agree(Equal, same, Shallow(d))}
<1>1. \A d \in Nat : Shallow(d) \in SUBSET Values
  BY DEF Shallow
<1>2. Bad = {}
  <2> SUFFICES ASSUME Bad # {} PROVE FALSE
    OBVIOUS
  <2>1. PICK d \in Bad : \A n \in Bad : d <= n
    <3>1. Bad \in SUBSET Nat
      OBVIOUS
    <3> HIDE DEF Bad
    <3> QED
      BY <3>1, LeastNatural
  <2>2. d \in Nat /\ ~ Agree(Equal, same, Shallow(d))
    BY <2>1
  <2>3. d # 0
    BY <2>2, ValuesAssumption DEF Agree, Shallow
  <2>4. d - 1 \in Nat /\ Agree(Equal, same, Shallow(d - 1))
    BY <2>1, <2>2, <2>3
  <2>5. ASSUME NEW v \in Shallow(d), NEW w \in Shallow(d)
        PROVE  By(Equal, v, w) = By(same, v, w)
    <3>1. \A x \in {v, w} : x \in Values /\ Depth(x) <= d - 1
      BY <2>2, <2>5, ValuesAssumption DEF Shallow
    <3>2. Within(v) \subseteq Shallow(d - 1) /\ Within(w) \subseteq Shallow(d - 1)
      BY <2>4, <3>1, WithinShallow
    <3>3. SameBy(Equal, v, w) = SameBy(same, v, w)
      BY <1>1, <2>4, <3>1, <3>2, SameByAgrees
    <3>4. By(same, v, w) = SameBy(same, v, w) /\ By(Equal, v, w) = (Cmp(v, w) = 0)
      BY <3>1, SameIs, EqualIs
    <3>5. (Cmp(v, w) = 0) = SameBy(Equal, v, w)
      <4>1. SameBy(Equal, v, w) \in BOOLEAN
        BY DEF SameBy
      <4> QED
        BY <3>1, <4>1, ZeroIs
    <3> QED
      BY <3>3, <3>4, <3>5
  <2> QED
    BY <2>2, <2>5 DEF Agree
<1>3. ASSUME NEW v \in Values, NEW w \in Values
      PROVE  By(same, v, w) = By(Equal, v, w)
  <2>1. PICK d \in Nat : v \in Shallow(d) /\ w \in Shallow(d)
    <3> DEFINE d == Depth(v) + Depth(w) + 1
    <3>1. d \in Nat /\ Depth(v) < d /\ Depth(w) < d
      BY ValuesAssumption
    <3> QED
      BY <3>1 DEF Shallow
  <2>2. Agree(Equal, same, Shallow(d))
    BY <1>2
  <2> QED
    BY <2>1, <2>2 DEF Agree
<1> QED
  BY <1>3, EqualIs

(* val_cmp returns 0 exactly for equal values, maps in any slot order      *)
(* among them.                                                             *)
THEOREM ZeroForEqualValues == Comparing => []EqualMeansSame
<1>1. AreValues => EqualMeansSame
  BY SameIsEqual DEF AreValues, EqualMeansSame
<1> QED
  BY <1>1, ComparesValues, PTL

-----------------------------------------------------------------------------
(* Equal hashes *)

LEMMA HashByAgrees ==
    ASSUME NEW f, NEW g, NEW v \in Values, \A w \in Within(v) : f[w] = g[w]
    PROVE  HashBy(f, v) = HashBy(g, v)
<1>1. CASE v.type \notin {"list", "map"}
  BY <1>1 DEF HashBy
<1>2. CASE v.type = "list"
  <2>1. \A i \in DOMAIN v.items : v.items[i] \in Within(v)
    BY <1>2 DEF Within, Range
  <2>2. [i \in DOMAIN v.items |-> f[v.items[i]]] = [i \in DOMAIN v.items |-> g[v.items[i]]]
    BY <2>1
  <2> QED
    BY <1>2, <2>2 DEF HashBy
<1>3. CASE v.type = "map"
  <2> DEFINE s == v.entries
  <2>1. \A i \in DOMAIN s : s[i][1] \in Within(v) /\ s[i][2] \in Within(v)
    <3>1. \A i \in DOMAIN s : s[i] \in Range(s)
      BY DEF Range
    <3> QED
      BY <1>3, <3>1 DEF Within
  <2>2. [i \in DOMAIN s |-> HashCombine(f[s[i][1]], f[s[i][2]])]
        = [i \in DOMAIN s |-> HashCombine(g[s[i][1]], g[s[i][2]])]
    BY <2>1
  <2> QED
    BY <1>3, <2>2 DEF HashBy
<1> QED
  BY <1>1, <1>2, <1>3

(* The recursion that defines hash has a solution: hashes of values of     *)
(* less than some depth exist, and are the same whatever the depth.        *)
LEMMA HashIs == \A v \in Values : hash[v] = HashBy(hash, v)
<1> DEFINE Solves(f, d) == \A v \in Values : Depth(v) < d => f[v] = HashBy(f, v)
           Unsolved == {d \in Nat : ~ \E f : Solves(f, d)}
           Sol(d) == CHOOSE f : Solves(f, d)
           h == [v \in Values |-> Sol(Depth(v) + 1)[v]]
           deepen(f) == [v \in Values |-> HashBy(f, v)]
<1>1. \A v \in Values : /\ Depth(v) \in Nat /\ Depth(v) + 1 \in Nat /\ Depth(v) < Depth(v) + 1
                        /\ Within(v) \subseteq Values
                        /\ \A w \in Within(v) : Depth(w) < Depth(v)
  BY ValuesAssumption, WithinValues
<1>2. ASSUME NEW d \in Nat, NEW f, Solves(f, d) PROVE Solves(deepen(f), d + 1)
  <2> SUFFICES ASSUME NEW v \in Values, Depth(v) < d + 1
               PROVE  deepen(f)[v] = HashBy(deepen(f), v)
    OBVIOUS
  <2>1. ASSUME NEW w \in Within(v) PROVE f[w] = deepen(f)[w]
    <3>1. w \in Values /\ Depth(w) \in Nat /\ Depth(w) < Depth(v) /\ Depth(v) \in Nat
      BY <1>1, <2>1
    <3>2. Depth(w) < d
      BY <3>1
    <3>3. f[w] = HashBy(f, w)
      BY <1>2, <3>1, <3>2
    <3> QED
      BY <3>1, <3>3
  <2>2. HashBy(f, v) = HashBy(deepen(f), v)
    <3> HIDE DEF deepen
    <3> QED
      BY <2>1, HashByAgrees
  <2> QED
    BY <2>2
<1>3. Unsolved = {}
  <2> SUFFICES ASSUME Unsolved # {} PROVE FALSE
    OBVIOUS
  <2>1. Unsolved \in SUBSET Nat
    OBVIOUS
  <2>2. \A f : Solves(f, 0)
    BY <1>1
  <2> HIDE DEF Solves, Unsolved
  <2>3. PICK d \in Unsolved : \A m \in Unsolved : d <= m
    BY <2>1, LeastNatural
  <2>4. d \in Nat /\ ~ \E f : Solves(f, d)
    BY <2>3 DEF Unsolved
  <2>5. d # 0
    BY <2>2, <2>4
  <2>6. d - 1 \in Nat /\ d - 1 + 1 = d /\ d - 1 \notin Unsolved
    BY <2>3, <2>4, <2>5
  <2>7. PICK f : Solves(f, d - 1)
    BY <2>6 DEF Unsolved
  <2> HIDE DEF deepen
  <2>8. Solves(deepen(f), d - 1 + 1)
    BY <1>2, <2>6, <2>7
  <2> QED
    BY <2>4, <2>6, <2>8
<1>4. \A d \in Nat : Solves(Sol(d), d)
  BY <1>3
<1>5. ASSUME NEW f, NEW g, NEW d \in Nat, NEW e \in Nat, Solves(f, d), Solves(g, e),
             NEW v \in Values, Depth(v) < d, Depth(v) < e
      PROVE  f[v] = g[v]
  <2> DEFINE Bad == {Depth(w) : w \in {w \in Values : Depth(w) < d /\ Depth(w) < e /\ f[w] # g[w]}}
  <2> SUFFICES ASSUME f[v] # g[v] PROVE FALSE
    OBVIOUS
  <2>1. Bad \in SUBSET Nat /\ Bad # {}
    BY <1>1, <1>5
  <2>2. PICK n \in Bad : \A k \in Bad : n <= k
    <3> HIDE DEF Bad
    <3> QED
      BY <2>1, LeastNatural
  <2>3. PICK w \in Values : Depth(w) = n /\ Depth(w) < d /\ Depth(w) < e /\ f[w] # g[w]
    BY <2>2
  <2>4. ASSUME NEW x \in Within(w) PROVE f[x] = g[x]
    <3>1. x \in Values /\ Depth(x) \in Nat /\ Depth(w) \in Nat /\ Depth(x) < Depth(w)
      BY <1>1, <2>4
    <3>2. Depth(x) < d /\ Depth(x) < e /\ ~ (n <= Depth(x))
      BY <2>3, <3>1
    <3> QED
      BY <2>2, <3>1, <3>2
  <2>5. HashBy(f, w) = HashBy(g, w)
    BY <2>4, HashByAgrees
  <2> QED
    BY <1>5, <2>3, <2>5
<1>6. ASSUME NEW v \in Values PROVE h[v] = HashBy(h, v)
  <2> DEFINE g == Sol(Depth(v) + 1)
  <2>1. Solves(g, Depth(v) + 1)
    <3> HIDE DEF Sol, Solves
    <3> QED
      BY <1>1, <1>4
  <2>2. h[v] = g[v]
    OBVIOUS
  <2>3. g[v] = HashBy(g, v)
    BY <1>1, <2>1
  <2>4. ASSUME NEW w \in Within(v) PROVE g[w] = h[w]
    <3>1. w \in Values
      BY <1>1, <2>4
    <3>2. h[w] = Sol(Depth(w) + 1)[w]
      BY <3>1
    <3>3. Depth(w) + 1 \in Nat /\ Depth(v) + 1 \in Nat /\ Depth(w) < Depth(w) + 1 /\ Depth(w) < Depth(v) + 1
      BY <1>1, <2>4, <3>1
    <3> HIDE DEF Sol, Solves, h
    <3>4. Solves(Sol(Depth(w) + 1), Depth(w) + 1)
      BY <1>4, <3>3
    <3> QED
      BY <1>5, <2>1, <3>1, <3>2, <3>3, <3>4
  <2>5. HashBy(g, v) = HashBy(h, v)
    <3> HIDE DEF g, h
    <3> QED
      BY <2>4, HashByAgrees
  <2> QED
    BY <2>2, <2>3, <2>5
<1> DEFINE Defines(f) == f = [v \in Values |-> HashBy(f, v)]
<1>7. Defines(h)
  <2>1. h = [v \in Values |-> h[v]]
    OBVIOUS
  <2> HIDE DEF h
  <2> QED
    BY <1>6, <2>1
<1>8. hash = CHOOSE f : Defines(f)
  BY DEF hash
<1>9. Defines(hash)
  <2> HIDE DEF Defines, h
  <2> QED
    BY <1>7, <1>8
<1>10. \A f : Defines(f) => \A v \in Values : f[v] = HashBy(f, v)
  OBVIOUS
<1> QED
  BY <1>9, <1>10

Times(hashes, h) == {i \in DOMAIN hashes : hashes[i] = h}

(* Of hashes found again in others, each occurs there as often at least.   *)
FoundAgain(f, g, m, n) ==
    /\ m \in Nat /\ n \in Nat /\ DOMAIN f = 1..m /\ DOMAIN g = 1..n
    /\ \E at \in [1..m -> 1..n] :
        /\ \A i, j \in 1..m : i # j => at[i] # at[j]
        /\ \A i \in 1..m : f[i] = g[at[i]]

LEMMA TimesAtMost ==
    ASSUME NEW f, NEW g, NEW m, NEW n, FoundAgain(f, g, m, n), NEW h
    PROVE  /\ Cardinality(Times(f, h)) \in Nat /\ Cardinality(Times(g, h)) \in Nat
           /\ Cardinality(Times(f, h)) <= Cardinality(Times(g, h))
           /\ h \in Range(f) => h \in Range(g)
<1> m \in Nat /\ n \in Nat /\ DOMAIN f = 1..m /\ DOMAIN g = 1..n
  BY DEF FoundAgain
<1> PICK at \in [1..m -> 1..n] :
        /\ \A i, j \in 1..m : i # j => at[i] # at[j]
        /\ \A i \in 1..m : f[i] = g[at[i]]
  BY DEF FoundAgain
<1> DEFINE A == Times(f, h)
           B == Times(g, h)
           to == [i \in A |-> at[i]]
<1>1. IsFiniteSet(1..m) /\ IsFiniteSet(1..n) /\ A \subseteq 1..m /\ B \subseteq 1..n
  BY FS_Interval DEF Times
<1>2. IsFiniteSet(A) /\ IsFiniteSet(B)
  BY <1>1, FS_Subset
<1>3. \A i \in A : at[i] \in B
  BY DEF Times
<1>4. \A i, j \in A : at[i] = at[j] => i = j
  BY <1>1
<1> HIDE DEF A, B
<1>5. to \in Injection(A, B)
  BY <1>3, <1>4 DEF Injection, IsInjective
<1>6. Cardinality(A) <= Cardinality(B)
  BY <1>2, <1>5, FS_Injection
<1>7. h \in Range(f) => h \in Range(g)
  BY DEF Range
<1> QED
  BY <1>2, <1>6, <1>7, FS_CardinalityType DEF A, B

(* Equal things of X hash alike.                                           *)
Respects(hashes, order, X) == \A x, y \in X : By(order, x, y) = 0 => hashes[x] = hashes[y]

HashPairs(hashes, s) == [i \in DOMAIN s |-> HashCombine(hashes[s[i][1]], hashes[s[i][2]])]

(* The entries of two equal maps have the same hashes, each as often.      *)
LEMMA PairsAtMost ==
    ASSUME NEW order, NEW X \in SUBSET Values, Ordered(order, X),
           NEW hashes, Respects(hashes, order, X),
           NEW s \in Seq(X \X X), NEW t \in Seq(X \X X),
           DistinctKeys(order, s), Matched(order, s, t), NEW h
    PROVE  /\ Cardinality(Times(HashPairs(hashes, s), h)) \in Nat
           /\ Cardinality(Times(HashPairs(hashes, t), h)) \in Nat
           /\ Cardinality(Times(HashPairs(hashes, s), h)) <= Cardinality(Times(HashPairs(hashes, t), h))
           /\ h \in Range(HashPairs(hashes, s)) => h \in Range(HashPairs(hashes, t))
<1> DEFINE m == Len(s)
           n == Len(t)
           alike(i, j) == AlikeEntries(order, s[i], t[j])
           at == [i \in 1..m |-> CHOOSE j \in 1..n : alike(i, j)]
<1>1. m \in Nat /\ n \in Nat /\ DOMAIN s = 1..m /\ DOMAIN t = 1..n
  OBVIOUS
<1>2. /\ \A i \in 1..m : s[i][1] \in X /\ s[i][2] \in X
      /\ \A j \in 1..n : t[j][1] \in X /\ t[j][2] \in X
  <2>1. \A i \in 1..m : s[i] \in X \X X
    BY <1>1
  <2>2. \A j \in 1..n : t[j] \in X \X X
    BY <1>1
  <2> QED
    BY <2>1, <2>2
<1>3. \A i \in 1..m : \E j \in 1..n : alike(i, j)
  BY <1>1 DEF Matched
<1>4. at \in [1..m -> 1..n] /\ \A i \in 1..m : alike(i, at[i])
  <2> HIDE DEF alike
  <2> QED
    BY <1>3
<1> HIDE DEF at
<1>5. ASSUME NEW i \in 1..m, NEW j \in 1..m, i # j PROVE at[i] # at[j]
  <2> SUFFICES ASSUME at[i] = at[j] PROVE FALSE
    OBVIOUS
  <2> DEFINE key == t[at[i]][1]
  <2>1. /\ s[i][1] \in X /\ s[j][1] \in X /\ key \in X
        /\ By(order, s[i][1], key) = 0 /\ By(order, s[j][1], key) = 0
    BY <1>2, <1>4 DEF AlikeEntries
  <2>2. By(order, s[i][1], s[j][1]) # 0
    BY <1>1, <1>5 DEF DistinctKeys
  <2> HIDE DEF key
  <2>3. By(order, s[i][1], s[j][1]) = By(order, key, s[j][1])
    BY <2>1, OrderFacts
  <2>4. By(order, s[j][1], key) = -By(order, key, s[j][1]) /\ By(order, key, s[j][1]) \in -1..1
    BY <2>1, OrderFacts
  <2> QED
    BY <2>1, <2>2, <2>3, <2>4
<1>6. \A i \in 1..m : HashPairs(hashes, s)[i] = HashPairs(hashes, t)[at[i]]
  <2> SUFFICES ASSUME NEW i \in 1..m
               PROVE  HashPairs(hashes, s)[i] = HashPairs(hashes, t)[at[i]]
    OBVIOUS
  <2>1. at[i] \in 1..n
    BY <1>4
  <2>2. hashes[s[i][1]] = hashes[t[at[i]][1]] /\ hashes[s[i][2]] = hashes[t[at[i]][2]]
    BY <1>2, <1>4, <2>1 DEF AlikeEntries, Respects
  <2> QED
    BY <1>1, <2>1, <2>2 DEF HashPairs
<1>7. DOMAIN HashPairs(hashes, s) = 1..m /\ DOMAIN HashPairs(hashes, t) = 1..n
  BY <1>1 DEF HashPairs
<1> DEFINE f == HashPairs(hashes, s)
           g == HashPairs(hashes, t)
<1>8. FoundAgain(f, g, m, n)
  <2>1. at \in [1..m -> 1..n]
    BY <1>4
  <2> HIDE DEF m, n
  <2> QED
    BY <1>1, <1>5, <1>6, <1>7, <2>1 DEF FoundAgain
<1> HIDE DEF m, n, f, g
<1>9. /\ Cardinality(Times(f, h)) \in Nat /\ Cardinality(Times(g, h)) \in Nat
      /\ Cardinality(Times(f, h)) <= Cardinality(Times(g, h))
      /\ h \in Range(f) => h \in Range(g)
  BY <1>8, TimesAtMost
<1> QED
  BY <1>9 DEF f, g

LEMMA XorSame ==
    ASSUME NEW f, NEW g,
           \A h : /\ Cardinality(Times(f, h)) = Cardinality(Times(g, h))
                  /\ h \in Range(f) <=> h \in Range(g)
    PROVE  HashXor(f) = HashXor(g)
BY DEF HashXor, Times

LEMMA MatchedBack ==
    ASSUME NEW order, NEW X \in SUBSET Values, Ordered(order, X),
           NEW s \in Seq(X \X X), NEW t \in Seq(X \X X),
           DistinctKeys(order, s), DistinctKeys(order, t), Matched(order, s, t)
    PROVE  Matched(order, t, s)
<1>1. CmpMap(order, s, t) = 0
  BY MapZeroIs
<1>2. Facts(CmpMap(order, s, t), CmpMap(order, t, s), CmpMap(order, s, t), CmpMap(order, t, t))
  BY MapFacts
<1>3. Facts(CmpMap(order, t, s), CmpMap(order, s, t), CmpMap(order, t, t), CmpMap(order, s, t))
  BY MapFacts
<1>4. CmpMap(order, t, s) = 0
  BY <1>1, <1>2, <1>3 DEF Facts
<1> QED
  BY <1>4, MapZeroIs

LEMMA MapsHashAlike ==
    ASSUME NEW order, NEW X \in SUBSET Values, Ordered(order, X),
           NEW hashes, Respects(hashes, order, X),
           NEW s \in Seq(X \X X), NEW t \in Seq(X \X X),
           DistinctKeys(order, s), DistinctKeys(order, t), Matched(order, s, t)
    PROVE  HashXor(HashPairs(hashes, s)) = HashXor(HashPairs(hashes, t))
<1>1. Matched(order, t, s)
  BY MatchedBack
<1> DEFINE f == HashPairs(hashes, s)
           g == HashPairs(hashes, t)
<1>2. ASSUME NEW h
      PROVE  /\ Cardinality(Times(f, h)) = Cardinality(Times(g, h))
             /\ h \in Range(f) <=> h \in Range(g)
  <2>1. /\ Cardinality(Times(f, h)) \in Nat /\ Cardinality(Times(g, h)) \in Nat
        /\ Cardinality(Times(f, h)) <= Cardinality(Times(g, h))
        /\ h \in Range(f) => h \in Range(g)
    BY PairsAtMost
  <2>2. /\ Cardinality(Times(g, h)) <= Cardinality(Times(f, h))
        /\ h \in Range(g) => h \in Range(f)
    BY <1>1, PairsAtMost
  <2> HIDE DEF f, g
  <2> QED
    BY <2>1, <2>2
<1> QED
  <2> HIDE DEF f, g
  <2>1. HashXor(f) = HashXor(g)
    BY <1>2, XorSame
  <2> QED
    BY <2>1 DEF f, g

(* Values that are equal, and whose parts hash alike when they are equal,  *)
(* hash alike.                                                             *)
LEMMA EqualHashBy ==
    ASSUME NEW hashes, NEW X \in SUBSET Values,
           Respects(hashes, cmp, X),
           NEW v \in Values, NEW w \in Values, Within(v) \subseteq X, Within(w) \subseteq X,
           Cmp(v, w) = 0
    PROVE  HashBy(hashes, v) = HashBy(hashes, w)
<1>1. SameBy(Equal, v, w) /\ v.type = w.type
  BY ZeroIs DEF SameBy
<1>2. CASE v.type = "nil"
  BY <1>1, <1>2 DEF HashBy
<1>3. CASE v.type \in {"bool", "int"}
  BY <1>1, <1>3 DEF HashBy, SameBy
<1>4. CASE v.type = "float"
  <2>1. \A x \in {v.bits, w.bits} : x \in DOMAIN FloatOrder \cup NaN
    BY <1>1, <1>4, ValuesAssumption
  <2>2. \/ v.bits \in NaN /\ w.bits \in NaN
        \/ v.bits \notin NaN /\ w.bits \notin NaN /\ FloatOrder[v.bits] = FloatOrder[w.bits]
    BY <1>1, <1>4 DEF SameBy
  <2>3. Normal(v.bits) = Normal(w.bits)
    BY <2>1, <2>2, FloatAssumption DEF Normal
  <2> QED
    BY <1>1, <1>4, <2>3 DEF HashBy
<1>5. CASE v.type = "list"
  <2>1. v.items \in Seq(X) /\ w.items \in Seq(X) /\ Len(v.items) = Len(w.items)
    BY <1>1, <1>5, PayloadIs DEF SameBy
  <2>2. DOMAIN v.items = DOMAIN w.items
    BY <2>1
  <2>3. ASSUME NEW i \in DOMAIN v.items PROVE hashes[v.items[i]] = hashes[w.items[i]]
    <3>1. v.items[i] \in X /\ w.items[i] \in X
      BY <2>1, <2>2
    <3>2. By(Equal, v.items[i], w.items[i])
      BY <1>1, <1>5 DEF SameBy
    <3> QED
      BY <3>1, <3>2, EqualIs DEF Respects, Cmp
  <2>4. [i \in DOMAIN v.items |-> hashes[v.items[i]]] = [i \in DOMAIN w.items |-> hashes[w.items[i]]]
    BY <2>2, <2>3
  <2> QED
    BY <1>1, <1>5, <2>4 DEF HashBy
<1>6. CASE v.type = "map"
  <2>1. v.entries \in Seq(X \X X) /\ w.entries \in Seq(X \X X)
    BY <1>1, <1>6, PayloadIs
  <2>2. DistinctKeys(cmp, v.entries) /\ DistinctKeys(cmp, w.entries)
    BY <1>1, <1>6, KeysAre
  <2>3. Ordered(cmp, X)
    BY CmpOrders DEF Ordered
  <2>4. Cmp(v, w) = CmpMap(cmp, v.entries, w.entries)
    BY <1>1, <1>6, CmpOrders DEF CmpBy
  <2>5. Matched(cmp, v.entries, w.entries)
    BY <2>1, <2>2, <2>3, <2>4, MapZeroIs
  <2>6. HashXor(HashPairs(hashes, v.entries)) = HashXor(HashPairs(hashes, w.entries))
    BY <2>1, <2>2, <2>3, <2>5, MapsHashAlike
  <2> QED
    BY <1>1, <1>6, <2>6 DEF HashBy, HashPairs
<1>7. CASE v.type \notin {"nil", "bool", "int", "float", "list", "map"}
  BY <1>1, <1>7 DEF HashBy, SameBy
<1> QED
  BY <1>2, <1>3, <1>4, <1>5, <1>6, <1>7

LEMMA EqualHashes == \A v, w \in Values : Cmp(v, w) = 0 => hash[v] = hash[w]
<1> DEFINE Bad == {d \in Nat : ~ Respects(hash, cmp, Shallow(d))}
<1>1. Bad = {}
  <2> SUFFICES ASSUME Bad # {} PROVE FALSE
    OBVIOUS
  <2>1. PICK d \in Bad : \A n \in Bad : d <= n
    <3>1. Bad \in SUBSET Nat
      OBVIOUS
    <3> HIDE DEF Bad
    <3> QED
      BY <3>1, LeastNatural
  <2>2. d \in Nat /\ ~ Respects(hash, cmp, Shallow(d))
    BY <2>1
  <2>3. d # 0
    BY <2>2, ValuesAssumption DEF Shallow, Respects
  <2>4. d - 1 \in Nat /\ Respects(hash, cmp, Shallow(d - 1))
    BY <2>1, <2>2, <2>3
  <2>5. ASSUME NEW v \in Shallow(d), NEW w \in Shallow(d), Cmp(v, w) = 0
        PROVE  hash[v] = hash[w]
    <3>1. \A x \in {v, w} : x \in Values /\ Depth(x) <= d - 1
      BY <2>2, <2>5, ValuesAssumption DEF Shallow
    <3>2. /\ Within(v) \subseteq Shallow(d - 1) /\ Within(w) \subseteq Shallow(d - 1)
          /\ Shallow(d - 1) \in SUBSET Values
      BY <2>4, <3>1, WithinShallow DEF Shallow
    <3>3. HashBy(hash, v) = HashBy(hash, w)
      BY <2>4, <2>5, <3>1, <3>2, EqualHashBy
    <3> QED
      BY <3>1, <3>3, HashIs
  <2> QED
    BY <2>2, <2>5 DEF Respects, Cmp
<1>2. ASSUME NEW v \in Values, NEW w \in Values, Cmp(v, w) = 0 PROVE hash[v] = hash[w]
  <2> DEFINE d == Depth(v) + Depth(w) + 1
  <2>1. d \in Nat /\ Depth(v) < d /\ Depth(w) < d
    BY ValuesAssumption
  <2>2. v \in Shallow(d) /\ w \in Shallow(d)
    BY <2>1 DEF Shallow
  <2>3. Respects(hash, cmp, Shallow(d))
    BY <1>1, <2>1
  <2> QED
    BY <1>2, <2>2, <2>3 DEF Respects, Cmp
<1> QED
  BY <1>2

(* Equal values have equal hashes, so a probe finds a key by an equal one. *)
THEOREM EqualValuesHashAlike == Comparing => []HashContract
<1>1. AreValues => HashContract
  BY EqualHashes DEF AreValues, HashContract
<1> QED
  BY <1>1, ComparesValues, PTL
=============================================================================
