------------------------------- MODULE ValHeap ------------------------------
(***************************************************************************)
(* Reference counts (val.c): constructors, val_retain and val_release.     *)
(*                                                                         *)
(* A value is an address and what it points to; its other contents do not  *)
(* matter here.  held counts the references in the variables of C code,    *)
(* calls holds the activations of val_release, the innermost last.  The    *)
(* code outside val.c is any that releases only what it holds.             *)
(***************************************************************************)
EXTENDS Integers, Sequences, FiniteSets

CONSTANTS
    Addr,      \* where a value may be
    Hole,      \* what a map holds while it replaces a value
    MaxKids,   \* bound: items of a list
    MaxPairs,  \* bound: pairs a map is made of
    MaxHeld    \* bound: references in variables

ASSUME HeapAssumption == Hole \notin Addr /\ {MaxKids, MaxPairs, MaxHeld} \subseteq Nat

VARIABLES
    live,      \* addresses of values
    count,     \* their reference counts
    kids,      \* what they point to; of a map keys and values in turn
    held,      \* references in variables, by address
    calls,     \* activations of val_release: [obj, next]
    making     \* the map being made and its pairs still to come, or NoMap

vars == <<live, count, kids, held, calls, making>>

NoMap == [obj |-> Hole, pairs |-> <<>>, into |-> 0]

Init ==
    /\ live = {}
    /\ count = [o \in Addr |-> 0]
    /\ kids = [o \in Addr |-> <<>>]
    /\ held = [o \in Addr |-> 0]
    /\ calls = <<>>
    /\ making = NoMap

-----------------------------------------------------------------------------
Idle == calls = <<>> /\ making = NoMap
Held == {o \in Addr : held[o] > 0}
AllHeld ==
    LET refs == {r \in Addr \X (1..MaxHeld) : r[2] <= held[r[1]]} IN Cardinality(refs)
Occurs(o, s) == Cardinality({i \in DOMAIN s : s[i] = o})
SeqsTo(S, n) == UNION {[1..k -> S] : k \in 0..n}

(* What code that holds values can reach through them: what is in every    *)
(* set that has those and whatever its values point to.                    *)
Kids(o) == {kids[o][i] : i \in DOMAIN kids[o]} \ {Hole}
Closed(S) == Held \subseteq S /\ \A o \in S : Kids(o) \subseteq S
Reachable == {o \in Addr : \A S \in SUBSET Addr : Closed(S) => o \in S}

(* val_alloc: the maker holds the first reference.                         *)
Alloc(o) ==
    /\ Idle
    /\ o \notin live
    /\ AllHeld < MaxHeld
    /\ live' = live \cup {o}
    /\ held' = [held EXCEPT ![o] = 1]

MakeListOnce(o, items) ==   \* faulty: an item that occurs twice is retained once
    /\ Alloc(o)
    /\ kids' = [kids EXCEPT ![o] = items]
    /\ count' = [a \in Addr |-> IF a = o THEN 1
                                ELSE count[a] + (IF Occurs(a, items) > 0 THEN 1 ELSE 0)]
    /\ UNCHANGED <<calls, making>>

MakeList(o, items) ==
    /\ Alloc(o)
    /\ kids' = [kids EXCEPT ![o] = items]
    /\ count' = [a \in Addr |-> IF a = o THEN 1 ELSE count[a] + Occurs(a, items)]
    /\ UNCHANGED <<calls, making>>

(* A value of another type points to nothing. *)
MakeLeaf(o) == MakeList(o, <<>>)

MakeMap(o, pairs) ==
    /\ Alloc(o)
    /\ kids' = [kids EXCEPT ![o] = <<>>]
    /\ count' = [count EXCEPT ![o] = 1]
    /\ making' = [obj |-> o, pairs |-> pairs, into |-> 0]
    /\ UNCHANGED calls

Making == making # NoMap /\ calls = <<>> /\ making.pairs # <<>> /\ making.into = 0
Key == Head(making.pairs)[1]
Value == Head(making.pairs)[2]
Slots == kids[making.obj]
Following == [making EXCEPT !.pairs = Tail(@), !.into = 0]

(* Whether another key of the map is equal is any.                         *)
InsertUnretained ==   \* faulty: the value is not retained
    /\ Making
    /\ \A i \in DOMAIN Slots : i % 2 = 1 => Slots[i] # Key
    /\ kids' = [kids EXCEPT ![making.obj] = @ \o <<Key, Value>>]
    /\ count' = [count EXCEPT ![Key] = @ + 1]
    /\ making' = Following
    /\ UNCHANGED <<live, held, calls>>

Insert ==
    /\ Making
    /\ \A i \in DOMAIN Slots : i % 2 = 1 => Slots[i] # Key
    /\ kids' = [kids EXCEPT ![making.obj] = @ \o <<Key, Value>>]
    /\ count' = [a \in Addr |-> count[a] + Occurs(a, <<Key, Value>>)]
    /\ making' = Following
    /\ UNCHANGED <<live, held, calls>>

-----------------------------------------------------------------------------
(* val_release of o, called by the innermost activation of fs.             *)
Drop(o, fs) ==
    /\ count' = [count EXCEPT ![o] = @ - 1]
    /\ calls' = IF count[o] > 1 THEN fs ELSE Append(fs, [obj |-> o, next |-> 1])

(* An equal key is in a slot: its value is released, then the new one      *)
(* retained.                                                               *)
Replace ==
    /\ Making
    /\ \E i \in {i \in DOMAIN Slots : i % 2 = 1} :
          /\ Slots[i] = Key \/ \A j \in DOMAIN Slots : j % 2 = 1 => Slots[j] # Key
          /\ Drop(Slots[i + 1], <<>>)
          /\ kids' = [kids EXCEPT ![making.obj][i + 1] = Hole]
          /\ making' = [making EXCEPT !.into = i + 1]
    /\ UNCHANGED <<live, held>>

Replaced ==
    /\ making.into > 0
    /\ calls = <<>>
    /\ kids' = [kids EXCEPT ![making.obj][making.into] = Value]
    /\ count' = [count EXCEPT ![Value] = @ + 1]
    /\ making' = Following
    /\ UNCHANGED <<live, held, calls>>

MapMade ==
    /\ making # NoMap /\ making.pairs = <<>>
    /\ making' = NoMap
    /\ UNCHANGED <<live, count, kids, held, calls>>

Retain(o) ==
    /\ Idle
    /\ AllHeld < MaxHeld
    /\ o \in Reachable
    /\ count' = [count EXCEPT ![o] = @ + 1]
    /\ held' = [held EXCEPT ![o] = @ + 1]
    /\ UNCHANGED <<live, kids, calls, making>>

Release(o) ==
    /\ Idle
    /\ o \in Held
    /\ held' = [held EXCEPT ![o] = @ - 1]
    /\ Drop(o, <<>>)
    /\ UNCHANGED <<live, kids, making>>

-----------------------------------------------------------------------------
Top == calls[Len(calls)]

ReleaseKid ==
    /\ calls # <<>>
    /\ Top.next <= Len(kids[Top.obj])
    /\ Drop(kids[Top.obj][Top.next], [calls EXCEPT ![Len(calls)].next = @ + 1])
    /\ UNCHANGED <<live, kids, held, making>>

FreeEarly ==   \* faulty: the last item is not released
    /\ calls # <<>>
    /\ Top.next >= Len(kids[Top.obj])
    /\ live' = live \ {Top.obj}
    /\ kids' = [kids EXCEPT ![Top.obj] = <<>>]
    /\ calls' = SubSeq(calls, 1, Len(calls) - 1)
    /\ UNCHANGED <<count, held, making>>

Free ==
    /\ calls # <<>>
    /\ Top.next > Len(kids[Top.obj])
    /\ live' = live \ {Top.obj}
    /\ kids' = [kids EXCEPT ![Top.obj] = <<>>]
    /\ calls' = SubSeq(calls, 1, Len(calls) - 1)
    /\ UNCHANGED <<count, held, making>>

Next ==
    \/ \E o \in Addr :
          \/ MakeLeaf(o)
          \/ \E items \in SeqsTo(Held, MaxKids) : MakeList(o, items)
          \/ \E pairs \in SeqsTo(Held \X Held, MaxPairs) : MakeMap(o, pairs)
          \/ Retain(o)
          \/ Release(o)
    \/ Insert \/ Replace \/ Replaced \/ MapMade \/ ReleaseKid \/ Free

Spec == Init /\ [][Next]_vars
=============================================================================
