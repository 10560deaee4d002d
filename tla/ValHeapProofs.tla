--------------------------- MODULE ValHeapProofs ----------------------------
(***************************************************************************)
(* Theorems about the reference counts of val.c, for any addresses, any    *)
(* number of items and any nesting of values.                              *)
(***************************************************************************)
EXTENDS ValHeapRef, FiniteSetTheorems, WellFoundedInduction, TLAPS

Places == 1..MaxKids + 2 * MaxPairs
Activations == [obj : Addr, next : Nat \ {0}]
Makings == [obj : Addr, pairs : Seq(Addr \X Addr), into : Nat]
Slot == Addr \cup {Hole}

(* The places and the references of kids ks under activations cs. *)
KeptIn(ks, cs, o) ==
    {i \in DOMAIN ks[o] : ks[o][i] # Hole /\ \A d \in DOMAIN cs : cs[d].obj = o => i >= cs[d].next}
RefsIn(lv, ks, cs, o) == {r \in lv \X Places : r[2] \in KeptIn(ks, cs, r[1]) /\ ks[r[1]][r[2]] = o}

(* A map in the making is held, and is made of older values that are held. *)
Made ==
    making # NoMap =>
        /\ making \in Makings
        /\ making.obj \in Held
        /\ \A k \in DOMAIN making.pairs : making.pairs[k] \in Held \X Held
        /\ Len(kids[making.obj]) % 2 = 0
        /\ Len(kids[making.obj]) + 2 * Len(making.pairs) <= 2 * MaxPairs
        /\ making.into > 0 => /\ making.pairs # <<>>
                              /\ making.into \in DOMAIN kids[making.obj]
                              /\ kids[making.obj][making.into] = Hole

(* Values point to older ones only: there is an age they respect. *)
Older(age, lv, ks, cs, mk) ==
    /\ \A o \in lv : \A i \in KeptIn(ks, cs, o) : age[ks[o][i]] < age[o]
    /\ \A k \in DOMAIN mk.pairs : /\ age[mk.pairs[k][1]] < age[mk.obj]
                                  /\ age[mk.pairs[k][2]] < age[mk.obj]
Ordered(lv, ks, cs, mk) ==
    \E age \in [Addr -> Nat], oldest \in Nat :
        Older(age, lv, ks, cs, mk) /\ \A o \in lv : age[o] <= oldest

Sized ==
    /\ IsFiniteSet(live)
    /\ calls \in Seq(Activations)
    /\ \A o \in live : Len(kids[o]) <= MaxKids + 2 * MaxPairs
    /\ \A o \in live : \A i \in DOMAIN kids[o] : kids[o][i] = Hole => o = making.obj /\ i = making.into

(* A value whose count is 0 is being released, by one activation. *)
OneRelease == \A c, d \in DOMAIN calls : calls[c].obj = calls[d].obj => c = d
ZeroIsReleased == \A o \in live : count[o] = 0 => \E d \in DOMAIN calls : calls[d].obj = o

HeapInv ==
    /\ CountsAreReferences /\ NothingDangles
    /\ Sized /\ Made /\ OneRelease /\ ZeroIsReleased
    /\ Ordered(live, kids, calls, making)

-----------------------------------------------------------------------------
(* Counting references *)

LEMMA LeastOfNaturals ==
    ASSUME NEW S \in SUBSET Nat, S # {}
    PROVE  \E n \in S : \A k \in S : n <= k
<1> DEFINE R == {ss \in Nat \X Nat : ss[1] < ss[2]}
<1>1. IsWellFoundedOn(R, Nat)
  BY NatLessThanWellFounded DEF OpToRel
<1>2. PICK n \in S : \A k \in S : <<k, n>> \notin R
  <2> HIDE DEF R
  <2> QED
    BY <1>1, WFMin
<1>3. ASSUME NEW k \in S PROVE n <= k
  <2>1. k \in Nat /\ n \in Nat /\ <<k, n>> \notin R
    BY <1>2
  <2>2. ~ (k < n)
    BY <2>1
  <2> QED
    BY <2>1, <2>2
<1> QED
  BY <1>3

LEMMA KeptIsKeptIn == ASSUME NEW o PROVE Kept(o) = KeptIn(kids, calls, o)
  BY DEF Kept, KeptIn

LEMMA ReferencesAreRefsIn == ASSUME NEW o PROVE References(o) = RefsIn(live, kids, calls, o)
  BY DEF References, RefsIn, Kept, KeptIn, Places

LEMMA RefsAreFinite ==
    ASSUME NEW lv, IsFiniteSet(lv), NEW ks, NEW cs, NEW o
    PROVE  IsFiniteSet(RefsIn(lv, ks, cs, o)) /\ Cardinality(RefsIn(lv, ks, cs, o)) \in Nat
<1>1. IsFiniteSet(Places)
  BY FS_Interval, HeapAssumption DEF Places
<1>2. IsFiniteSet(lv \X Places)
  BY <1>1, FS_Product
<1>3. RefsIn(lv, ks, cs, o) \in SUBSET (lv \X Places)
  BY DEF RefsIn
<1> QED
  BY <1>2, <1>3, FS_Subset, FS_CardinalityType

(* Items put into m behind its first L: a occurs in them as often as m     *)
(* comes to point to it.                                                   *)
LEMMA NewReferences ==
    ASSUME NEW m, NEW L \in Nat, NEW X, NEW items \in Seq(X), NEW a
    PROVE  LET new == {<<m, L + j>> : j \in {j \in DOMAIN items : items[j] = a}}
           IN  IsFiniteSet(new) /\ Cardinality(new) = Occurs(a, items) /\ Occurs(a, items) \in Nat
<1> DEFINE at == {j \in DOMAIN items : items[j] = a}
           new == {<<m, L + j>> : j \in at}
           put == [j \in at |-> <<m, L + j>>]
<1>1. IsFiniteSet(at) /\ Cardinality(at) \in Nat
  <2>1. IsFiniteSet(1..Len(items))
    BY FS_Interval
  <2>2. at \in SUBSET (1..Len(items))
    OBVIOUS
  <2> QED
    BY <2>1, <2>2, FS_Subset, FS_CardinalityType
<1>2. put \in Bijection(at, new)
  <2>1. \A j, k \in at : put[j] = put[k] => j = k
    OBVIOUS
  <2>2. put \in [at -> new] /\ \A r \in new : \E j \in at : put[j] = r
    OBVIOUS
  <2> QED
    BY <2>1, <2>2 DEF Bijection, Injection, Surjection, IsInjective
<1>3. ExistsBijection(at, new)
  BY <1>2 DEF ExistsBijection
<1> QED
  BY <1>1, <1>3, FS_Bijection DEF Occurs
LEMMA StateThen ==
    /\ \A o : Kept(o)' = KeptIn(kids', calls', o)
    /\ \A o : References(o)' = RefsIn(live', kids', calls', o)
  BY DEF Kept, KeptIn, References, RefsIn, Places

-----------------------------------------------------------------------------
(* val_release *)

LEMMA PushKeepsPlaces ==
    ASSUME NEW ks, NEW a, ks[a] \in Seq(Slot), NEW cs \in Seq(Activations), NEW o \in Addr
    PROVE  KeptIn(ks, Append(cs, [obj |-> o, next |-> 1]), a) = KeptIn(ks, cs, a)
<1> DEFINE new == [obj |-> o, next |-> 1]
<1>1. /\ DOMAIN Append(cs, new) = 1..Len(cs) + 1 /\ DOMAIN cs = 1..Len(cs) /\ Len(cs) \in Nat
      /\ \A d \in 1..Len(cs) : Append(cs, new)[d] = cs[d]
      /\ Append(cs, new)[Len(cs) + 1] = new
  OBVIOUS
<1>2. \A i \in DOMAIN ks[a] : i >= new.next
  OBVIOUS
<1>3. \A i \in DOMAIN ks[a] :
          (\A d \in DOMAIN Append(cs, new) : Append(cs, new)[d].obj = a => i >= Append(cs, new)[d].next)
          <=> (\A d \in DOMAIN cs : cs[d].obj = a => i >= cs[d].next)
  <2> TAKE i \in DOMAIN ks[a]
  <2>1. \A d \in 1..Len(cs) + 1 : d \in 1..Len(cs) \/ d = Len(cs) + 1
    BY <1>1
  <2>2. \A d \in 1..Len(cs) : d \in 1..Len(cs) + 1
    BY <1>1
  <2> HIDE DEF new
  <2> QED
    BY <1>1, <1>2, <2>1, <2>2
<1> QED
  BY <1>3 DEF KeptIn

(* The activations there are then: one more when it was the last reference. *)
LEMMA CallsAfterDrop ==
    ASSUME calls \in Seq(Activations), NEW o \in Addr, count[o] \in Nat, count[o] >= 1,
           NEW fs \in Seq(Activations), Len(fs) = Len(calls),
           \A d \in DOMAIN calls : fs[d].obj = calls[d].obj, Drop(o, fs)
    PROVE  /\ Len(calls) \in Nat /\ DOMAIN calls = 1..Len(calls)
           /\ \/ count[o] > 1 /\ DOMAIN calls' = 1..Len(calls)
              \/ count[o] = 1 /\ DOMAIN calls' = 1..Len(calls) + 1 /\ calls'[Len(calls) + 1].obj = o
           /\ \A d \in 1..Len(calls) : calls'[d].obj = calls[d].obj
<1> DEFINE new == [obj |-> o, next |-> 1]
<1>1. Len(calls) \in Nat /\ DOMAIN calls = 1..Len(calls)
  OBVIOUS
<1>2. calls' = IF count[o] > 1 THEN fs ELSE Append(fs, new)
  BY DEF Drop
<1>3. CASE count[o] > 1
  BY <1>1, <1>2, <1>3
<1>4. CASE count[o] = 1
  <2>1. calls' = Append(fs, new)
    BY <1>2, <1>4
  <2>2. /\ DOMAIN calls' = 1..Len(calls) + 1 /\ calls'[Len(calls) + 1] = new
        /\ \A d \in 1..Len(calls) : calls'[d] = fs[d]
    BY <1>1, <2>1
  <2> QED
    BY <1>1, <1>4, <2>2
<1> QED
  BY <1>3, <1>4

(* One reference to o goes, from a variable or a value, and val_release is *)
(* called of it by the innermost of fs, which have the values that calls   *)
(* had: the count goes down with it, and o is released further only when   *)
(* it was the last.                                                        *)
LEMMA Dropping ==
    ASSUME HeapInv, NEW o \in live, count[o] >= 1,
           NEW fs \in Seq(Activations), Len(fs) = Len(calls),
           \A d \in DOMAIN calls : fs[d].obj = calls[d].obj,
           Drop(o, fs), live' = live,
           held' \in [Addr -> 0..MaxHeld], \A a \in Addr : held'[a] <= held[a],
           kids' \in [Addr -> Seq(Slot)],
           \A a \in live : count[a] = held'[a] + Cardinality(RefsIn(live, kids', fs, a))
                                      + (IF a = o THEN 1 ELSE 0),
           \A a \in live : \A i \in KeptIn(kids', fs, a) :
               i \in Kept(a) /\ kids'[a][i] = kids[a][i]
    PROVE  /\ CountsAreReferences' /\ NothingDangles' /\ OneRelease' /\ ZeroIsReleased'
           /\ calls' \in Seq(Activations)
           /\ \A a \in live : \A i \in KeptIn(kids', calls', a) : i \in Kept(a) /\ kids'[a][i] = kids[a][i]
<1> DEFINE new == [obj |-> o, next |-> 1]
<1>0. /\ TypeOK /\ live \subseteq Addr /\ o \in Addr /\ count \in [Addr -> Nat] /\ held \in [Addr -> 0..MaxHeld]
      /\ calls \in Seq(Activations) /\ IsFiniteSet(live) /\ MaxHeld \in Nat
  BY HeapAssumption DEF HeapInv, CountsAreReferences, TypeOK, Sized
<1>1. /\ count' = [count EXCEPT ![o] = @ - 1]
      /\ calls' = IF count[o] > 1 THEN fs ELSE Append(fs, new)
  BY DEF Drop
<1>2. new \in Activations
  BY <1>0 DEF Activations
<1>3. calls' \in Seq(Activations)
  BY <1>1, <1>2
<1>4. /\ Len(calls) \in Nat /\ DOMAIN calls = 1..Len(calls)
      /\ \/ count[o] > 1 /\ DOMAIN calls' = 1..Len(calls)
         \/ count[o] = 1 /\ DOMAIN calls' = 1..Len(calls) + 1 /\ calls'[Len(calls) + 1].obj = o
      /\ \A d \in 1..Len(calls) : calls'[d].obj = calls[d].obj
  BY <1>0, CallsAfterDrop
<1>5. \A a \in live : KeptIn(kids', calls', a) = KeptIn(kids', fs, a)
  BY <1>0, <1>1, PushKeepsPlaces
<1>6. \A a : RefsIn(live, kids', calls', a) = RefsIn(live, kids', fs, a)
  BY <1>5 DEF RefsIn
<1>7. \A a \in live : \A i \in KeptIn(kids', calls', a) : i \in Kept(a) /\ kids'[a][i] = kids[a][i]
  BY <1>5
<1>8. /\ count' \in [Addr -> Nat] /\ count'[o] = count[o] - 1
      /\ \A a \in Addr : a # o => count'[a] = count[a]
  BY <1>0, <1>1
<1>9. TypeOK'
  <2>1. \A d \in DOMAIN calls' : calls'[d].obj \in Addr /\ calls'[d].next \in Nat \ {0}
    <3>1. \A d \in DOMAIN calls' : calls'[d] \in Activations
      BY <1>3
    <3> QED
      BY <3>1 DEF Activations
  <2> QED
    BY <1>0, <1>8, <2>1 DEF TypeOK, Slot
<1>10. ASSUME NEW a \in live PROVE count'[a] = held'[a] + Cardinality(RefsIn(live, kids', calls', a))
  <2>1. /\ count[a] \in Nat /\ held'[a] \in Nat /\ Cardinality(RefsIn(live, kids', fs, a)) \in Nat
        /\ count[a] = held'[a] + Cardinality(RefsIn(live, kids', fs, a)) + (IF a = o THEN 1 ELSE 0)
    BY <1>0, RefsAreFinite
  <2>2. a \in Addr
    BY <1>0
  <2> QED
    BY <1>6, <1>8, <2>1, <2>2
<1>11. CountsAreReferences'
  BY <1>9, <1>10, StateThen DEF CountsAreReferences
<1>12. \A d \in DOMAIN calls : calls[d].obj \in live /\ calls[d].obj # o /\ count[calls[d].obj] = 0
  BY DEF HeapInv, NothingDangles
<1>13. NothingDangles'
  <2>1. Held' \subseteq live
    BY <1>0 DEF Held, HeapInv, NothingDangles
  <2>2. ASSUME NEW a \in live, NEW i \in KeptIn(kids', calls', a) PROVE kids'[a][i] \in live
    BY <1>7, <2>2 DEF HeapInv, NothingDangles
  <2>3. ASSUME NEW d \in DOMAIN calls' PROVE calls'[d].obj \in live /\ count'[calls'[d].obj] = 0
    <3>1. CASE d \in 1..Len(calls)
      <4>1. PICK a : a = calls[d].obj
        OBVIOUS
      <4>2. calls'[d].obj = a /\ a \in live /\ a # o /\ count[a] = 0
        BY <1>4, <1>12, <3>1, <4>1, Zenon
      <4> QED
        BY <1>0, <1>8, <4>2, Zenon
    <3>2. CASE d \notin 1..Len(calls)
      BY <1>0, <1>4, <1>8, <3>2
    <3> QED
      BY <3>1, <3>2
  <2> QED
    BY <2>1, <2>2, <2>3, StateThen DEF NothingDangles
<1>14. OneRelease'
  <2> SUFFICES ASSUME NEW c \in DOMAIN calls', NEW d \in DOMAIN calls', calls'[c].obj = calls'[d].obj
               PROVE  c = d
    BY DEF OneRelease
  <2>1. ASSUME NEW x \in DOMAIN calls' PROVE x \in 1..Len(calls) \/ (x = Len(calls) + 1 /\ calls'[x].obj = o)
    <3>1. CASE DOMAIN calls' = 1..Len(calls)
      BY <3>1
    <3>2. CASE DOMAIN calls' = 1..Len(calls) + 1 /\ calls'[Len(calls) + 1].obj = o
      <4>1. x = Len(calls) + 1 \/ x \in 1..Len(calls)
        BY <1>4, <3>2
      <4> QED
        BY <3>2, <4>1
    <3> QED
      BY <1>4, <3>1, <3>2
  <2>2. \A x \in 1..Len(calls) : calls'[x].obj # o
    BY <1>4, <1>12
  <2>3. c \in 1..Len(calls) /\ d \in 1..Len(calls) => c = d
    BY <1>4 DEF HeapInv, OneRelease
  <2> QED
    BY <2>1, <2>2, <2>3
<1>15. ZeroIsReleased'
  <2> SUFFICES ASSUME NEW a \in live, count'[a] = 0 PROVE \E d \in DOMAIN calls' : calls'[d].obj = a
    BY DEF ZeroIsReleased
  <2>1. CASE a = o
    <3>1. count[o] = 1
      BY <1>0, <1>8, <2>1
    <3>2. Len(calls) + 1 \in DOMAIN calls' /\ calls'[Len(calls) + 1].obj = o
      BY <1>4, <3>1
    <3> QED
      BY <2>1, <3>2
  <2>2. CASE a # o
    <3>1. PICK d \in DOMAIN calls : calls[d].obj = a
      BY <1>0, <1>8, <2>2 DEF HeapInv, ZeroIsReleased
    <3>2. d \in DOMAIN calls' /\ calls'[d].obj = a
      BY <1>4, <3>1
    <3> QED
      BY <3>2
  <2> QED
    BY <2>1, <2>2
<1> QED
  BY <1>3, <1>7, <1>11, <1>13, <1>14, <1>15

-----------------------------------------------------------------------------
(* What the invariant says of values that something points to *)

LEMMA Basics ==
    ASSUME HeapInv
    PROVE  /\ TypeOK /\ IsFiniteSet(live) /\ live \subseteq Addr
           /\ count \in [Addr -> Nat] /\ held \in [Addr -> 0..MaxHeld]
           /\ kids \in [Addr -> Seq(Slot)]
           /\ calls \in Seq(Activations)
           /\ \A o \in live : count[o] = held[o] + Cardinality(RefsIn(live, kids, calls, o))
           /\ \A o : Kept(o) = KeptIn(kids, calls, o)
           /\ {MaxKids, MaxPairs, MaxHeld} \subseteq Nat /\ Hole \notin Addr
           /\ \A o \in live : DOMAIN kids[o] = 1..Len(kids[o]) /\ DOMAIN kids[o] \subseteq Places
<1>1. TypeOK /\ IsFiniteSet(live) /\ calls \in Seq(Activations)
  BY DEF HeapInv, CountsAreReferences, Sized
<1>2. \A o \in live : count[o] = held[o] + Cardinality(RefsIn(live, kids, calls, o))
  BY ReferencesAreRefsIn DEF HeapInv, CountsAreReferences
<1>3. kids \in [Addr -> Seq(Slot)]
  BY <1>1 DEF TypeOK, Slot
<1>4. ASSUME NEW o \in live PROVE DOMAIN kids[o] = 1..Len(kids[o]) /\ DOMAIN kids[o] \subseteq Places
  <2>1. kids[o] \in Seq(Slot) /\ Len(kids[o]) <= MaxKids + 2 * MaxPairs
    BY <1>1, <1>3 DEF TypeOK, HeapInv, Sized
  <2> QED
    BY <2>1, HeapAssumption DEF Places
<1> QED
  BY <1>1, <1>2, <1>3, <1>4, KeptIsKeptIn, HeapAssumption DEF TypeOK

(* It is counted, and so it is not being released. *)
LEMMA HeldIsCounted ==
    ASSUME HeapInv, NEW o \in Held
    PROVE  /\ o \in live /\ o \in Addr /\ count[o] >= 1 /\ count[o] >= held[o] /\ held[o] >= 1
           /\ \A d \in DOMAIN calls : calls[d].obj # o
<1>1. o \in live /\ o \in Addr /\ held[o] > 0
  BY DEF HeapInv, NothingDangles, Held
<1>2. Cardinality(RefsIn(live, kids, calls, o)) \in Nat /\ held[o] \in Nat /\ count[o] \in Nat
  BY <1>1, Basics, RefsAreFinite
<1>3. count[o] >= 1 /\ count[o] >= held[o] /\ held[o] >= 1
  BY <1>1, <1>2, Basics
<1> QED
  BY <1>1, <1>3 DEF HeapInv, NothingDangles

LEMMA PointedIsCounted ==
    ASSUME HeapInv, NEW p \in live, NEW i \in Kept(p)
    PROVE  /\ kids[p][i] \in live /\ count[kids[p][i]] >= 1
           /\ <<p, i>> \in RefsIn(live, kids, calls, kids[p][i])
           /\ \A d \in DOMAIN calls : calls[d].obj # kids[p][i]
<1> DEFINE o == kids[p][i]
<1>1. o \in live
  BY DEF HeapInv, NothingDangles
<1>2. i \in KeptIn(kids, calls, p) /\ i \in Places
  BY Basics DEF KeptIn
<1>3. <<p, i>> \in RefsIn(live, kids, calls, o)
  BY <1>2 DEF RefsIn
<1>4. /\ Cardinality(RefsIn(live, kids, calls, o)) \in Nat /\ held[o] \in Nat /\ count[o] \in Nat
      /\ IsFiniteSet(RefsIn(live, kids, calls, o))
  BY <1>1, Basics, RefsAreFinite
<1>5. Cardinality(RefsIn(live, kids, calls, o)) # 0
  <2>1. PICK S : S = RefsIn(live, kids, calls, o)
    OBVIOUS
  <2>2. IsFiniteSet(S) /\ S # {}
    BY <1>3, <1>4, <2>1, Zenon
  <2>3. Cardinality(S) # 0
    BY <2>2, FS_EmptySet
  <2> QED
    BY <2>1, <2>3, Zenon
<1>6. count[o] >= 1
  BY <1>1, <1>4, <1>5, Basics
<1> QED
  BY <1>1, <1>3, <1>6 DEF HeapInv, NothingDangles

(* A map in the making is no value that is being released. *)
LEMMA MadeIsHeld ==
    ASSUME HeapInv, making # NoMap
    PROVE  /\ making \in Makings /\ making.obj \in live /\ making.obj \in Held /\ making.obj \in Addr
           /\ \A d \in DOMAIN calls : calls[d].obj # making.obj
           /\ \A k \in DOMAIN making.pairs : making.pairs[k] \in Held \X Held
  BY HeldIsCounted DEF HeapInv, Made

LEMMA OrderStays ==
    ASSUME HeapInv, NEW lv \in SUBSET live, NEW ks, NEW cs, NEW mk,
           \A a \in lv : \A i \in KeptIn(ks, cs, a) : i \in Kept(a) /\ ks[a][i] = kids[a][i],
           \A k \in DOMAIN mk.pairs :
               mk.obj = making.obj /\ \E j \in DOMAIN making.pairs : mk.pairs[k] = making.pairs[j]
    PROVE  Ordered(lv, ks, cs, mk)
<1>1. PICK age \in [Addr -> Nat], oldest \in Nat :
          Older(age, live, kids, calls, making) /\ \A o \in live : age[o] <= oldest
  BY DEF HeapInv, Ordered
<1>2. Older(age, lv, ks, cs, mk)
  <2>1. ASSUME NEW o \in lv, NEW i \in KeptIn(ks, cs, o) PROVE age[ks[o][i]] < age[o]
    <3>1. i \in KeptIn(kids, calls, o) /\ ks[o][i] = kids[o][i] /\ o \in live
      BY <2>1, KeptIsKeptIn
    <3> QED
      BY <1>1, <3>1 DEF Older
  <2>2. ASSUME NEW k \in DOMAIN mk.pairs
        PROVE  age[mk.pairs[k][1]] < age[mk.obj] /\ age[mk.pairs[k][2]] < age[mk.obj]
    <3>1. PICK j \in DOMAIN making.pairs : mk.pairs[k] = making.pairs[j]
      BY <2>2
    <3> QED
      BY <1>1, <2>2, <3>1 DEF Older
  <2> QED
    BY <2>1, <2>2 DEF Older
<1> QED
  BY <1>1, <1>2 DEF Ordered

(* Between two states of the values p's place j comes to be a reference,   *)
(* or ceases to be one.                                                    *)
LEMMA OneReference ==
    ASSUME IsFiniteSet(live), NEW ks, NEW cs, NEW with, NEW under,
           NEW p \in live, NEW j \in Places, j \in KeptIn(with, under, p),
           KeptIn(ks, cs, p) = KeptIn(with, under, p) \ {j},
           \A a \in live : a # p => KeptIn(ks, cs, a) = KeptIn(with, under, a),
           \A a \in live : \A i \in KeptIn(ks, cs, a) : ks[a][i] = with[a][i],
           NEW a
    PROVE  Cardinality(RefsIn(live, with, under, a))
               = Cardinality(RefsIn(live, ks, cs, a)) + (IF a = with[p][j] THEN 1 ELSE 0)
<1> DEFINE r == <<p, j>>
<1>0. /\ IsFiniteSet(RefsIn(live, with, under, a)) /\ Cardinality(RefsIn(live, with, under, a)) \in Nat
      /\ IsFiniteSet(RefsIn(live, ks, cs, a)) /\ Cardinality(RefsIn(live, ks, cs, a)) \in Nat
  BY RefsAreFinite
<1>1. RefsIn(live, ks, cs, a) = RefsIn(live, with, under, a) \ {r}
  <2>1. ASSUME NEW x \in live \X Places
        PROVE  x \in RefsIn(live, ks, cs, a) <=> x \in RefsIn(live, with, under, a) /\ x # r
    <3>1. PICK q \in live, i \in Places : x = <<q, i>>
      OBVIOUS
    <3>2. x[1] = q /\ x[2] = i
      BY <3>1
    <3>3. i \in KeptIn(ks, cs, q) <=> i \in KeptIn(with, under, q) /\ ~ (q = p /\ i = j)
      OBVIOUS
    <3>4. i \in KeptIn(ks, cs, q) => ks[q][i] = with[q][i]
      OBVIOUS
    <3> QED
      BY <3>1, <3>2, <3>3, <3>4 DEF RefsIn
  <2> QED
    BY <2>1 DEF RefsIn
<1>2. r \in RefsIn(live, with, under, a) <=> a = with[p][j]
  BY DEF RefsIn
<1>3. Cardinality(RefsIn(live, ks, cs, a)) =
          IF r \in RefsIn(live, with, under, a) THEN Cardinality(RefsIn(live, with, under, a)) - 1
          ELSE Cardinality(RefsIn(live, with, under, a))
  BY <1>0, <1>1, FS_RemoveElement
<1> QED
  BY <1>0, <1>2, <1>3

-----------------------------------------------------------------------------
(* Steps that let a reference go *)

LEMMA ReleaseKeeps ==
    ASSUME HeapInv, NEW o \in Addr, Release(o)
    PROVE  HeapInv'
<1>0. /\ calls = <<>> /\ making = NoMap /\ o \in Held /\ Drop(o, <<>>)
      /\ held' = [held EXCEPT ![o] = @ - 1] /\ UNCHANGED <<live, kids, making>>
  BY DEF Release, Idle
<1>1. o \in live /\ count[o] >= 1 /\ held[o] >= 1
  BY <1>0, HeldIsCounted
<1>2. held' \in [Addr -> 0..MaxHeld] /\ \A a \in Addr : held'[a] = held[a] - (IF a = o THEN 1 ELSE 0)
  BY <1>0, <1>1, Basics
<1>3. \A a \in Addr : held'[a] <= held[a]
  <2>1. \A a \in Addr : held[a] \in Int
    BY Basics
  <2> QED
    BY <1>2, <2>1
<1>4. ASSUME NEW a \in live
      PROVE  count[a] = held'[a] + Cardinality(RefsIn(live, kids', <<>>, a)) + (IF a = o THEN 1 ELSE 0)
  <2>1. Cardinality(RefsIn(live, kids, calls, a)) \in Nat /\ held[a] \in Nat /\ a \in Addr
    BY Basics, RefsAreFinite
  <2>2. count[a] = held[a] + Cardinality(RefsIn(live, kids, calls, a))
    BY Basics
  <2> QED
    BY <1>0, <1>2, <2>1, <2>2
<1>5. \A a \in live : \A i \in KeptIn(kids', <<>>, a) : i \in Kept(a) /\ kids'[a][i] = kids[a][i]
  BY <1>0, Basics
<1>6. /\ CountsAreReferences' /\ NothingDangles' /\ OneRelease' /\ ZeroIsReleased'
      /\ calls' \in Seq(Activations)
      /\ \A a \in live : \A i \in KeptIn(kids', calls', a) : i \in Kept(a) /\ kids'[a][i] = kids[a][i]
  <2>1. kids' \in [Addr -> Seq(Slot)]
    BY <1>0, Basics
  <2>2. <<>> \in Seq(Activations) /\ Len(<<>>) = Len(calls) /\ DOMAIN calls = {}
    BY <1>0
  <2> QED
    BY <1>0, <1>1, <1>2, <1>3, <1>4, <1>5, <2>1, <2>2, Dropping
<1>7. Ordered(live, kids, calls, making)'
  BY <1>0, <1>6, OrderStays DEF NoMap
<1>8. Made'
  BY <1>0 DEF Made
<1>9. Sized'
  BY <1>0, <1>6 DEF Sized, HeapInv
<1> QED
  BY <1>6, <1>7, <1>8, <1>9 DEF HeapInv

LEMMA ReleaseKidKeeps ==
    ASSUME HeapInv, ReleaseKid
    PROVE  HeapInv'
<1> DEFINE L == Len(calls)
           p == Top.obj
           j == Top.next
           fs == [calls EXCEPT ![Len(calls)].next = @ + 1]
<1>0. /\ calls # <<>> /\ j <= Len(kids[p]) /\ Drop(kids[p][j], fs)
      /\ UNCHANGED <<live, kids, held, making>>
  BY DEF ReleaseKid
<1>1. /\ L \in DOMAIN calls /\ DOMAIN calls = 1..L /\ L \in Nat
      /\ calls[L] \in Activations /\ Top = calls[L]
  BY <1>0, Basics DEF Top
<1>2. /\ p \in Addr /\ j \in Nat \ {0} /\ p \in live /\ count[p] = 0
      /\ [calls[L] EXCEPT !.next = @ + 1] = [obj |-> p, next |-> j + 1]
  BY <1>1 DEF Activations, HeapInv, NothingDangles
<1>3. fs = [calls EXCEPT ![L] = [obj |-> p, next |-> j + 1]]
  BY <1>1, <1>2
<1>4. [obj |-> p, next |-> j + 1] \in Activations
  BY <1>2 DEF Activations
<1>5. /\ fs \in Seq(Activations) /\ Len(fs) = L /\ DOMAIN fs = 1..L
      /\ \A d \in 1..L : d # L => fs[d] = calls[d]
      /\ fs[L].obj = p /\ fs[L].next = j + 1
  BY <1>1, <1>3, <1>4, Basics
<1>6. j \in DOMAIN kids[p] /\ j \in Places
  BY <1>0, <1>2, Basics
<1>7. \A d \in DOMAIN calls : calls[d].obj = p => d = L
  BY <1>1 DEF HeapInv, OneRelease
<1>8. kids[p][j] # Hole
  <2> SUFFICES ASSUME kids[p][j] = Hole PROVE FALSE
    OBVIOUS
  <2>1. p = making.obj
    BY <1>2, <1>6 DEF HeapInv, Sized
  <2>2. making # NoMap
    BY <1>2, <2>1, Basics DEF NoMap
  <2> QED
    BY <1>1, <2>1, <2>2, MadeIsHeld
<1>9. j \in KeptIn(kids, calls, p)
  <2>1. \A d \in DOMAIN calls : calls[d].obj = p => j >= calls[d].next
    <3>1. j >= calls[L].next
      BY <1>1, <1>2
    <3> QED
      BY <1>7, <3>1
  <2> HIDE DEF p, j
  <2> QED
    BY <1>6, <1>8, <2>1 DEF KeptIn
<1>10. KeptIn(kids, fs, p) = KeptIn(kids, calls, p) \ {j}
  <2>1. \A i \in DOMAIN kids[p] : i \in Nat
    BY <1>2, Basics
  <2>2. \A i \in Nat : i >= j + 1 <=> i >= j /\ i # j
    BY <1>2
  <2>3. \A i : (\A d \in DOMAIN calls : calls[d].obj = p => i >= calls[d].next) <=> i >= j
    BY <1>1, <1>7
  <2>4. \A i : (\A d \in DOMAIN fs : fs[d].obj = p => i >= fs[d].next) <=> i >= j + 1
    BY <1>1, <1>5, <1>7
  <2> HIDE DEF j, p, fs
  <2> QED
    BY <2>1, <2>2, <2>3, <2>4 DEF KeptIn
<1>11. \A a : a # p => KeptIn(kids, fs, a) = KeptIn(kids, calls, a)
  BY <1>1, <1>5 DEF KeptIn
<1>12. /\ kids[p][j] \in live /\ count[kids[p][j]] >= 1
  BY <1>2, <1>9, Basics, PointedIsCounted
<1>13. ASSUME NEW a \in live
       PROVE  count[a] = held'[a] + Cardinality(RefsIn(live, kids', fs, a))
                            + (IF a = kids[p][j] THEN 1 ELSE 0)
  <2>1. Cardinality(RefsIn(live, kids, calls, a))
            = Cardinality(RefsIn(live, kids, fs, a)) + (IF a = kids[p][j] THEN 1 ELSE 0)
    <3>1. \A x \in live : x # p => KeptIn(kids, fs, x) = KeptIn(kids, calls, x)
      BY <1>11
    <3>2. \A x \in live : \A i \in KeptIn(kids, fs, x) : kids[x][i] = kids[x][i]
      OBVIOUS
    <3>3. p \in live /\ j \in Places /\ IsFiniteSet(live)
      BY <1>2, <1>6, Basics
    <3> HIDE DEF p, j, fs
    <3> QED
      BY <1>9, <1>10, <3>1, <3>2, <3>3, OneReference
  <2>2. /\ Cardinality(RefsIn(live, kids, fs, a)) \in Nat /\ held[a] \in Nat /\ kids' = kids /\ held' = held
        /\ count[a] = held[a] + Cardinality(RefsIn(live, kids, calls, a))
    BY <1>0, Basics, RefsAreFinite
  <2> HIDE DEF p, j, fs
  <2> QED
    BY <2>1, <2>2
<1>14. \A a \in live : \A i \in KeptIn(kids', fs, a) : i \in Kept(a) /\ kids'[a][i] = kids[a][i]
  BY <1>0, <1>10, <1>11, Basics
<1>15. /\ CountsAreReferences' /\ NothingDangles' /\ OneRelease' /\ ZeroIsReleased'
       /\ calls' \in Seq(Activations)
       /\ \A a \in live : \A i \in KeptIn(kids', calls', a) : i \in Kept(a) /\ kids'[a][i] = kids[a][i]
  <2>1. kids' \in [Addr -> Seq(Slot)]
    BY <1>0, Basics
  <2>2. held' \in [Addr -> 0..MaxHeld] /\ \A a \in Addr : held'[a] <= held[a]
    BY <1>0, Basics
  <2>3. \A d \in DOMAIN calls : fs[d].obj = calls[d].obj
    BY <1>1, <1>5
  <2>4. Drop(kids[p][j], fs) /\ fs \in Seq(Activations) /\ Len(fs) = Len(calls) /\ live' = live
    BY <1>0, <1>5
  <2> HIDE DEF fs, p, j
  <2> QED
    BY <1>12, <1>13, <1>14, <2>1, <2>2, <2>3, <2>4, Dropping
<1>16. Ordered(live, kids, calls, making)'
  BY <1>0, <1>15, OrderStays
<1>17. Made'
  BY <1>0 DEF Made, Held, HeapInv
<1>18. Sized'
  BY <1>0, <1>15 DEF Sized, HeapInv
<1> QED
  BY <1>15, <1>16, <1>17, <1>18 DEF HeapInv

-----------------------------------------------------------------------------
(* A map in the making *)

LEMMA KeptIdle ==
    ASSUME NEW ks, NEW a
    PROVE  KeptIn(ks, <<>>, a) = {i \in DOMAIN ks[a] : ks[a][i] # Hole}
  BY DEF KeptIn

LEMMA KeptOfSame ==
    ASSUME NEW ks, NEW with, NEW cs, NEW a, ks[a] = with[a]
    PROVE  KeptIn(ks, cs, a) = KeptIn(with, cs, a)
  BY DEF KeptIn

LEMMA PairInHand ==
    ASSUME HeapInv, making # NoMap, making.pairs # <<>>
    PROVE  /\ Key \in Held /\ Value \in Held
           /\ Key = making.pairs[1][1] /\ Value = making.pairs[1][2] /\ 1 \in DOMAIN making.pairs
           /\ Following \in Makings /\ Following.obj = making.obj /\ Following.into = 0
           /\ Len(Following.pairs) = Len(making.pairs) - 1 /\ Len(making.pairs) \in Nat
           /\ \A k \in DOMAIN Following.pairs : /\ k + 1 \in DOMAIN making.pairs
                                                /\ Following.pairs[k] = making.pairs[k + 1]
<1>1. making \in Makings /\ making.pairs \in Seq(Addr \X Addr)
  BY MadeIsHeld DEF Makings
<1>2. /\ Following \in Makings /\ Following.obj = making.obj /\ Following.into = 0
      /\ Following.pairs = Tail(making.pairs)
  <2>1. Tail(making.pairs) \in Seq(Addr \X Addr)
    BY <1>1
  <2> QED
    BY <1>1, <2>1 DEF Following, Makings
<1>3. /\ Len(Tail(making.pairs)) = Len(making.pairs) - 1 /\ Len(making.pairs) \in Nat
      /\ \A k \in DOMAIN Tail(making.pairs) : /\ k + 1 \in DOMAIN making.pairs
                                              /\ Tail(making.pairs)[k] = making.pairs[k + 1]
  BY <1>1
<1>4. 1 \in DOMAIN making.pairs /\ Head(making.pairs) = making.pairs[1]
  BY <1>1
<1>5. making.pairs[1] \in Held \X Held
  BY <1>4, MadeIsHeld
<1> QED
  BY <1>2, <1>3, <1>4, <1>5 DEF Key, Value

LEMMA ReplaceKeeps ==
    ASSUME HeapInv, Replace
    PROVE  HeapInv'
<1> DEFINE m == making.obj
<1>0. making # NoMap /\ calls = <<>> /\ making.pairs # <<>> /\ making.into = 0 /\ UNCHANGED <<live, held>>
  BY DEF Replace, Making
<1>1. PICK i \in DOMAIN kids[m] : /\ i % 2 = 1
                                  /\ Drop(kids[m][i + 1], <<>>)
                                  /\ kids' = [kids EXCEPT ![m][i + 1] = Hole]
                                  /\ making' = [making EXCEPT !.into = i + 1]
  BY DEF Replace, Slots
<1> DEFINE j == i + 1
<1>2. /\ making \in Makings /\ m \in live /\ m \in Held /\ m \in Addr /\ kids[m] \in Seq(Slot)
      /\ Len(kids[m]) % 2 = 0 /\ Len(kids[m]) \in Nat
  <2>1. making \in Makings /\ m \in live /\ m \in Held /\ m \in Addr
    BY <1>0, MadeIsHeld
  <2>2. kids[m] \in Seq(Slot)
    BY <2>1, Basics
  <2>3. Len(kids[m]) % 2 = 0
    BY <1>0 DEF HeapInv, Made
  <2>4. Len(kids[m]) \in Nat
    BY <2>2
  <2> QED
    BY <2>1, <2>2, <2>3, <2>4
<1>3. j \in DOMAIN kids[m] /\ i \in Nat /\ j \in Places
  <2>1. i \in 1..Len(kids[m])
    BY <1>2
  <2>2. i # Len(kids[m])
    <3>1. i % 2 = 1 /\ Len(kids[m]) % 2 = 0
      BY <1>1, <1>2
    <3>2. ASSUME i = Len(kids[m]) PROVE FALSE
      <4>1. 1 = 0
        BY <3>1, <3>2
      <4> QED
        BY <4>1
    <3> QED
      BY <3>2
  <2>3. j \in 1..Len(kids[m])
    BY <1>2, <2>1, <2>2
  <2> QED
    BY <1>2, <2>1, <2>3, Basics
<1>4. kids[m][j] # Hole
  BY <1>0, <1>2, <1>3 DEF HeapInv, Sized
<1>5. /\ kids'[m] = [kids[m] EXCEPT ![j] = Hole]
      /\ kids' \in [Addr -> Seq(Slot)]
      /\ \A a \in Addr : a # m => kids'[a] = kids[a]
      /\ Len(kids'[m]) = Len(kids[m]) /\ DOMAIN kids'[m] = DOMAIN kids[m]
  <2>1. [kids[m] EXCEPT ![j] = Hole] \in Seq(Slot)
    BY <1>2, <1>3 DEF Slot
  <2>2. kids' = [kids EXCEPT ![m] = [kids[m] EXCEPT ![j] = Hole]]
    BY <1>1
  <2>3. kids \in [Addr -> Seq(Slot)] /\ m \in Addr
    BY <1>2, Basics
  <2>4. /\ Len([kids[m] EXCEPT ![j] = Hole]) = Len(kids[m])
        /\ DOMAIN [kids[m] EXCEPT ![j] = Hole] = DOMAIN kids[m]
    BY <1>2
  <2> QED
    BY <2>1, <2>2, <2>3, <2>4
<1>6. KeptIn(kids', <<>>, m) = KeptIn(kids, calls, m) \ {j}
  BY <1>0, <1>2, <1>3, <1>5, KeptIdle
<1>7. \A a \in live : a # m => KeptIn(kids', <<>>, a) = KeptIn(kids, calls, a)
  <2>1. \A a \in live : a \in Addr
    BY Basics
  <2>2. \A a \in live : a # m => kids'[a] = kids[a]
    BY <1>5, <2>1
  <2> QED
    BY <1>0, <2>2, KeptOfSame
<1>8. \A a \in live : \A x \in KeptIn(kids', <<>>, a) : x \in Kept(a) /\ kids'[a][x] = kids[a][x]
  <2> SUFFICES ASSUME NEW a \in live, NEW x \in KeptIn(kids', <<>>, a)
               PROVE  x \in Kept(a) /\ kids'[a][x] = kids[a][x]
    OBVIOUS
  <2>1. CASE a = m
    <3>1. x \in KeptIn(kids, calls, m) /\ x # j
      BY <1>6, <2>1
    <3>2. kids'[m][x] = kids[m][x]
      BY <1>5, <3>1 DEF KeptIn
    <3> QED
      BY <2>1, <3>1, <3>2, KeptIsKeptIn
  <2>2. CASE a # m
    BY <1>5, <1>7, <2>2, Basics
  <2> QED
    BY <2>1, <2>2
<1>9. ASSUME NEW a \in live
      PROVE  count[a] = held'[a] + Cardinality(RefsIn(live, kids', <<>>, a))
                           + (IF a = kids[m][j] THEN 1 ELSE 0)
  <2>1. Cardinality(RefsIn(live, kids, calls, a))
            = Cardinality(RefsIn(live, kids', <<>>, a)) + (IF a = kids[m][j] THEN 1 ELSE 0)
    <3>1. j \in KeptIn(kids, calls, m)
      BY <1>0, <1>3, <1>4, KeptIdle
    <3>2. m \in live /\ j \in Places /\ IsFiniteSet(live)
      BY <1>2, <1>3, Basics
    <3>3. \A x \in live : \A y \in KeptIn(kids', <<>>, x) : kids'[x][y] = kids[x][y]
      BY <1>8
    <3> HIDE DEF m, j
    <3> QED
      BY <1>6, <1>7, <3>1, <3>2, <3>3, OneReference
  <2>2. /\ Cardinality(RefsIn(live, kids', <<>>, a)) \in Nat /\ held[a] \in Nat /\ held' = held
        /\ count[a] = held[a] + Cardinality(RefsIn(live, kids, calls, a))
    BY <1>0, Basics, RefsAreFinite
  <2> HIDE DEF m, j
  <2> QED
    BY <2>1, <2>2
<1>10. /\ CountsAreReferences' /\ NothingDangles' /\ OneRelease' /\ ZeroIsReleased'
       /\ calls' \in Seq(Activations)
       /\ \A a \in live : \A x \in KeptIn(kids', calls', a) : x \in Kept(a) /\ kids'[a][x] = kids[a][x]
  <2>1. kids[m][j] \in live /\ count[kids[m][j]] >= 1
    <3>1. j \in Kept(m)
      BY <1>0, <1>3, <1>4, Basics, KeptIdle
    <3> QED
      BY <1>2, <3>1, PointedIsCounted
  <2>2. <<>> \in Seq(Activations) /\ Len(<<>>) = Len(calls) /\ DOMAIN calls = {}
    BY <1>0
  <2>3. held' \in [Addr -> 0..MaxHeld] /\ \A a \in Addr : held'[a] <= held[a]
    BY <1>0, Basics
  <2>4. Drop(kids[m][j], <<>>) /\ live' = live
    BY <1>0, <1>1
  <2> HIDE DEF m, j
  <2> QED
    BY <1>5, <1>8, <1>9, <2>1, <2>2, <2>3, <2>4, Dropping
<1>11. making'.obj = m /\ making'.into = j /\ making'.pairs = making.pairs /\ making' \in Makings
  <2>1. making' = [making EXCEPT !.into = j] /\ j \in Nat
    BY <1>1, <1>3
  <2> HIDE DEF j
  <2> QED
    BY <1>2, <2>1 DEF Makings
<1>12. Ordered(live, kids, calls, making)'
  BY <1>0, <1>10, <1>11, OrderStays
<1>13. Made'
  <2>1. /\ \A k \in DOMAIN making.pairs : making.pairs[k] \in Held \X Held
        /\ Len(kids[m]) + 2 * Len(making.pairs) <= 2 * MaxPairs
    BY <1>0 DEF HeapInv, Made
  <2>2. Held' = Held
    BY <1>0 DEF Held
  <2>3. j \in DOMAIN kids'[m] /\ kids'[m][j] = Hole
    BY <1>2, <1>3, <1>5
  <2> QED
    BY <1>0, <1>2, <1>3, <1>5, <1>11, <2>1, <2>2, <2>3 DEF Made
<1>14. Sized'
  <2>1. \A a \in live : Len(kids'[a]) <= MaxKids + 2 * MaxPairs
    BY <1>2, <1>5, Basics DEF HeapInv, Sized
  <2>2. ASSUME NEW a \in live, NEW x \in DOMAIN kids'[a], kids'[a][x] = Hole PROVE a = m /\ x = j
    <3>1. a # m => kids[a][x] = Hole /\ x \in DOMAIN kids[a]
      BY <1>5, <2>2, Basics
    <3>2. a = m /\ x # j => kids[a][x] = Hole /\ x \in DOMAIN kids[a]
      BY <1>2, <1>3, <1>5, <2>2
    <3>3. kids[a][x] = Hole /\ x \in DOMAIN kids[a] => FALSE
      <4>1. DOMAIN kids[a] = 1..Len(kids[a])
        BY Basics
      <4> QED
        BY <1>0, <4>1 DEF HeapInv, Sized
    <3> QED
      BY <3>1, <3>2, <3>3
  <2> QED
    BY <1>0, <1>10, <1>11, <2>1, <2>2, Basics DEF Sized
<1> QED
  BY <1>10, <1>12, <1>13, <1>14 DEF HeapInv

LEMMA ReplacedKeeps ==
    ASSUME HeapInv, Replaced
    PROVE  HeapInv'
<1> DEFINE m == making.obj
           j == making.into
<1>0. /\ j > 0 /\ calls = <<>> /\ UNCHANGED <<live, held, calls>> /\ making' = Following
      /\ kids' = [kids EXCEPT ![m][j] = Value] /\ count' = [count EXCEPT ![Value] = @ + 1]
  BY DEF Replaced
<1>n. making # NoMap
  BY <1>0 DEF NoMap
<1>1. /\ m \in live /\ m \in Held /\ m \in Addr /\ making.pairs # <<>>
      /\ j \in DOMAIN kids[m] /\ kids[m][j] = Hole
      /\ \A k \in DOMAIN making.pairs : making.pairs[k] \in Held \X Held
  BY <1>0, <1>n, MadeIsHeld DEF HeapInv, Made
<1>2. Value \in live /\ Value \in Addr /\ Value # Hole /\ Value \in Held
  BY <1>n, <1>1, PairInHand, HeldIsCounted, Basics
<1>3. kids[m] \in Seq(Slot) /\ j \in Places
  BY <1>1, Basics
<1>4. /\ kids'[m] = [kids[m] EXCEPT ![j] = Value] /\ kids' \in [Addr -> Seq(Slot)]
      /\ \A a \in Addr : a # m => kids'[a] = kids[a]
      /\ Len(kids'[m]) = Len(kids[m]) /\ DOMAIN kids'[m] = DOMAIN kids[m]
  <2>1. [kids[m] EXCEPT ![j] = Value] \in Seq(Slot)
    BY <1>1, <1>2, <1>3 DEF Slot
  <2>2. kids' = [kids EXCEPT ![m] = [kids[m] EXCEPT ![j] = Value]]
    BY <1>0
  <2>3. kids \in [Addr -> Seq(Slot)]
    BY Basics
  <2>4. /\ Len([kids[m] EXCEPT ![j] = Value]) = Len(kids[m])
        /\ DOMAIN [kids[m] EXCEPT ![j] = Value] = DOMAIN kids[m]
    BY <1>3
  <2> QED
    BY <1>1, <2>1, <2>2, <2>3, <2>4
<1>5. kids'[m][j] = Value /\ \A x \in DOMAIN kids[m] : x # j => kids'[m][x] = kids[m][x]
  BY <1>1, <1>4
<1>6. KeptIn(kids, <<>>, m) = KeptIn(kids', <<>>, m) \ {j} /\ j \in KeptIn(kids', <<>>, m)
  BY <1>1, <1>2, <1>4, <1>5, KeptIdle
<1>7. \A a \in live : a # m => KeptIn(kids, <<>>, a) = KeptIn(kids', <<>>, a)
  <2>1. \A a \in live : a # m => kids'[a] = kids[a]
    BY <1>4, Basics
  <2> QED
    BY <2>1, KeptOfSame
<1>8. \A a \in live : \A x \in KeptIn(kids, <<>>, a) : kids[a][x] = kids'[a][x]
  <2> SUFFICES ASSUME NEW a \in live, NEW x \in KeptIn(kids, <<>>, a) PROVE kids[a][x] = kids'[a][x]
    OBVIOUS
  <2>1. CASE a = m
    <3>1. x # j /\ x \in DOMAIN kids[m]
      BY <1>6, <2>1 DEF KeptIn
    <3> QED
      BY <1>5, <2>1, <3>1
  <2>2. CASE a # m
    BY <1>4, <2>2, Basics
  <2> QED
    BY <2>1, <2>2
<1>9. ASSUME NEW a \in live
      PROVE  Cardinality(RefsIn(live, kids', <<>>, a))
                 = Cardinality(RefsIn(live, kids, <<>>, a)) + (IF a = Value THEN 1 ELSE 0)
  <2>1. m \in live /\ j \in Places /\ IsFiniteSet(live) /\ kids'[m][j] = Value
    BY <1>1, <1>3, <1>5, Basics
  <2> HIDE DEF m, j
  <2> QED
    BY <1>6, <1>7, <1>8, <2>1, OneReference
<1>10. count' \in [Addr -> Nat] /\ \A a \in Addr : count'[a] = count[a] + (IF a = Value THEN 1 ELSE 0)
  BY <1>0, <1>2, Basics
<1>11. TypeOK'
  <2>1. TypeOK
    BY Basics
  <2> QED
    BY <1>0, <1>4, <1>10, <2>1 DEF TypeOK, Slot
<1>12. CountsAreReferences'
  <2>1. ASSUME NEW a \in live PROVE count'[a] = held'[a] + Cardinality(RefsIn(live, kids', <<>>, a))
    <3>1. /\ Cardinality(RefsIn(live, kids, <<>>, a)) \in Nat /\ held[a] \in Nat /\ held' = held /\ a \in Addr
          /\ count[a] = held[a] + Cardinality(RefsIn(live, kids, <<>>, a))
      BY <1>0, Basics, RefsAreFinite
    <3> QED
      BY <1>9, <1>10, <3>1
  <2> QED
    BY <1>0, <1>11, <2>1, StateThen DEF CountsAreReferences
<1>13. NothingDangles'
  <2>1. ASSUME NEW a \in live, NEW x \in KeptIn(kids', <<>>, a) PROVE kids'[a][x] \in live
    <3>1. CASE a = m /\ x = j
      BY <1>2, <1>5, <3>1
    <3>2. CASE ~ (a = m /\ x = j)
      <4>1. x \in KeptIn(kids, <<>>, a)
        BY <1>6, <1>7, <2>1, <3>2
      <4>2. x \in Kept(a) /\ kids'[a][x] = kids[a][x]
        BY <1>0, <1>8, <4>1, Basics
      <4> QED
        BY <4>2 DEF HeapInv, NothingDangles
    <3> QED
      BY <3>1, <3>2
  <2>2. Held' \subseteq live /\ DOMAIN calls' = {}
    BY <1>0 DEF HeapInv, NothingDangles, Held
  <2> QED
    BY <1>0, <2>1, <2>2, StateThen DEF NothingDangles
<1>14. OneRelease' /\ ZeroIsReleased'
  <2>1. DOMAIN calls = {} /\ DOMAIN calls' = {}
    BY <1>0
  <2>2. \A a \in live : count[a] \in Nat /\ count[a] # 0
    BY <2>1, Basics DEF HeapInv, ZeroIsReleased
  <2>3. ASSUME NEW a \in live PROVE count'[a] # 0
    <3>1. a \in Addr /\ count[a] \in Nat /\ count[a] # 0
      BY <2>2, Basics
    <3> QED
      BY <1>10, <3>1
  <2> QED
    BY <1>0, <2>1, <2>3 DEF OneRelease, ZeroIsReleased
<1>15. Ordered(live, kids, calls, making)'
  <2>1. PICK age \in [Addr -> Nat], oldest \in Nat :
            Older(age, live, kids, calls, making) /\ \A o \in live : age[o] <= oldest
    BY DEF HeapInv, Ordered
  <2>2. age[Value] < age[m]
    BY <1>n, <1>1, <2>1, PairInHand DEF Older
  <2>3. ASSUME NEW a \in live, NEW x \in KeptIn(kids', <<>>, a) PROVE age[kids'[a][x]] < age[a]
    <3>1. CASE a = m /\ x = j
      BY <1>5, <2>2, <3>1
    <3>2. CASE ~ (a = m /\ x = j)
      <4>1. x \in KeptIn(kids, <<>>, a)
        BY <1>6, <1>7, <2>3, <3>2
      <4> QED
        BY <1>0, <1>8, <2>1, <4>1 DEF Older
    <3> QED
      BY <3>1, <3>2
  <2>4. \A k \in DOMAIN Following.pairs : /\ age[Following.pairs[k][1]] < age[m]
                                          /\ age[Following.pairs[k][2]] < age[m]
    BY <1>n, <1>1, <2>1, PairInHand DEF Older
  <2>5. Following.obj = m
    BY <1>n, <1>1, PairInHand
  <2>6. Older(age, live, kids', calls', making')
    BY <1>0, <2>3, <2>4, <2>5 DEF Older
  <2>7. live' = live
    BY <1>0
  <2> QED
    BY <2>1, <2>6, <2>7 DEF Ordered
<1>16. Made'
  <2>1. Held' = Held
    BY <1>0 DEF Held
  <2>2. \A k \in DOMAIN Following.pairs : Following.pairs[k] \in Held \X Held
    BY <1>n, <1>1, PairInHand
  <2>3. Len(kids[m]) % 2 = 0 /\ Len(kids[m]) + 2 * Len(making.pairs) <= 2 * MaxPairs
    BY <1>n DEF HeapInv, Made
  <2>4. /\ Following \in Makings /\ Following.obj = m /\ Following.into = 0
        /\ Len(Following.pairs) = Len(making.pairs) - 1 /\ Len(making.pairs) \in Nat
    BY <1>n, <1>1, PairInHand
  <2>5. Len(kids[m]) \in Nat /\ MaxPairs \in Nat
    BY <1>3, Basics
  <2>6. Len(kids[m]) + 2 * Len(Following.pairs) <= 2 * MaxPairs
    <3>1. /\ Len(kids[m]) + 2 * Len(making.pairs) <= 2 * MaxPairs
          /\ Len(Following.pairs) = Len(making.pairs) - 1
      BY <2>3, <2>4
    <3>2. /\ Len(kids[m]) \in Int /\ MaxPairs \in Int
          /\ Len(making.pairs) \in Int /\ Len(Following.pairs) \in Int
      BY <2>4, <2>5
    <3>3. \A a, b, c, d \in Int : a + 2 * b <= 2 * c /\ d = b - 1 => a + 2 * d <= 2 * c
      OBVIOUS
    <3> QED
      BY <3>1, <3>2, <3>3
  <2>7. m \in Held' /\ Len(kids'[m]) % 2 = 0 /\ Len(kids'[m]) + 2 * Len(Following.pairs) <= 2 * MaxPairs
    BY <1>1, <1>4, <2>1, <2>3, <2>6
  <2>8. making'.obj = m /\ making'.pairs = Following.pairs /\ making'.into = 0 /\ making' \in Makings
    BY <1>0, <2>4
  <2>9. \A k \in DOMAIN making'.pairs : making'.pairs[k] \in Held' \X Held'
    BY <2>1, <2>2, <2>8
  <2>10. /\ making'.obj \in Held' /\ Len(kids'[making'.obj]) % 2 = 0
         /\ Len(kids'[making'.obj]) + 2 * Len(making'.pairs) <= 2 * MaxPairs
    BY <2>7, <2>8, Zenon
  <2>11. ~ (making'.into > 0)
    BY <2>8
  <2> QED
    BY <2>8, <2>9, <2>10, <2>11 DEF Made
<1>17. Sized'
  <2>1. \A a \in live : Len(kids'[a]) <= MaxKids + 2 * MaxPairs
    BY <1>1, <1>4, Basics DEF HeapInv, Sized
  <2>2. ASSUME NEW a \in live, NEW x \in DOMAIN kids'[a], kids'[a][x] = Hole PROVE FALSE
    <3>1. CASE a = m
      BY <1>2, <1>4, <1>5, <2>2, <3>1 DEF HeapInv, Sized
    <3>2. CASE a # m
      BY <1>4, <2>2, <3>2, Basics DEF HeapInv, Sized
    <3> QED
      BY <3>1, <3>2
  <2>3. IsFiniteSet(live) /\ calls \in Seq(Activations)
    BY Basics
  <2> QED
    BY <1>0, <2>1, <2>2, <2>3 DEF Sized
<1> QED
  BY <1>12, <1>13, <1>14, <1>15, <1>16, <1>17 DEF HeapInv

-----------------------------------------------------------------------------
(* Steps that make references *)

(* Held values are put into m behind its first L, which it had. *)
Puts(m, L, items) ==
    /\ calls = <<>> /\ calls' = calls /\ live' = live \cup {m}
    /\ m \in live => L = Len(kids[m])
    /\ m \notin live => L = 0
    /\ L + Len(items) <= MaxKids + 2 * MaxPairs
    /\ kids' \in [Addr -> Seq(Slot)] /\ \A a \in Addr : a # m => kids'[a] = kids[a]
    /\ Len(kids'[m]) = L + Len(items)
    /\ \A i \in 1..L : kids'[m][i] = kids[m][i]
    /\ \A i \in 1..Len(items) : kids'[m][L + i] = items[i]
    /\ count' \in [Addr -> Nat] /\ held' \in [Addr -> 0..MaxHeld]
    /\ \A a \in live : count'[a] = count[a] + Occurs(a, items) /\ held'[a] = held[a]
    /\ m \notin live => count'[m] = 1 /\ held'[m] = 1
    /\ \A a \in Addr : a # m => held'[a] = held[a]

LEMMA Growing ==
    ASSUME HeapInv, NEW m \in Addr, NEW L \in Nat, NEW items \in Seq(Held), Puts(m, L, items)
    PROVE  /\ CountsAreReferences' /\ NothingDangles' /\ OneRelease' /\ ZeroIsReleased'
           /\ IsFiniteSet(live') /\ \A a \in live' : Len(kids'[a]) <= MaxKids + 2 * MaxPairs
<1>a. /\ calls = <<>> /\ calls' = calls /\ live' = live \cup {m}
      /\ m \in live => L = Len(kids[m])
      /\ m \notin live => L = 0
      /\ L + Len(items) <= MaxKids + 2 * MaxPairs
  BY DEF Puts
<1>b. /\ kids' \in [Addr -> Seq(Slot)] /\ \A a \in Addr : a # m => kids'[a] = kids[a]
      /\ Len(kids'[m]) = L + Len(items)
      /\ \A i \in 1..L : kids'[m][i] = kids[m][i]
      /\ \A i \in 1..Len(items) : kids'[m][L + i] = items[i]
  BY DEF Puts
<1>c. /\ count' \in [Addr -> Nat] /\ held' \in [Addr -> 0..MaxHeld]
      /\ \A a \in live : count'[a] = count[a] + Occurs(a, items) /\ held'[a] = held[a]
      /\ m \notin live => count'[m] = 1 /\ held'[m] = 1
      /\ \A a \in Addr : a # m => held'[a] = held[a]
  BY DEF Puts
<1>1. /\ \A i \in 1..Len(items) : items[i] \in Held /\ items[i] \in live /\ items[i] \in Addr /\ items[i] # Hole
      /\ Len(items) \in Nat /\ DOMAIN items = 1..Len(items) /\ DOMAIN kids'[m] = 1..L + Len(items)
  <2>1. Len(items) \in Nat /\ DOMAIN items = 1..Len(items) /\ \A i \in 1..Len(items) : items[i] \in Held
    OBVIOUS
  <2>2. \A i \in 1..Len(items) : items[i] \in live /\ items[i] \in Addr /\ items[i] # Hole
    BY <2>1, HeldIsCounted, HeapAssumption
  <2>3. DOMAIN kids'[m] = 1..L + Len(items)
    BY <1>b
  <2> QED
    BY <2>1, <2>2, <2>3
<1>2. IsFiniteSet(live') /\ live' \subseteq Addr
  BY <1>a, Basics, FS_AddElement
<1>3. \A a \in live' : Len(kids'[a]) <= MaxKids + 2 * MaxPairs
  BY <1>a, <1>b, Basics DEF HeapInv, Sized
<1>4. TypeOK'
  <2>1. TypeOK
    BY Basics
  <2> QED
    BY <1>a, <1>b, <1>c, <1>2, <2>1 DEF TypeOK, Slot
<1>5. \A a \in live : a # m => KeptIn(kids', <<>>, a) = KeptIn(kids, <<>>, a)
  <2>1. \A a \in live : a # m => kids'[a] = kids[a]
    BY <1>b, Basics
  <2> QED
    BY <2>1, KeptOfSame
<1>6. ASSUME NEW i \in KeptIn(kids', <<>>, m)
      PROVE  \/ m \in live /\ i \in KeptIn(kids, <<>>, m) /\ kids'[m][i] = kids[m][i] /\ i \in 1..L
             \/ i - L \in 1..Len(items) /\ kids'[m][i] = items[i - L] /\ i \in Nat
  <2>1. i \in 1..L + Len(items) /\ kids'[m][i] # Hole
    BY <1>1 DEF KeptIn
  <2>2. CASE i <= L
    <3>1. i \in 1..L /\ kids'[m][i] = kids[m][i] /\ L # 0
      BY <1>b, <2>1, <2>2
    <3>2. m \in live /\ L = Len(kids[m]) /\ i \in DOMAIN kids[m]
      BY <1>a, <3>1, Basics
    <3> QED
      BY <2>1, <3>1, <3>2, KeptIdle
  <2>3. CASE i > L
    <3>1. i - L \in 1..Len(items) /\ i = L + (i - L)
      BY <1>1, <2>1, <2>3
    <3> QED
      BY <1>b, <2>1, <3>1
  <2> QED
    BY <2>1, <2>2, <2>3
<1>7. ASSUME m \in live, NEW i \in KeptIn(kids, <<>>, m) PROVE i \in 1..L /\ i \in KeptIn(kids', <<>>, m)
  <2>1. i \in 1..L /\ kids[m][i] # Hole
    BY <1>a, <1>7, Basics DEF KeptIn
  <2>2. i \in 1..L + Len(items) /\ kids'[m][i] # Hole
    BY <1>1, <1>b, <2>1
  <2> QED
    BY <1>1, <2>1, <2>2, KeptIdle
<1>8. ASSUME NEW i \in 1..Len(items) PROVE L + i \in KeptIn(kids', <<>>, m) /\ L + i \in Places
  <2>1. L + i \in 1..L + Len(items) /\ kids'[m][L + i] # Hole
    BY <1>1, <1>b
  <2>2. L + i \in Places
    BY <1>1, <1>a, <2>1, HeapAssumption DEF Places
  <2> QED
    BY <1>1, <2>1, <2>2, KeptIdle
<1>9. ASSUME NEW a \in live'
      PROVE  LET new == {<<m, L + i>> : i \in {i \in DOMAIN items : items[i] = a}}
             IN  /\ RefsIn(live', kids', <<>>, a) = RefsIn(live, kids, <<>>, a) \cup new
                 /\ RefsIn(live, kids, <<>>, a) \cap new = {}
  <2> DEFINE at == {i \in DOMAIN items : items[i] = a}
             new == {<<m, L + i>> : i \in at}
  <2>1. new \subseteq RefsIn(live', kids', <<>>, a)
    <3> SUFFICES ASSUME NEW i \in at PROVE <<m, L + i>> \in RefsIn(live', kids', <<>>, a)
      OBVIOUS
    <3>1. i \in 1..Len(items) /\ kids'[m][L + i] = a
      BY <1>1, <1>b
    <3>2. L + i \in KeptIn(kids', <<>>, m) /\ L + i \in Places
      BY <1>8, <3>1
    <3> QED
      BY <1>a, <3>1, <3>2 DEF RefsIn
  <2>2. RefsIn(live, kids, <<>>, a) \subseteq RefsIn(live', kids', <<>>, a)
    <3> SUFFICES ASSUME NEW q \in live, NEW i \in Places, i \in KeptIn(kids, <<>>, q), kids[q][i] = a
                 PROVE  i \in KeptIn(kids', <<>>, q) /\ kids'[q][i] = a
      BY <1>a DEF RefsIn
    <3>1. CASE q = m
      BY <1>7, <1>b, <3>1
    <3>2. CASE q # m
      BY <1>5, <1>b, <3>2, Basics
    <3> QED
      BY <3>1, <3>2
  <2>3. ASSUME NEW q \in live', NEW i \in Places, i \in KeptIn(kids', <<>>, q), kids'[q][i] = a
        PROVE  <<q, i>> \in RefsIn(live, kids, <<>>, a) \/ <<q, i>> \in new
    <3>1. CASE q # m
      BY <1>5, <1>a, <1>b, <2>3, <3>1, Basics DEF RefsIn
    <3>2. CASE q = m /\ i - L \in 1..Len(items) /\ kids'[m][i] = items[i - L] /\ i \in Nat
      <4>1. i - L \in at /\ i = L + (i - L)
        BY <1>1, <2>3, <3>2
      <4> QED
        BY <3>2, <4>1
    <3>3. CASE q = m /\ m \in live /\ i \in KeptIn(kids, <<>>, m) /\ kids'[m][i] = kids[m][i]
      BY <2>3, <3>3 DEF RefsIn
    <3> QED
      BY <1>6, <2>3, <3>1, <3>2, <3>3
  <2>4. RefsIn(live, kids, <<>>, a) \cap new = {}
    <3> SUFFICES ASSUME NEW i \in at, <<m, L + i>> \in RefsIn(live, kids, <<>>, a) PROVE FALSE
      OBVIOUS
    <3>1. m \in live /\ L + i \in KeptIn(kids, <<>>, m)
      BY DEF RefsIn
    <3>2. L + i \in 1..L /\ i \in 1..Len(items)
      BY <1>1, <1>7, <3>1
    <3> QED
      BY <1>1, <3>2
  <2>5. \A x \in RefsIn(live', kids', <<>>, a) : x \in RefsIn(live, kids, <<>>, a) \/ x \in new
    BY <2>3 DEF RefsIn
  <2> QED
    BY <2>1, <2>2, <2>4, <2>5
<1>10. ASSUME NEW a \in live'
       PROVE  Cardinality(RefsIn(live', kids', <<>>, a)) = Cardinality(RefsIn(live, kids, <<>>, a)) + Occurs(a, items)
  <2> DEFINE new == {<<m, L + i>> : i \in {i \in DOMAIN items : items[i] = a}}
             old == RefsIn(live, kids, <<>>, a)
  <2>1. IsFiniteSet(new) /\ Cardinality(new) = Occurs(a, items) /\ Occurs(a, items) \in Nat
    BY NewReferences
  <2>2. IsFiniteSet(old) /\ Cardinality(old) \in Nat
    BY Basics, RefsAreFinite
  <2>3. Cardinality(old \cup new) = Cardinality(old) + Cardinality(new) - Cardinality(old \cap new)
    BY <2>1, <2>2, FS_Union
  <2>4. Cardinality(old \cap new) = 0
    BY <1>9, FS_EmptySet
  <2>5. RefsIn(live', kids', <<>>, a) = old \cup new
    BY <1>9
  <2>6. Cardinality(old \cup new) = Cardinality(old) + Occurs(a, items)
    <3> HIDE DEF old, new
    <3> QED
      BY <2>1, <2>2, <2>3, <2>4
  <2> QED
    BY <2>5, <2>6
<1>11. CountsAreReferences'
  <2>1. ASSUME NEW a \in live' PROVE count'[a] = held'[a] + Cardinality(RefsIn(live', kids', <<>>, a))
    <3>1. /\ Cardinality(RefsIn(live, kids, <<>>, a)) \in Nat /\ Occurs(a, items) \in Nat
          /\ IsFiniteSet(RefsIn(live, kids, <<>>, a))
      BY Basics, RefsAreFinite, NewReferences
    <3>2. CASE a \in live
      <4>1. held[a] \in Nat /\ count[a] = held[a] + Cardinality(RefsIn(live, kids, <<>>, a))
        BY <1>a, <3>2, Basics
      <4>2. count'[a] = count[a] + Occurs(a, items) /\ held'[a] = held[a]
        BY <1>c, <3>2
      <4> QED
        BY <1>10, <3>1, <4>1, <4>2
    <3>3. CASE a \notin live
      <4>1. a = m /\ count'[a] = 1 /\ held'[a] = 1
        BY <1>a, <1>c, <3>3
      <4>2. RefsIn(live, kids, <<>>, a) = {}
        <5> SUFFICES ASSUME NEW q \in live, NEW i \in KeptIn(kids, <<>>, q), kids[q][i] = a PROVE FALSE
          BY DEF RefsIn
        <5>1. i \in Kept(q)
          BY <1>a, Basics
        <5> QED
          BY <3>3, <5>1 DEF HeapInv, NothingDangles
      <4>3. Occurs(a, items) = 0
        <5>1. {i \in DOMAIN items : items[i] = a} = {}
          BY <1>1, <3>3
        <5> QED
          BY <5>1, FS_EmptySet DEF Occurs
      <4>4. Cardinality(RefsIn(live, kids, <<>>, a)) = 0
        BY <4>2, FS_EmptySet
      <4> QED
        BY <1>10, <4>1, <4>3, <4>4
    <3> QED
      BY <3>2, <3>3
  <2> QED
    BY <1>4, <1>a, <2>1, StateThen DEF CountsAreReferences
<1>12. NothingDangles'
  <2>1. ASSUME NEW a \in live', NEW i \in KeptIn(kids', <<>>, a) PROVE kids'[a][i] \in live
    <3>1. CASE a # m
      <4>1. a \in live /\ i \in Kept(a) /\ kids'[a][i] = kids[a][i]
        BY <1>5, <1>a, <1>b, <2>1, <3>1, Basics
      <4> QED
        BY <4>1 DEF HeapInv, NothingDangles
    <3>2. CASE a = m
      <4>1. CASE m \in live /\ i \in KeptIn(kids, <<>>, m) /\ kids'[m][i] = kids[m][i]
        BY <1>a, <3>2, <4>1, Basics DEF HeapInv, NothingDangles
      <4>2. CASE i - L \in 1..Len(items) /\ kids'[m][i] = items[i - L]
        BY <1>1, <3>2, <4>2
      <4> QED
        BY <1>6, <2>1, <3>2, <4>1, <4>2
    <3> QED
      BY <3>1, <3>2
  <2>2. Held' \subseteq live'
    BY <1>a, <1>c DEF HeapInv, NothingDangles, Held
  <2>3. DOMAIN calls' = {} /\ calls' = <<>>
    BY <1>a
  <2> QED
    BY <1>a, <2>1, <2>2, <2>3, StateThen DEF NothingDangles
<1>13. OneRelease' /\ ZeroIsReleased'
  <2>1. DOMAIN calls = {} /\ DOMAIN calls' = {}
    BY <1>a
  <2>2. ASSUME NEW a \in live' PROVE count'[a] # 0
    <3>1. CASE a \in live
      <4>1. count[a] \in Nat /\ count[a] # 0
        BY <2>1, <3>1, Basics DEF HeapInv, ZeroIsReleased
      <4>2. Occurs(a, items) \in Nat
        BY NewReferences
      <4> QED
        BY <1>c, <3>1, <4>1, <4>2
    <3>2. CASE a \notin live
      BY <1>a, <1>c, <3>2
    <3> QED
      BY <3>1, <3>2
  <2> QED
    BY <2>1, <2>2 DEF OneRelease, ZeroIsReleased
<1> QED
  BY <1>2, <1>3, <1>11, <1>12, <1>13

(* There is room for one more reference in a variable. *)
LEMMA HeldBound ==
    ASSUME HeapInv, AllHeld < MaxHeld, NEW o \in Addr
    PROVE  held[o] + 1 \in 0..MaxHeld /\ 1 \in 0..MaxHeld
<1> DEFINE refs == {r \in Addr \X (1..MaxHeld) : r[2] <= held[r[1]]}
           mine == {o} \X (1..held[o])
<1>1. held \in [Addr -> 0..MaxHeld] /\ MaxHeld \in Nat /\ held[o] \in Nat /\ held[o] <= MaxHeld
  BY Basics
<1>2. IsFiniteSet(1..MaxHeld) /\ IsFiniteSet(1..held[o]) /\ Cardinality(1..held[o]) = held[o]
  BY <1>1, FS_Interval
<1>3. IsFiniteSet(live \X (1..MaxHeld))
  BY <1>2, Basics, FS_Product
<1>4. refs \in SUBSET (live \X (1..MaxHeld))
  <2> SUFFICES ASSUME NEW a \in Addr, NEW n \in 1..MaxHeld, n <= held[a] PROVE a \in live
    BY <1>1
  <2>1. a \in Held
    BY <1>1 DEF Held
  <2> QED
    BY <2>1, HeldIsCounted
<1>5. IsFiniteSet(refs) /\ Cardinality(refs) \in Nat
  BY <1>3, <1>4, FS_Subset, FS_CardinalityType
<1>6. mine \in SUBSET refs
  BY <1>1
<1>7. Cardinality(mine) = held[o]
  <2>1. IsFiniteSet({o}) /\ Cardinality({o}) = 1
    BY FS_Singleton
  <2>2. Cardinality(mine) = Cardinality({o}) * Cardinality(1..held[o])
    BY <1>2, <2>1, FS_Product
  <2>3. \A n \in Nat : 1 * n = n
    OBVIOUS
  <2> QED
    BY <1>1, <1>2, <2>1, <2>2, <2>3
<1>8. held[o] <= Cardinality(refs)
  BY <1>5, <1>6, <1>7, FS_Subset
<1>9. Cardinality(refs) < MaxHeld
  BY DEF AllHeld
<1> HIDE DEF refs
<1> QED
  BY <1>1, <1>5, <1>8, <1>9

LEMMA AllocFacts ==
    ASSUME HeapInv, NEW o \in Addr, Alloc(o)
    PROVE  /\ calls = <<>> /\ making = NoMap /\ o \notin live /\ live' = live \cup {o}
           /\ held' \in [Addr -> 0..MaxHeld] /\ held'[o] = 1
           /\ \A a \in Addr : a # o => held'[a] = held[a]
           /\ o \notin Held /\ Held' = Held \cup {o}
<1>1. /\ calls = <<>> /\ making = NoMap /\ o \notin live /\ live' = live \cup {o} /\ AllHeld < MaxHeld
      /\ held' = [held EXCEPT ![o] = 1]
  BY DEF Alloc, Idle
<1>2. held' \in [Addr -> 0..MaxHeld] /\ held'[o] = 1 /\ \A a \in Addr : a # o => held'[a] = held[a]
  BY <1>1, Basics, HeldBound
<1>3. o \notin Held
  BY <1>1, HeldIsCounted
<1> QED
  BY <1>1, <1>2, <1>3 DEF Held

(* The new value is younger than all there are. *)
LEMMA OrderGrows ==
    ASSUME HeapInv, calls = <<>>, calls' = calls, NEW o \in Addr, o \notin live, live' = live \cup {o},
           \A a \in Addr : a # o => kids'[a] = kids[a],
           \A i \in DOMAIN kids'[o] : kids'[o][i] \in Held,
           \A k \in DOMAIN making'.pairs : making'.obj = o /\ making'.pairs[k] \in Held \X Held
    PROVE  Ordered(live, kids, calls, making)'
<1>1. PICK age \in [Addr -> Nat], oldest \in Nat :
          Older(age, live, kids, calls, making) /\ \A a \in live : age[a] <= oldest
  BY DEF HeapInv, Ordered
<1> DEFINE ages == [age EXCEPT ![o] = oldest + 1]
<1>2. /\ ages \in [Addr -> Nat] /\ oldest + 1 \in Nat /\ ages[o] = oldest + 1
      /\ \A a \in live : a # o /\ ages[a] = age[a]
  BY Basics
<1>3. \A a \in live' : ages[a] <= oldest + 1
  <2>1. \A a \in live : age[a] \in Nat
    BY Basics
  <2> HIDE DEF ages
  <2> QED
    BY <1>1, <1>2, <2>1
<1>4. \A a \in Held : ages[a] < ages[o]
  <2>1. \A a \in Held : a \in live /\ age[a] \in Nat /\ age[a] <= oldest
    BY <1>1, HeldIsCounted
  <2> HIDE DEF ages
  <2> QED
    BY <1>2, <2>1
<1>5. ASSUME NEW a \in live', NEW i \in KeptIn(kids', calls', a) PROVE ages[kids'[a][i]] < ages[a]
  <2>1. CASE a = o
    BY <1>4, <1>5, <2>1 DEF KeptIn
  <2>2. CASE a # o
    <3>1. a \in live /\ kids'[a] = kids[a] /\ i \in KeptIn(kids, calls, a)
      BY <1>5, <2>2, Basics DEF KeptIn
    <3>2. kids[a][i] \in live
      BY <3>1, Basics DEF HeapInv, NothingDangles
    <3> QED
      BY <1>1, <1>2, <3>1, <3>2 DEF Older
  <2> QED
    BY <2>1, <2>2
<1>6. \A k \in DOMAIN making'.pairs : /\ ages[making'.pairs[k][1]] < ages[making'.obj]
                                      /\ ages[making'.pairs[k][2]] < ages[making'.obj]
  BY <1>4
<1>7. Older(ages, live', kids', calls', making')
  BY <1>5, <1>6 DEF Older
<1> HIDE DEF ages
<1> QED
  BY <1>2, <1>3, <1>7 DEF Ordered

LEMMA SeqsToHeld ==
    ASSUME NEW n \in Nat, NEW S, NEW s \in SeqsTo(S, n)
    PROVE  s \in Seq(S) /\ Len(s) <= n
<1>1. PICK k \in 0..n : s \in [1..k -> S]
  BY DEF SeqsTo
<1>2. s \in Seq(S) /\ Len(s) = k
  BY <1>1
<1> QED
  BY <1>1, <1>2

LEMMA MakeListKeeps ==
    ASSUME HeapInv, NEW o \in Addr, NEW items \in Seq(Held), Len(items) <= MaxKids, MakeList(o, items)
    PROVE  HeapInv'
<1>1. /\ Alloc(o) /\ kids' = [kids EXCEPT ![o] = items] /\ UNCHANGED <<calls, making>>
      /\ count' = [a \in Addr |-> IF a = o THEN 1 ELSE count[a] + Occurs(a, items)]
  BY DEF MakeList
<1>2. /\ calls = <<>> /\ making = NoMap /\ o \notin live /\ live' = live \cup {o}
      /\ held' \in [Addr -> 0..MaxHeld] /\ held'[o] = 1
      /\ \A a \in Addr : a # o => held'[a] = held[a]
      /\ o \notin Held /\ Held' = Held \cup {o}
  BY <1>1, AllocFacts
<1>3. items \in Seq(Slot)
  BY HeldIsCounted DEF Slot
<1>4. kids' \in [Addr -> Seq(Slot)] /\ kids'[o] = items /\ \A a \in Addr : a # o => kids'[a] = kids[a]
  BY <1>1, <1>3, Basics
<1>5. Puts(o, 0, items)
  <2>1. 0 + Len(items) <= MaxKids + 2 * MaxPairs /\ Len(items) = 0 + Len(items)
    BY HeapAssumption
  <2>2. \A i \in 1..0 : kids'[o][i] = kids[o][i]
    OBVIOUS
  <2>3. \A i \in 1..Len(items) : kids'[o][0 + i] = items[i]
    BY <1>4
  <2>4. \A a : Occurs(a, items) \in Nat
    BY NewReferences
  <2>5. count' \in [Addr -> Nat] /\ \A a \in live : count'[a] = count[a] + Occurs(a, items)
    BY <1>1, <1>2, <2>4, Basics
  <2>6. \A a \in live : held'[a] = held[a]
    BY <1>2, Basics
  <2>7. count'[o] = 1
    BY <1>1
  <2>8. calls = <<>> /\ calls' = calls
    BY <1>1, <1>2
  <2> QED
    BY <1>2, <1>4, <2>1, <2>2, <2>3, <2>5, <2>6, <2>7, <2>8 DEF Puts
<1>6. /\ CountsAreReferences' /\ NothingDangles' /\ OneRelease' /\ ZeroIsReleased'
      /\ IsFiniteSet(live') /\ \A a \in live' : Len(kids'[a]) <= MaxKids + 2 * MaxPairs
  BY <1>5, Growing
<1>7. Ordered(live, kids, calls, making)'
  <2>1. \A i \in DOMAIN kids'[o] : kids'[o][i] \in Held
    BY <1>4
  <2>2. DOMAIN making'.pairs = {} /\ calls' = calls
    BY <1>1, <1>2 DEF NoMap
  <2> QED
    BY <1>2, <1>4, <2>1, <2>2, OrderGrows
<1>8. Made'
  BY <1>1, <1>2 DEF Made
<1>9. Sized'
  <2>1. ASSUME NEW a \in live', NEW i \in DOMAIN kids'[a], kids'[a][i] = Hole PROVE FALSE
    <3>1. CASE a = o
      BY <1>4, <2>1, <3>1, HeldIsCounted, HeapAssumption
    <3>2. CASE a # o
      BY <1>2, <1>4, <2>1, <3>2, Basics DEF HeapInv, Sized, NoMap
    <3> QED
      BY <3>1, <3>2
  <2>2. calls' \in Seq(Activations)
    BY <1>1, Basics
  <2> QED
    BY <1>6, <2>1, <2>2 DEF Sized
<1> QED
  BY <1>6, <1>7, <1>8, <1>9 DEF HeapInv

LEMMA MakeMapKeeps ==
    ASSUME HeapInv, NEW o \in Addr, NEW pairs \in Seq(Held \X Held), Len(pairs) <= MaxPairs, MakeMap(o, pairs)
    PROVE  HeapInv'
<1>1. /\ Alloc(o) /\ kids' = [kids EXCEPT ![o] = <<>>] /\ UNCHANGED calls
      /\ count' = [count EXCEPT ![o] = 1]
      /\ making' = [obj |-> o, pairs |-> pairs, into |-> 0]
  BY DEF MakeMap
<1>2. /\ calls = <<>> /\ making = NoMap /\ o \notin live /\ live' = live \cup {o}
      /\ held' \in [Addr -> 0..MaxHeld] /\ held'[o] = 1
      /\ \A a \in Addr : a # o => held'[a] = held[a]
      /\ o \notin Held /\ Held' = Held \cup {o}
  BY <1>1, AllocFacts
<1>3. <<>> \in Seq(Slot) /\ <<>> \in Seq(Held) /\ Len(<<>>) = 0
  OBVIOUS
<1>4. kids' \in [Addr -> Seq(Slot)] /\ kids'[o] = <<>> /\ \A a \in Addr : a # o => kids'[a] = kids[a]
  BY <1>1, <1>3, Basics
<1>5. Puts(o, 0, <<>>)
  <2>1. 0 + Len(<<>>) <= MaxKids + 2 * MaxPairs /\ Len(<<>>) = 0 + Len(<<>>)
    BY HeapAssumption
  <2>2. \A i \in 1..0 : kids'[o][i] = kids[o][i]
    OBVIOUS
  <2>3. \A i \in 1..Len(<<>>) : kids'[o][0 + i] = <<>>[i]
    BY <1>3
  <2>4. \A a : Occurs(a, <<>>) = 0
    BY FS_EmptySet DEF Occurs
  <2>5. count' \in [Addr -> Nat] /\ \A a \in live : count'[a] = count[a] + Occurs(a, <<>>)
    BY <1>1, <1>2, <2>4, Basics
  <2>6. \A a \in live : held'[a] = held[a]
    BY <1>2, Basics
  <2>7. count'[o] = 1
    BY <1>1, Basics
  <2>8. calls = <<>> /\ calls' = calls
    BY <1>1, <1>2
  <2> QED
    BY <1>2, <1>3, <1>4, <2>1, <2>2, <2>3, <2>5, <2>6, <2>7, <2>8 DEF Puts
<1>6. /\ CountsAreReferences' /\ NothingDangles' /\ OneRelease' /\ ZeroIsReleased'
      /\ IsFiniteSet(live') /\ \A a \in live' : Len(kids'[a]) <= MaxKids + 2 * MaxPairs
  BY <1>3, <1>5, Growing
<1>7. making'.obj = o /\ making'.pairs = pairs /\ making'.into = 0
  BY <1>1
<1>8. Ordered(live, kids, calls, making)'
  <2>1. \A i \in DOMAIN kids'[o] : kids'[o][i] \in Held
    BY <1>4
  <2>2. \A k \in DOMAIN making'.pairs : making'.obj = o /\ making'.pairs[k] \in Held \X Held
    BY <1>7
  <2>3. calls' = calls
    BY <1>1
  <2> QED
    BY <1>2, <1>4, <2>1, <2>2, <2>3, OrderGrows
<1>9. Made'
  <2>1. pairs \in Seq(Addr \X Addr)
    BY DEF Held
  <2>2. making' \in Makings
    BY <1>1, <2>1 DEF Makings
  <2>3. \A k \in DOMAIN making'.pairs : making'.pairs[k] \in Held' \X Held'
    BY <1>2, <1>7
  <2>4. Len(kids'[o]) = 0
    BY <1>3, <1>4
  <2>5. 0 % 2 = 0 /\ 0 + 2 * Len(pairs) <= 2 * MaxPairs /\ ~ (0 > 0)
    BY HeapAssumption
  <2> QED
    BY <1>2, <1>7, <2>2, <2>3, <2>4, <2>5 DEF Made
<1>10. Sized'
  <2>1. ASSUME NEW a \in live', NEW i \in DOMAIN kids'[a], kids'[a][i] = Hole PROVE FALSE
    <3>1. CASE a = o
      BY <1>4, <2>1, <3>1
    <3>2. CASE a # o
      BY <1>2, <1>4, <2>1, <3>2, Basics DEF HeapInv, Sized, NoMap
    <3> QED
      BY <3>1, <3>2
  <2>2. calls' \in Seq(Activations)
    BY <1>1, Basics
  <2> QED
    BY <1>6, <2>1, <2>2 DEF Sized
<1> QED
  BY <1>6, <1>8, <1>9, <1>10 DEF HeapInv

LEMMA InsertKeeps ==
    ASSUME HeapInv, Insert
    PROVE  HeapInv'
<1> DEFINE m == making.obj
           items == <<Key, Value>>
           L == Len(kids[m])
<1>0. /\ making # NoMap /\ calls = <<>> /\ making.pairs # <<>> /\ making.into = 0
      /\ kids' = [kids EXCEPT ![m] = kids[m] \o items]
      /\ count' = [a \in Addr |-> count[a] + Occurs(a, items)]
      /\ making' = Following
      /\ UNCHANGED <<live, held, calls>>
  BY DEF Insert, Making, Slots
<1>1. /\ m \in live /\ m \in Held /\ m \in Addr /\ kids[m] \in Seq(Slot)
      /\ \A k \in DOMAIN making.pairs : making.pairs[k] \in Held \X Held
  BY <1>0, MadeIsHeld, Basics
<1>2. /\ Key \in Held /\ Value \in Held /\ Key \in Addr /\ Value \in Addr
      /\ Key # Hole /\ Value # Hole /\ Key \in Slot /\ Value \in Slot
  BY <1>0, PairInHand, HeldIsCounted, HeapAssumption DEF Slot
<1>3. /\ items \in Seq(Held) /\ items \in Seq(Slot) /\ Len(items) = 2 /\ DOMAIN items = 1..2
      /\ items[1] = Key /\ items[2] = Value /\ L \in Nat
  BY <1>1, <1>2
<1>4. /\ kids'[m] = kids[m] \o items /\ kids' \in [Addr -> Seq(Slot)]
      /\ \A a \in Addr : a # m => kids'[a] = kids[a]
  <2>1. kids[m] \o items \in Seq(Slot)
    BY <1>1, <1>3
  <2> HIDE DEF items, L
  <2> QED
    BY <1>0, <1>1, <2>1, Basics
<1>5. /\ Len(kids'[m]) = L + 2 /\ DOMAIN kids'[m] = 1..L + 2
      /\ \A i \in 1..L : kids'[m][i] = kids[m][i]
      /\ kids'[m][L + 1] = Key /\ kids'[m][L + 2] = Value
  BY <1>1, <1>3, <1>4
<1>6. /\ L % 2 = 0 /\ L + 2 * Len(making.pairs) <= 2 * MaxPairs
      /\ Len(Following.pairs) = Len(making.pairs) - 1 /\ Len(making.pairs) \in Nat
      /\ 1 \in DOMAIN making.pairs /\ making \in Makings
  BY <1>0, PairInHand, MadeIsHeld DEF HeapInv, Made
<1>7. 1 <= Len(making.pairs) /\ Len(Following.pairs) \in Nat
  <2>1. making.pairs \in Seq(Addr \X Addr)
    BY <1>6 DEF Makings
  <2> QED
    BY <1>6, <2>1
<1>8. L + 2 <= MaxKids + 2 * MaxPairs /\ L + 2 + 2 * Len(Following.pairs) <= 2 * MaxPairs
  <2>1. \A l, p, q, x, k \in Nat : l + 2 * p <= 2 * x /\ 1 <= p /\ q = p - 1
                                     => l + 2 <= k + 2 * x /\ l + 2 + 2 * q <= 2 * x
    OBVIOUS
  <2>2. MaxPairs \in Nat /\ MaxKids \in Nat
    BY HeapAssumption
  <2> QED
    BY <1>3, <1>6, <1>7, <2>1, <2>2
<1>9. Puts(m, L, items)
  <2>1. \A i \in 1..Len(items) : kids'[m][L + i] = items[i]
    BY <1>3, <1>5
  <2>2. \A a : Occurs(a, items) \in Nat
    BY <1>3, NewReferences
  <2>3. count' \in [Addr -> Nat] /\ \A a \in live : count'[a] = count[a] + Occurs(a, items)
    <3> HIDE DEF items
    <3> QED
      BY <1>0, <2>2, Basics
  <2>4. held' = held /\ held' \in [Addr -> 0..MaxHeld] /\ live' = live \cup {m} /\ calls' = calls
    BY <1>0, <1>1, Basics
  <2> HIDE DEF m, L, items
  <2> QED
    BY <1>0, <1>1, <1>3, <1>4, <1>5, <1>8, <2>1, <2>3, <2>4 DEF Puts, L
<1>10. /\ CountsAreReferences' /\ NothingDangles' /\ OneRelease' /\ ZeroIsReleased'
       /\ IsFiniteSet(live') /\ \A a \in live' : Len(kids'[a]) <= MaxKids + 2 * MaxPairs
  BY <1>1, <1>3, <1>9, Growing
<1>11. Ordered(live, kids, calls, making)'
  <2>1. PICK age \in [Addr -> Nat], oldest \in Nat :
            Older(age, live, kids, calls, making) /\ \A o \in live : age[o] <= oldest
    BY DEF HeapInv, Ordered
  <2>2. age[Key] < age[m] /\ age[Value] < age[m]
    BY <1>0, <2>1, PairInHand DEF Older
  <2>3. ASSUME NEW a \in live, NEW i \in KeptIn(kids', <<>>, a) PROVE age[kids'[a][i]] < age[a]
    <3>1. CASE a = m
      <4>1. i \in 1..L \/ i = L + 1 \/ i = L + 2
        BY <1>3, <1>5, <2>3, <3>1 DEF KeptIn
      <4>2. CASE i \in 1..L
        <5>1. i \in KeptIn(kids, <<>>, m) /\ kids'[m][i] = kids[m][i]
          BY <1>1, <1>5, <2>3, <3>1, <4>2 DEF KeptIn
        <5> QED
          BY <1>0, <1>1, <2>1, <3>1, <5>1 DEF Older
      <4> QED
        BY <1>5, <2>2, <3>1, <4>1, <4>2
    <3>2. CASE a # m
      <4>1. kids'[a] = kids[a] /\ i \in KeptIn(kids, <<>>, a)
        BY <1>4, <2>3, <3>2, Basics DEF KeptIn
      <4> QED
        BY <1>0, <2>1, <4>1 DEF Older
    <3> QED
      BY <3>1, <3>2
  <2>4. \A k \in DOMAIN Following.pairs : /\ age[Following.pairs[k][1]] < age[m]
                                          /\ age[Following.pairs[k][2]] < age[m]
    BY <1>0, <1>1, <2>1, PairInHand DEF Older
  <2>5. Following.obj = m
    BY <1>0, PairInHand
  <2>6. Older(age, live, kids', calls', making')
    BY <1>0, <2>3, <2>4, <2>5 DEF Older
  <2>7. live' = live
    BY <1>0
  <2> QED
    BY <2>1, <2>6, <2>7 DEF Ordered
<1>12. Made'
  <2>1. Held' = Held
    BY <1>0 DEF Held
  <2>2. \A k \in DOMAIN Following.pairs : Following.pairs[k] \in Held \X Held
    BY <1>0, <1>1, PairInHand
  <2>3. Following \in Makings /\ Following.obj = m /\ Following.into = 0
    BY <1>0, PairInHand
  <2>4. (L + 2) % 2 = 0
    <3>1. \A l \in Nat : l % 2 = 0 => (l + 2) % 2 = 0
      OBVIOUS
    <3> QED
      BY <1>3, <1>6, <3>1
  <2>5. making'.obj = m /\ making'.pairs = Following.pairs /\ making'.into = 0 /\ making' \in Makings
    BY <1>0, <2>3
  <2>6. /\ \A k \in DOMAIN making'.pairs : making'.pairs[k] \in Held' \X Held'
        /\ making'.obj \in Held'
    BY <1>1, <2>1, <2>2, <2>5
  <2>7. /\ Len(kids'[making'.obj]) % 2 = 0
        /\ Len(kids'[making'.obj]) + 2 * Len(making'.pairs) <= 2 * MaxPairs
    BY <1>5, <1>8, <2>4, <2>5, Zenon
  <2>8. ~ (making'.into > 0)
    BY <2>5
  <2> QED
    BY <2>5, <2>6, <2>7, <2>8 DEF Made
<1>13. Sized'
  <2>1. ASSUME NEW a \in live', NEW i \in DOMAIN kids'[a], kids'[a][i] = Hole PROVE FALSE
    <3>1. CASE a = m
      <4>1. i \in 1..L \/ i = L + 1 \/ i = L + 2
        BY <1>3, <1>5, <2>1, <3>1
      <4>2. CASE i \in 1..L
        <5>1. kids[m][i] = Hole /\ i \in DOMAIN kids[m] /\ i # 0
          BY <1>1, <1>5, <2>1, <3>1, <4>2
        <5> QED
          BY <1>0, <1>1, <5>1 DEF HeapInv, Sized
      <4> QED
        BY <1>2, <1>5, <2>1, <3>1, <4>1, <4>2
    <3>2. CASE a # m
      BY <1>0, <1>4, <2>1, <3>2, Basics DEF HeapInv, Sized
    <3> QED
      BY <3>1, <3>2
  <2>2. calls' \in Seq(Activations)
    BY <1>0, Basics
  <2> QED
    BY <1>10, <2>1, <2>2 DEF Sized
<1> QED
  BY <1>10, <1>11, <1>12, <1>13 DEF HeapInv

LEMMA MapMadeKeeps ==
    ASSUME HeapInv, MapMade
    PROVE  HeapInv'
<1>1. making # NoMap /\ making.pairs = <<>> /\ making' = NoMap /\ UNCHANGED <<live, count, kids, held, calls>>
  BY DEF MapMade
<1>2. CountsAreReferences' /\ NothingDangles' /\ OneRelease' /\ ZeroIsReleased'
  <2>1. TypeOK'
    BY <1>1, Basics DEF TypeOK
  <2>2. \A o : References(o)' = References(o) /\ Kept(o)' = Kept(o)
    BY <1>1, StateThen, KeptIsKeptIn, ReferencesAreRefsIn
  <2>3. CountsAreReferences'
    BY <1>1, <2>1, <2>2 DEF HeapInv, CountsAreReferences
  <2>4. NothingDangles'
    BY <1>1, <2>2 DEF HeapInv, NothingDangles, Held
  <2> QED
    BY <1>1, <2>3, <2>4 DEF HeapInv, OneRelease, ZeroIsReleased
<1>3. Made' /\ DOMAIN making'.pairs = {}
  BY <1>1 DEF Made, NoMap
<1>4. Sized'
  <2>1. ~ (making.into > 0)
    BY <1>1 DEF HeapInv, Made
  <2>2. making.into \in Nat
    BY <1>1, MadeIsHeld DEF Makings
  <2>3. making.into = 0
    BY <2>1, <2>2
  <2>4. \A a \in live : \A i \in DOMAIN kids[a] : i # 0
    BY Basics
  <2> QED
    BY <1>1, <2>3, <2>4 DEF HeapInv, Sized
<1>5. Ordered(live, kids, calls, making)'
  <2>1. \A a \in live : \A i \in KeptIn(kids, calls, a) : i \in Kept(a) /\ kids[a][i] = kids[a][i]
    BY KeptIsKeptIn
  <2>2. Ordered(live, kids, calls, making')
    BY <1>3, <2>1, OrderStays
  <2> QED
    BY <1>1, <2>2
<1> QED
  BY <1>2, <1>3, <1>4, <1>5 DEF HeapInv

-----------------------------------------------------------------------------
(* The code that uses values *)

(* It reaches what is alive only. *)
LEMMA LiveIsClosed ==
    ASSUME HeapInv, calls = <<>>
    PROVE  Closed(live) /\ Reachable \subseteq live
<1>1. Held \subseteq live /\ live \subseteq Addr
  BY Basics DEF HeapInv, NothingDangles
<1>2. ASSUME NEW o \in live PROVE Kids(o) \subseteq live
  <2>1. \A i \in DOMAIN kids[o] : kids[o][i] # Hole => i \in Kept(o)
    BY Basics, KeptIdle
  <2> QED
    BY <2>1 DEF Kids, HeapInv, NothingDangles
<1> QED
  BY <1>1, <1>2 DEF Closed, Reachable

LEMMA RetainKeeps ==
    ASSUME HeapInv, NEW o \in Addr, Retain(o)
    PROVE  HeapInv'
<1>1. /\ calls = <<>> /\ making = NoMap /\ AllHeld < MaxHeld /\ o \in Reachable
      /\ count' = [count EXCEPT ![o] = @ + 1] /\ held' = [held EXCEPT ![o] = @ + 1]
      /\ UNCHANGED <<live, kids, calls, making>>
  BY DEF Retain, Idle
<1>2. o \in live
  BY <1>1, LiveIsClosed
<1>3. /\ count' \in [Addr -> Nat] /\ held' \in [Addr -> 0..MaxHeld]
      /\ \A a \in Addr : count'[a] = count[a] + (IF a = o THEN 1 ELSE 0)
      /\ \A a \in Addr : held'[a] = held[a] + (IF a = o THEN 1 ELSE 0)
  BY <1>1, Basics, HeldBound
<1>4. CountsAreReferences'
  <2>1. TypeOK'
    BY <1>1, <1>3, Basics DEF TypeOK
  <2>2. ASSUME NEW a \in live PROVE count'[a] = held'[a] + Cardinality(RefsIn(live, kids, calls, a))
    <3>1. /\ a \in Addr /\ held[a] \in Nat /\ Cardinality(RefsIn(live, kids, calls, a)) \in Nat
          /\ count[a] = held[a] + Cardinality(RefsIn(live, kids, calls, a))
      BY Basics, RefsAreFinite
    <3> QED
      BY <1>3, <3>1
  <2> QED
    BY <1>1, <2>1, <2>2, StateThen DEF CountsAreReferences
<1>5. Held' \subseteq live
  <2>1. \A a \in Addr : a # o => held'[a] = held[a]
    BY <1>1, Basics
  <2> QED
    BY <1>2, <2>1 DEF Held, HeapInv, NothingDangles
<1>6. NothingDangles'
  <2>1. \A a \in live : \A i \in KeptIn(kids, calls, a) : kids[a][i] \in live
    BY KeptIsKeptIn DEF HeapInv, NothingDangles
  <2>2. DOMAIN calls' = {}
    BY <1>1
  <2> QED
    BY <1>1, <1>5, <2>1, <2>2, StateThen DEF NothingDangles
<1>7. OneRelease' /\ ZeroIsReleased'
  <2>1. DOMAIN calls = {} /\ DOMAIN calls' = {}
    BY <1>1
  <2>2. ASSUME NEW a \in live PROVE count'[a] # 0
    <3>1. a \in Addr /\ count[a] \in Nat /\ count[a] # 0
      BY <2>1, Basics DEF HeapInv, ZeroIsReleased
    <3> QED
      BY <1>3, <3>1
  <2> QED
    BY <1>1, <2>1, <2>2 DEF OneRelease, ZeroIsReleased
<1> QED
  BY <1>1, <1>4, <1>6, <1>7 DEF HeapInv, Made, Sized

LEMMA FreeKeeps ==
    ASSUME HeapInv, Free
    PROVE  HeapInv'
<1> DEFINE p == Top.obj
           L == Len(calls)
<1>0. /\ calls # <<>> /\ Top.next > Len(kids[p]) /\ live' = live \ {p}
      /\ kids' = [kids EXCEPT ![p] = <<>>]
      /\ calls' = SubSeq(calls, 1, L - 1)
      /\ UNCHANGED <<count, held, making>>
  BY DEF Free
<1>1. /\ L \in DOMAIN calls /\ DOMAIN calls = 1..L /\ L \in Nat /\ Top = calls[L]
      /\ calls[L] \in Activations
  BY <1>0, Basics DEF Top
<1>2. p \in Addr /\ p \in live /\ count[p] = 0 /\ Top.next \in Nat
  BY <1>1 DEF Activations, HeapInv, NothingDangles
<1>3. /\ calls' \in Seq(Activations) /\ DOMAIN calls' = 1..L - 1
      /\ \A d \in 1..L - 1 : calls'[d] = calls[d] /\ d \in DOMAIN calls
  BY <1>0, <1>1, Basics
<1>4. \A d \in DOMAIN calls : calls[d].obj = p => d = L
  BY <1>1 DEF HeapInv, OneRelease
<1>5. /\ kids' \in [Addr -> Seq(Slot)] /\ kids'[p] = <<>>
      /\ \A a \in Addr : a # p => kids'[a] = kids[a]
  <2>1. <<>> \in Seq(Slot)
    OBVIOUS
  <2> QED
    BY <1>0, <1>2, <2>1, Basics
<1>6. KeptIn(kids, calls, p) = {}
  <2> SUFFICES ASSUME NEW i \in KeptIn(kids, calls, p) PROVE FALSE
    OBVIOUS
  <2>1. i \in 1..Len(kids[p]) /\ i >= Top.next
    BY <1>1, <1>2, Basics DEF KeptIn
  <2>2. Len(kids[p]) \in Nat
    BY <1>2, Basics
  <2> QED
    BY <1>0, <1>2, <2>1, <2>2
<1>7. ASSUME NEW a \in live, a # p PROVE KeptIn(kids', calls', a) = KeptIn(kids, calls, a) /\ kids'[a] = kids[a]
  <2>1. kids'[a] = kids[a]
    BY <1>5, <1>7, Basics
  <2>2. \A d \in DOMAIN calls : d \in 1..L - 1 \/ calls[d].obj = p
    BY <1>1
  <2>3. \A i : (\A d \in DOMAIN calls' : calls'[d].obj = a => i >= calls'[d].next)
                 <=> (\A d \in DOMAIN calls : calls[d].obj = a => i >= calls[d].next)
    BY <1>3, <1>7, <2>2
  <2> QED
    BY <2>1, <2>3 DEF KeptIn
<1>8. \A a : RefsIn(live', kids', calls', a) = RefsIn(live, kids, calls, a)
  <2> TAKE a
  <2>1. ASSUME NEW q \in live, NEW i \in Places
        PROVE  (q \in live' /\ i \in KeptIn(kids', calls', q) /\ kids'[q][i] = a)
                 <=> (i \in KeptIn(kids, calls, q) /\ kids[q][i] = a)
    BY <1>0, <1>6, <1>7
  <2>2. live' \subseteq live
    BY <1>0
  <2> QED
    BY <2>1, <2>2 DEF RefsIn
<1>9. ASSUME NEW a \in live, NEW i \in Kept(a) PROVE kids[a][i] \in live /\ kids[a][i] # p
  BY <1>1, PointedIsCounted DEF HeapInv, NothingDangles
<1>10. p \notin Held
  BY <1>1, HeldIsCounted
<1>11. CountsAreReferences'
  <2>1. live' \subseteq live /\ live \subseteq Addr
    BY <1>0, Basics
  <2>2. \A d \in DOMAIN calls' : calls'[d].obj \in Addr /\ calls'[d].next \in Nat \ {0}
    <3>1. \A d \in DOMAIN calls' : calls'[d] \in Activations
      BY <1>3
    <3> QED
      BY <3>1 DEF Activations
  <2>3. TypeOK'
    BY <1>0, <1>5, <2>1, <2>2, Basics DEF TypeOK, Slot
  <2>4. \A a \in live' : count'[a] = held'[a] + Cardinality(RefsIn(live', kids', calls', a))
    BY <1>0, <1>8, <2>1, Basics
  <2> QED
    BY <2>3, <2>4, StateThen DEF CountsAreReferences
<1>12. NothingDangles'
  <2>1. Held' \subseteq live'
    BY <1>0, <1>10 DEF Held, HeapInv, NothingDangles
  <2>2. ASSUME NEW a \in live', NEW i \in KeptIn(kids', calls', a) PROVE kids'[a][i] \in live'
    <3>1. a \in live /\ a # p
      BY <1>0
    <3>2. i \in Kept(a) /\ kids'[a][i] = kids[a][i]
      BY <1>7, <2>2, <3>1, KeptIsKeptIn
    <3> QED
      BY <1>0, <1>9, <3>1, <3>2
  <2>3. ASSUME NEW d \in DOMAIN calls' PROVE calls'[d].obj \in live' /\ count'[calls'[d].obj] = 0
    <3>1. d \in 1..L - 1 /\ calls'[d] = calls[d] /\ d \in DOMAIN calls
      BY <1>3
    <3>2. calls[d].obj # p
      BY <1>1, <1>4, <3>1
    <3> QED
      BY <1>0, <3>1, <3>2 DEF HeapInv, NothingDangles
  <2> QED
    BY <2>1, <2>2, <2>3, StateThen DEF NothingDangles
<1>13. OneRelease'
  BY <1>3 DEF OneRelease, HeapInv
<1>14. ZeroIsReleased'
  <2> SUFFICES ASSUME NEW a \in live', count[a] = 0 PROVE \E d \in DOMAIN calls' : calls'[d].obj = a
    BY <1>0 DEF ZeroIsReleased
  <2>1. a \in live /\ a # p
    BY <1>0
  <2>2. PICK d \in DOMAIN calls : calls[d].obj = a
    BY <2>1 DEF HeapInv, ZeroIsReleased
  <2>3. d \in 1..L - 1
    BY <1>1, <2>1, <2>2
  <2> QED
    BY <1>3, <2>2, <2>3
<1>15. Ordered(live, kids, calls, making)'
  <2>1. live' \in SUBSET live
    BY <1>0
  <2>2. \A a \in live' : \A i \in KeptIn(kids', calls', a) : i \in Kept(a) /\ kids'[a][i] = kids[a][i]
    BY <1>0, <1>7, KeptIsKeptIn
  <2> QED
    BY <1>0, <2>1, <2>2, OrderStays
<1>16. Made'
  <2>1. making # NoMap => making.obj \in Addr /\ making.obj # p
    BY <1>1, MadeIsHeld
  <2>2. Held' = Held
    BY <1>0 DEF Held
  <2>3. making # NoMap => kids'[making.obj] = kids[making.obj]
    BY <1>5, <2>1
  <2> QED
    BY <1>0, <2>2, <2>3 DEF HeapInv, Made
<1>17. Sized'
  <2>1. IsFiniteSet(live')
    BY <1>0, Basics, FS_RemoveElement
  <2>2. \A a \in live' : a \in live /\ kids'[a] = kids[a]
    BY <1>0, <1>7
  <2> QED
    BY <1>0, <1>3, <2>1, <2>2 DEF HeapInv, Sized
<1> QED
  BY <1>11, <1>12, <1>13, <1>14, <1>15, <1>16, <1>17 DEF HeapInv

-----------------------------------------------------------------------------
(* The invariant is inductive.                                             *)
LEMMA HeapIsSound == Spec => []HeapInv
<1>1. Init => HeapInv
  <2> SUFFICES ASSUME Init PROVE HeapInv
    OBVIOUS
  <2>1. live = {} /\ calls = <<>> /\ making = NoMap /\ Held = {}
    BY DEF Init, Held
  <2>2. TypeOK
    BY HeapAssumption DEF Init, TypeOK
  <2>3. CountsAreReferences /\ NothingDangles /\ OneRelease /\ ZeroIsReleased /\ Made
    BY <2>1, <2>2 DEF CountsAreReferences, NothingDangles, OneRelease, ZeroIsReleased, Made
  <2>4. Sized
    BY <2>1, FS_EmptySet DEF Sized
  <2>5. Ordered(live, kids, calls, making)
    <3>1. [o \in Addr |-> 0] \in [Addr -> Nat] /\ 0 \in Nat
      OBVIOUS
    <3>2. Older([o \in Addr |-> 0], live, kids, calls, making) /\ \A o \in live : [a \in Addr |-> 0][o] <= 0
      BY <2>1 DEF Older, NoMap
    <3> QED
      BY <3>1, <3>2 DEF Ordered
  <2> QED
    BY <2>3, <2>4, <2>5 DEF HeapInv
<1>2. HeapInv /\ [Next]_vars => HeapInv'
  <2> SUFFICES ASSUME HeapInv, [Next]_vars PROVE HeapInv'
    OBVIOUS
  <2>1. ASSUME NEW o \in Addr, MakeLeaf(o) PROVE HeapInv'
    <3>1. <<>> \in Seq(Held) /\ Len(<<>>) <= MaxKids
      BY HeapAssumption
    <3> QED
      BY <2>1, <3>1, MakeListKeeps DEF MakeLeaf
  <2>2. ASSUME NEW o \in Addr, NEW items \in SeqsTo(Held, MaxKids), MakeList(o, items) PROVE HeapInv'
    BY <2>2, HeapAssumption, SeqsToHeld, MakeListKeeps
  <2>3. ASSUME NEW o \in Addr, NEW pairs \in SeqsTo(Held \X Held, MaxPairs), MakeMap(o, pairs) PROVE HeapInv'
    BY <2>3, HeapAssumption, SeqsToHeld, MakeMapKeeps
  <2>4. ASSUME NEW o \in Addr, Retain(o) \/ Release(o) PROVE HeapInv'
    BY <2>4, RetainKeeps, ReleaseKeeps
  <2>5. CASE Insert \/ Replace \/ Replaced \/ MapMade
    BY <2>5, InsertKeeps, ReplaceKeeps, ReplacedKeeps, MapMadeKeeps
  <2>6. CASE ReleaseKid \/ Free
    BY <2>6, ReleaseKidKeeps, FreeKeeps
  <2>7. CASE UNCHANGED vars
    BY <2>7, StateThen, KeptIsKeptIn, ReferencesAreRefsIn
       DEF vars, HeapInv, CountsAreReferences, NothingDangles, TypeOK, Held, Sized, Made, OneRelease,
           ZeroIsReleased
  <2> QED
    BY <2>1, <2>2, <2>3, <2>4, <2>5, <2>6, <2>7 DEF Next
<1> QED
  BY <1>1, <1>2, PTL DEF Spec

(* A value's count is the number of references there are, however values   *)
(* are shared, nested and released (val.c:122, 227, 257-265, 280, 286).    *)
THEOREM CountsAreRight == Spec => []CountsAreReferences
<1>1. HeapInv => CountsAreReferences
  BY DEF HeapInv
<1> QED
  BY <1>1, HeapIsSound, PTL

(* No reference is to memory that was freed (val.c:286-323).               *)
THEOREM ReferencesAreAlive == Spec => []NothingDangles
<1>1. HeapInv => NothingDangles
  BY DEF HeapInv
<1> QED
  BY <1>1, HeapIsSound, PTL

(* When no call is running all that is alive can be reached: otherwise the *)
(* youngest value that cannot is pointed to by a value that can, or held   *)
(* (val.c:306-320).                                                        *)
THEOREM ReleaseIsComplete == Spec => []NothingLeaks
<1>1. HeapInv => NothingLeaks
  <2> SUFFICES ASSUME HeapInv, Idle, NEW o \in live, NEW S \in SUBSET Addr, Closed(S), o \notin S
               PROVE  FALSE
    BY Basics DEF NothingLeaks, Reachable
  <2>0. calls = <<>>
    BY DEF Idle
  <2>1. PICK age \in [Addr -> Nat], oldest \in Nat :
            Older(age, live, kids, calls, making) /\ \A a \in live : age[a] <= oldest
    BY DEF HeapInv, Ordered
  <2> DEFINE lost == {a \in live : a \notin S}
             youth == {n \in Nat : \E a \in lost : n = oldest - age[a]}
  <2>2. PICK n \in youth : \A k \in youth : n <= k
    <3>1. youth # {} /\ youth \subseteq Nat
      <4>1. age[o] \in Nat /\ age[o] <= oldest
        BY <2>1, Basics
      <4>2. oldest - age[o] \in Nat
        BY <4>1
      <4> QED
        BY <4>2
    <3> HIDE DEF youth
    <3>2. youth \in SUBSET Nat
      BY <3>1
    <3> QED
      BY <3>1, <3>2, LeastOfNaturals
  <2>3. PICK a \in lost : n = oldest - age[a]
    OBVIOUS
  <2>4. a \in live /\ a \in Addr /\ age[a] \in Nat
    BY Basics
  <2>5. held[a] = 0
    BY <2>4, Basics DEF Closed, Held
  <2>6. count[a] # 0
    BY <2>0, <2>4 DEF HeapInv, ZeroIsReleased
  <2>7. RefsIn(live, kids, calls, a) # {}
    <3>1. count[a] = held[a] + Cardinality(RefsIn(live, kids, calls, a))
      BY <2>4, Basics
    <3>2. Cardinality(RefsIn(live, kids, calls, a)) # 0
      BY <2>5, <2>6, <3>1
    <3> QED
      BY <3>2, FS_EmptySet
  <2>7a. PICK p \in live : \E i \in KeptIn(kids, calls, p) : kids[p][i] = a
    BY <2>7 DEF RefsIn
  <2>8. PICK i \in KeptIn(kids, calls, p) : kids[p][i] = a
    BY <2>7a
  <2>9. age[a] < age[p] /\ age[p] \in Nat /\ age[p] <= oldest
    BY <2>1, <2>8, Basics DEF Older
  <2>10. p \in S
    <3> SUFFICES ASSUME p \notin S PROVE FALSE
      OBVIOUS
    <3>1. oldest - age[p] \in youth
      BY <2>9
    <3>2. n <= oldest - age[p]
      BY <2>2, <3>1
    <3> QED
      BY <2>3, <2>4, <2>9, <3>2
  <2>11. a \in Kids(p)
    BY <2>8 DEF KeptIn, Kids
  <2> QED
    BY <2>10, <2>11 DEF Closed
<1> QED
  BY <1>1, HeapIsSound, PTL
=============================================================================
