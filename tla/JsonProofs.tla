----------------------------- MODULE JsonProofs -----------------------------
(***************************************************************************)
(* Theorems about the JSON conversion, for all values and texts of finite  *)
(* nesting.                                                                *)
(***************************************************************************)
EXTENDS JsonRef, FiniteSetTheorems, SequenceTheorems, WellFoundedInduction, TLAPS

-----------------------------------------------------------------------------
(* Recursion over the natural numbers *)

(* Of natural numbers there is a least one. *)
LEMMA LeastOfNaturals ==
    ASSUME NEW S \in SUBSET Nat, S # {}
    PROVE  \E n \in S : \A k \in S : n <= k
<1> DEFINE R == {ss \in Nat \X Nat : ss[1] < ss[2]}
<1>1. IsWellFoundedOn(R, Nat)
  BY NatLessThanWellFounded DEF OpToRel
<1>2. PICK n \in S : \A k \in S : <<k, n>> \notin R
  <2> HIDE DEF R
  <2> QED
    BY <1>1, WFMin
<1>3. ASSUME NEW k \in S PROVE n <= k
  <2>1. k \in Nat /\ n \in Nat /\ <<k, n>> \notin R
    BY <1>2
  <2>2. ~ (k < n)
    BY <2>1
  <2> QED
    BY <2>1, <2>2
<1> QED
  BY <1>3

(* A set that has 0 and, with a number, the next one has them all. *)
LEMMA Induct ==
    ASSUME NEW S, 0 \in S, \A n \in Nat : n \in S => n + 1 \in S
    PROVE  \A n \in Nat : n \in S
<1> SUFFICES ASSUME Nat \ S # {} PROVE FALSE
  OBVIOUS
<1>1. PICK n \in Nat \ S : \A k \in Nat \ S : n <= k
  BY LeastOfNaturals
<1>2. n \in Nat /\ n # 0
  BY <1>1
<1>3. n - 1 \in Nat /\ ~ (n <= n - 1) /\ n - 1 + 1 = n
  BY <1>2
<1>4. n - 1 \in S
  BY <1>1, <1>3
<1> QED
  BY <1>1, <1>3, <1>4

(* Values that are made of no others, and those made of values from V.     *)
Plains == {v \in Unmapped({}) : v.type # "list"}
Composed(V) ==
    [type : {"list"}, items : Seq(V)]
    \cup {[type |-> "map", of |-> g] :
              g \in UNION {[D -> V] : D \in {D \in SUBSET V : IsFiniteSet(D)}}}

(* The n-th of what is made one after the other: trees and values of n     *)
(* levels, what a value is made of in n steps, the size of a tree with n   *)
(* of its items.                                                           *)
Iterate(what, a, f, n) ==
    CASE what = "trees" -> IF n = 0 THEN Scalars ELSE Scalars \cup Branches(f[n - 1])
      [] what = "values" -> IF n = 0 THEN Plains ELSE Plains \cup Composed(f[n - 1])
      [] what = "within" -> IF n = 0 THEN {a} ELSE f[n - 1] \cup UNION {Kids(w) : w \in f[n - 1]}
      [] what = "size" -> IF n = 0 THEN 1 ELSE f[n - 1] + a[1][a[2].items[n][2]]
Recurs(what, a, f) == f = [n \in Nat |-> Iterate(what, a, f, n)]
SolvesBelow(what, a, f, d) == \A n \in Nat : n < d => f[n] = Iterate(what, a, f, n)

(* Only the one before it counts. *)
LEMMA BodyAgrees ==
    ASSUME NEW what, NEW a, NEW f, NEW g, NEW n \in Nat, n # 0 => f[n - 1] = g[n - 1]
    PROVE  Iterate(what, a, f, n) = Iterate(what, a, g, n)
  BY DEF Iterate

(* Up to every bound there is a function that satisfies the recursion. *)
LEMMA SolvedBelow ==
    ASSUME NEW what, NEW a, NEW d \in Nat
    PROVE  \E f : SolvesBelow(what, a, f, d)
<1>1. \E f : SolvesBelow(what, a, f, 0)
  BY DEF SolvesBelow
<1>2. ASSUME NEW e \in Nat, NEW f, SolvesBelow(what, a, f, e)
      PROVE  \E g : SolvesBelow(what, a, g, e + 1)
  <2> DEFINE g == [n \in Nat |-> Iterate(what, a, f, n)]
  <2>1. \A n \in Nat : g[n] = Iterate(what, a, f, n)
    OBVIOUS
  <2>2. \A n \in Nat : n < e => f[n] = Iterate(what, a, f, n)
    BY <1>2 DEF SolvesBelow
  <2> HIDE DEF g
  <2>3. ASSUME NEW n \in Nat, n < e + 1 PROVE g[n] = Iterate(what, a, g, n)
    <3>1. n # 0 => n - 1 \in Nat /\ n - 1 < e
      BY <2>3
    <3>2. n # 0 => f[n - 1] = g[n - 1]
      BY <2>1, <2>2, <3>1
    <3> QED
      BY <2>1, <3>2, BodyAgrees
  <2> QED
    BY <2>3 DEF SolvesBelow
<1> DEFINE Solved == {e \in Nat : \E f : SolvesBelow(what, a, f, e)}
<1>3. 0 \in Solved /\ \A e \in Nat : e \in Solved => e + 1 \in Solved
  BY <1>1, <1>2
<1> HIDE DEF Solved
<1>4. d \in Solved
  BY <1>3, Induct
<1> QED
  BY <1>4 DEF Solved

(* Two functions that satisfy it are alike wherever both do. *)
LEMMA SolvedAlike ==
    ASSUME NEW what, NEW a, NEW d \in Nat, NEW e \in Nat, NEW f, NEW g,
           SolvesBelow(what, a, f, d), SolvesBelow(what, a, g, e),
           NEW n \in Nat, n < d, n < e
    PROVE  f[n] = g[n]
<1> DEFINE Differ == {m \in Nat : m < d /\ m < e /\ f[m] # g[m]}
<1> SUFFICES ASSUME Differ # {} PROVE FALSE
  OBVIOUS
<1>1. Differ \in SUBSET Nat
  OBVIOUS
<1>2. PICK m \in Differ : \A k \in Differ : m <= k
  <2> HIDE DEF Differ
  <2> QED
    BY <1>1, LeastOfNaturals
<1>3. m \in Nat /\ m < d /\ m < e /\ f[m] # g[m]
  BY <1>2
<1>4. m # 0 => f[m - 1] = g[m - 1]
  BY <1>2, <1>3
<1>5. f[m] = Iterate(what, a, f, m) /\ g[m] = Iterate(what, a, g, m)
  BY <1>3 DEF SolvesBelow
<1> QED
  BY <1>3, <1>4, <1>5, BodyAgrees

(* So there is one function that satisfies it everywhere. *)
LEMMA RecursionExists == ASSUME NEW what, NEW a PROVE \E f : Recurs(what, a, f)
<1> DEFINE part(n) == CHOOSE f : SolvesBelow(what, a, f, n + 1)
           h == [n \in Nat |-> part(n)[n]]
<1>1. ASSUME NEW n \in Nat PROVE SolvesBelow(what, a, part(n), n + 1)
  <2>1. n + 1 \in Nat
    OBVIOUS
  <2> QED
    BY <2>1, SolvedBelow
<1> HIDE DEF part
<1>2. ASSUME NEW n \in Nat PROVE h[n] = Iterate(what, a, h, n)
  <2>1. h[n] = part(n)[n]
    OBVIOUS
  <2>2. part(n)[n] = Iterate(what, a, part(n), n)
    BY <1>1 DEF SolvesBelow
  <2>3. n # 0 => part(n)[n - 1] = h[n - 1]
    <3> SUFFICES ASSUME n # 0 PROVE part(n)[n - 1] = h[n - 1]
      OBVIOUS
    <3>1. n - 1 \in Nat /\ n - 1 < n + 1 /\ n - 1 < n - 1 + 1 /\ n + 1 \in Nat /\ n - 1 + 1 \in Nat
      OBVIOUS
    <3>2. SolvesBelow(what, a, part(n), n + 1) /\ SolvesBelow(what, a, part(n - 1), n - 1 + 1)
      BY <1>1, <3>1
    <3>3. part(n)[n - 1] = part(n - 1)[n - 1]
      BY <3>1, <3>2, SolvedAlike
    <3> QED
      BY <3>1, <3>3
  <2> QED
    BY <2>1, <2>2, <2>3, BodyAgrees
<1>3. h = [n \in Nat |-> h[n]]
  OBVIOUS
<1> HIDE DEF h
<1>4. h = [n \in Nat |-> Iterate(what, a, h, n)]
  BY <1>2, <1>3
<1> QED
  BY <1>4 DEF Recurs

-----------------------------------------------------------------------------
(* Trees *)

(* The levels of trees, as their recursion says. *)
LEMMA TreesToAre ==
    /\ TreesTo(0) = Scalars
    /\ \A n \in Nat : TreesTo(n + 1) = Scalars \cup Branches(TreesTo(n))
<1> DEFINE h == CHOOSE f : Recurs("trees", 0, f)
<1>1. Recurs("trees", 0, h)
  BY RecursionExists
<1>2. \A n : TreesTo(n) = h[n]
  BY DEF TreesTo, Recurs, Iterate
<1> HIDE DEF h
<1>3. \A n \in Nat : h[n] = IF n = 0 THEN Scalars ELSE Scalars \cup Branches(h[n - 1])
  BY <1>1 DEF Recurs, Iterate
<1>4. ASSUME NEW n \in Nat PROVE h[n + 1] = Scalars \cup Branches(h[n])
  <2>1. PICK m \in Nat : m = n + 1 /\ m # 0 /\ m - 1 = n
    OBVIOUS
  <2>2. h[m] = Scalars \cup Branches(h[m - 1])
    BY <1>3, <2>1, Zenon
  <2> QED
    BY <2>1, <2>2, Zenon
<1>5. h[0] = Scalars
  BY <1>3
<1> QED
  BY <1>2, <1>4, <1>5, Zenon

(* The levels of values. *)
ValsTo(n) ==
    LET to[k \in Nat] == IF k = 0 THEN Plains ELSE Plains \cup Composed(to[k - 1])
    IN  to[n]
Vals == ValsTo(Levels)

LEMMA ValsToAre ==
    /\ ValsTo(0) = Plains
    /\ \A n \in Nat : ValsTo(n + 1) = Plains \cup Composed(ValsTo(n))
<1> DEFINE h == CHOOSE f : Recurs("values", 0, f)
<1>1. Recurs("values", 0, h)
  BY RecursionExists
<1>2. \A n : ValsTo(n) = h[n]
  BY DEF ValsTo, Recurs, Iterate
<1> HIDE DEF h
<1>3. \A n \in Nat : h[n] = IF n = 0 THEN Plains ELSE Plains \cup Composed(h[n - 1])
  BY <1>1 DEF Recurs, Iterate
<1>4. ASSUME NEW n \in Nat PROVE h[n + 1] = Plains \cup Composed(h[n])
  <2>1. PICK m \in Nat : m = n + 1 /\ m # 0 /\ m - 1 = n
    OBVIOUS
  <2>2. h[m] = Plains \cup Composed(h[m - 1])
    BY <1>3, <2>1, Zenon
  <2> QED
    BY <2>1, <2>2, Zenon
<1>5. h[0] = Plains
  BY <1>3
<1> QED
  BY <1>2, <1>4, <1>5, Zenon

(* So much of a value, as its recursion says; Within is all of it. *)
Upto(v, n) ==
    LET upto[k \in Nat] == IF k = 0 THEN {v} ELSE upto[k - 1] \cup UNION {Kids(w) : w \in upto[k - 1]}
    IN  upto[n]

LEMMA UptoAre ==
    ASSUME NEW v
    PROVE  /\ Upto(v, 0) = {v}
           /\ \A n \in Nat : Upto(v, n + 1) = Upto(v, n) \cup UNION {Kids(w) : w \in Upto(v, n)}
           /\ Within(v) = Upto(v, Levels)
<1> DEFINE h == CHOOSE f : Recurs("within", v, f)
<1>1. Recurs("within", v, h)
  BY RecursionExists
<1>2. \A n : Upto(v, n) = h[n]
  BY DEF Upto, Recurs, Iterate
<1> HIDE DEF h
<1>3. \A n \in Nat : h[n] = IF n = 0 THEN {v} ELSE h[n - 1] \cup UNION {Kids(w) : w \in h[n - 1]}
  BY <1>1 DEF Recurs, Iterate
<1>4. ASSUME NEW n \in Nat PROVE h[n + 1] = h[n] \cup UNION {Kids(w) : w \in h[n]}
  <2>1. PICK m \in Nat : m = n + 1 /\ m # 0 /\ m - 1 = n
    OBVIOUS
  <2>2. h[m] = h[m - 1] \cup UNION {Kids(w) : w \in h[m - 1]}
    BY <1>3, <2>1, Zenon
  <2> QED
    BY <2>1, <2>2, Zenon
<1>5. h[0] = {v} /\ Within(v) = Upto(v, Levels)
  BY <1>3 DEF Within, Upto
<1> QED
  BY <1>2, <1>4, <1>5, Zenon

(* The size of a tree with its first i items. *)
Sized(sizes, tree, i) ==
    LET upto[k \in Nat] == IF k = 0 THEN 1 ELSE upto[k - 1] + sizes[tree.items[k][2]]
    IN  upto[i]

LEMMA SizedAre ==
    ASSUME NEW sizes, NEW tree
    PROVE  /\ Sized(sizes, tree, 0) = 1
           /\ \A i \in Nat : Sized(sizes, tree, i + 1) = Sized(sizes, tree, i) + sizes[tree.items[i + 1][2]]
           /\ SizeBy(sizes, tree) = IF IsBranch(tree) THEN Sized(sizes, tree, Len(tree.items)) ELSE 1
<1>0. PICK a : a = <<sizes, tree>>
  OBVIOUS
<1> DEFINE h == CHOOSE f : Recurs("size", a, f)
<1>1. Recurs("size", a, h)
  BY RecursionExists
<1>2. \A n : Sized(sizes, tree, n) = h[n]
  BY <1>0 DEF Sized, Recurs, Iterate
<1> HIDE DEF h
<1>3. \A n \in Nat : h[n] = IF n = 0 THEN 1 ELSE h[n - 1] + sizes[tree.items[n][2]]
  BY <1>0, <1>1 DEF Recurs, Iterate
<1>4. ASSUME NEW n \in Nat PROVE h[n + 1] = h[n] + sizes[tree.items[n + 1][2]]
  <2>1. n + 1 \in Nat /\ n + 1 # 0 /\ n + 1 - 1 = n
    OBVIOUS
  <2> QED
    BY <1>3, <2>1
<1>5. SizeBy(sizes, tree) = IF IsBranch(tree) THEN Sized(sizes, tree, Len(tree.items)) ELSE 1
  BY DEF SizeBy, Sized
<1> QED
  BY <1>2, <1>3, <1>4, <1>5

-----------------------------------------------------------------------------
(* Kinds of trees and of values *)

LEMMA TreeKinds ==
    ASSUME NEW n \in Nat, NEW t \in TreesTo(n)
    PROVE  /\ t.json \in {"null", "bool", "number", "string", "array", "object"}
           /\ t.json = "null" => t = [json |-> "null"]
           /\ t.json = "bool" => t.is \in BOOLEAN /\ t = [json |-> "bool", is |-> t.is]
           /\ t.json = "number" => t.double \in Double /\ t = [json |-> "number", double |-> t.double]
           /\ t.json = "string" => t.chars \in Seq(Char) /\ t = [json |-> "string", chars |-> t.chars]
           /\ IsBranch(t) => /\ n # 0 /\ n - 1 \in Nat
                             /\ t.items \in Seq(Seq(Char) \X TreesTo(n - 1))
                             /\ t = [json |-> t.json, items |-> t.items]
<1>1. n # 0 => n - 1 \in Nat /\ n = n - 1 + 1
  OBVIOUS
<1>2. t \in Scalars \/ (n # 0 /\ t \in Branches(TreesTo(n - 1)))
  <2>1. CASE n = 0
    BY <2>1, TreesToAre
  <2>2. CASE n # 0
    <3>1. PICK m \in Nat : n = m + 1 /\ n - 1 = m
      BY <2>2
    <3>2. TreesTo(n) = Scalars \cup Branches(TreesTo(m))
      BY <3>1, TreesToAre, Zenon
    <3> QED
      BY <2>2, <3>1, <3>2
  <2> QED
    BY <2>1, <2>2
<1>3. CASE t \in Scalars
  BY <1>3 DEF Scalars, IsBranch
<1>4. CASE n # 0 /\ t \in Branches(TreesTo(n - 1))
  BY <1>1, <1>4 DEF Branches, IsBranch
<1> QED
  BY <1>2, <1>3, <1>4

LEMMA ScalarsAre == \A n \in Nat : Scalars \subseteq TreesTo(n)
<1>1. ASSUME NEW n \in Nat PROVE Scalars \subseteq TreesTo(n)
  <2>1. n # 0 => n - 1 \in Nat /\ n = n - 1 + 1
    OBVIOUS
  <2> QED
    BY <2>1, TreesToAre
<1> QED
  BY <1>1

LEMMA BranchesAre ==
    ASSUME NEW n \in Nat, NEW items \in Seq(Seq(Char) \X TreesTo(n)), NEW what \in {"array", "object"}
    PROVE  [json |-> what, items |-> items] \in TreesTo(n + 1)
<1>1. [json |-> what, items |-> items] \in Branches(TreesTo(n))
  BY DEF Branches
<1> QED
  BY <1>1, TreesToAre

(* Trees of some levels are trees of more. *)
LEMMA TreesMore == \A n \in Nat : TreesTo(n) \subseteq TreesTo(n + 1)
<1> DEFINE S == {n \in Nat : TreesTo(n) \subseteq TreesTo(n + 1)}
<1>1. 0 \in S
  BY TreesToAre
<1>2. ASSUME NEW n \in Nat, TreesTo(n) \subseteq TreesTo(n + 1)
      PROVE  TreesTo(n + 1) \subseteq TreesTo(n + 1 + 1)
  <2>1. Branches(TreesTo(n)) \subseteq Branches(TreesTo(n + 1))
    BY <1>2 DEF Branches
  <2> QED
    BY <2>1, TreesToAre
<1>3. \A n \in Nat : n \in S => n + 1 \in S
  BY <1>2
<1> HIDE DEF S
<1>4. \A n \in Nat : n \in S
  BY <1>1, <1>3, Induct
<1> QED
  BY <1>4 DEF S

LEMMA ValKinds ==
    ASSUME NEW n \in Nat, NEW v \in ValsTo(n)
    PROVE  /\ v.type \in Unsupported \cup {"nil", "bool", "int", "float", "string", "list", "map"}
           /\ v.type = "nil" => v = NilVal
           /\ v.type = "bool" => v.is \in BOOLEAN /\ v = [type |-> "bool", is |-> v.is]
           /\ v.type = "int" => v.n \in Int64 /\ v = [type |-> "int", n |-> v.n]
           /\ v.type = "float" => v.double \in Double /\ v = [type |-> "float", double |-> v.double]
           /\ v.type = "string" => v.chars \in Seq(Char) /\ v = [type |-> "string", chars |-> v.chars]
           /\ v.type \in {"list", "map"} => n # 0 /\ n - 1 \in Nat
           /\ v.type = "list" => v.items \in Seq(ValsTo(n - 1)) /\ v = [type |-> "list", items |-> v.items]
           /\ v.type = "map" => /\ v = [type |-> "map", of |-> v.of]
                                /\ IsFiniteSet(DOMAIN v.of) /\ DOMAIN v.of \subseteq ValsTo(n - 1)
                                /\ v.of \in [DOMAIN v.of -> ValsTo(n - 1)]
<1>1. n # 0 => n - 1 \in Nat /\ n = n - 1 + 1
  OBVIOUS
<1>2. v \in Plains \/ (n # 0 /\ v \in Composed(ValsTo(n - 1)))
  <2>1. CASE n = 0
    BY <2>1, ValsToAre
  <2>2. CASE n # 0
    <3>1. PICK m \in Nat : n = m + 1 /\ n - 1 = m
      BY <2>2
    <3>2. ValsTo(n) = Plains \cup Composed(ValsTo(m))
      BY <3>1, ValsToAre, Zenon
    <3> QED
      BY <2>2, <3>1, <3>2
  <2> QED
    BY <2>1, <2>2
<1>3. CASE v \in Plains
  BY <1>3 DEF Plains, Unmapped, Unsupported, NilVal
<1>4. CASE n # 0 /\ v \in Composed(ValsTo(n - 1))
  <2>1. CASE v \in [type : {"list"}, items : Seq(ValsTo(n - 1))]
    BY <1>1, <1>4, <2>1 DEF Unsupported
  <2>2. CASE v \notin [type : {"list"}, items : Seq(ValsTo(n - 1))]
    <3>1. PICK D \in SUBSET ValsTo(n - 1) :
            IsFiniteSet(D) /\ \E g \in [D -> ValsTo(n - 1)] : v = [type |-> "map", of |-> g]
      BY <1>4, <2>2 DEF Composed
    <3>2. PICK g \in [D -> ValsTo(n - 1)] : v = [type |-> "map", of |-> g]
      BY <3>1
    <3> QED
      BY <1>1, <1>4, <3>1, <3>2 DEF Unsupported
  <2> QED
    BY <2>1, <2>2
<1> QED
  BY <1>2, <1>3, <1>4

LEMMA PlainsAre == \A n \in Nat : Plains \subseteq ValsTo(n)
<1>1. ASSUME NEW n \in Nat PROVE Plains \subseteq ValsTo(n)
  <2>1. n # 0 => n - 1 \in Nat /\ n = n - 1 + 1
    OBVIOUS
  <2> QED
    BY <2>1, ValsToAre
<1> QED
  BY <1>1

LEMMA ListsAre ==
    ASSUME NEW n \in Nat, NEW items \in Seq(ValsTo(n))
    PROVE  [type |-> "list", items |-> items] \in ValsTo(n + 1)
<1>1. [type |-> "list", items |-> items] \in Composed(ValsTo(n))
  BY DEF Composed
<1> QED
  BY <1>1, ValsToAre

LEMMA MapsAre ==
    ASSUME NEW n \in Nat, NEW D \in SUBSET ValsTo(n), IsFiniteSet(D), NEW g \in [D -> ValsTo(n)]
    PROVE  [type |-> "map", of |-> g] \in ValsTo(n + 1)
<1>1. [type |-> "map", of |-> g] \in Composed(ValsTo(n))
  BY DEF Composed
<1> QED
  BY <1>1, ValsToAre

LEMMA ValsMore == \A n \in Nat : ValsTo(n) \subseteq ValsTo(n + 1)
<1> DEFINE S == {n \in Nat : ValsTo(n) \subseteq ValsTo(n + 1)}
<1>1. 0 \in S
  BY ValsToAre
<1>2. ASSUME NEW n \in Nat, ValsTo(n) \subseteq ValsTo(n + 1)
      PROVE  ValsTo(n + 1) \subseteq ValsTo(n + 1 + 1)
  <2>1. Composed(ValsTo(n)) \subseteq Composed(ValsTo(n + 1))
    BY <1>2 DEF Composed
  <2> QED
    BY <2>1, ValsToAre
<1>3. \A n \in Nat : n \in S => n + 1 \in S
  BY <1>2
<1> HIDE DEF S
<1>4. \A n \in Nat : n \in S
  BY <1>1, <1>3, Induct
<1> QED
  BY <1>4 DEF S

(* What a value is made of has fewer levels. *)
LEMMA KidsLower ==
    ASSUME NEW n \in Nat, NEW v \in ValsTo(n), NEW k \in Kids(v)
    PROVE  n # 0 /\ n - 1 \in Nat /\ k \in ValsTo(n - 1)
<1>1. v.type \in {"list", "map"}
  BY DEF Kids
<1>2. CASE v.type = "list"
  BY <1>2, ValKinds DEF Kids, ToSet
<1>3. CASE v.type = "map"
  BY <1>3, ValKinds DEF Kids
<1> QED
  BY <1>1, <1>2, <1>3
LEMMA UptoHasIt == ASSUME NEW v, NEW n \in Nat PROVE v \in Upto(v, n)
<1> DEFINE S == {m \in Nat : v \in Upto(v, m)}
<1>1. 0 \in S
  BY UptoAre
<1>2. \A m \in Nat : m \in S => m + 1 \in S
  BY UptoAre
<1> HIDE DEF S
<1>3. n \in S
  BY <1>1, <1>2, Induct
<1> QED
  BY <1>3 DEF S

(* What a value is made of in one step more is what its kids are made of.  *)
LEMMA UptoKids ==
    ASSUME NEW v, NEW n \in Nat
    PROVE  Upto(v, n + 1) = {v} \cup UNION {Upto(k, n) : k \in Kids(v)}
<1> DEFINE S == {m \in Nat : Upto(v, m + 1) = {v} \cup UNION {Upto(k, m) : k \in Kids(v)}}
<1>1. 0 \in S
  <2>1. Upto(v, 0 + 1) = {v} \cup Kids(v)
    <3>1. Upto(v, 0 + 1) = Upto(v, 0) \cup UNION {Kids(w) : w \in Upto(v, 0)} /\ Upto(v, 0) = {v}
      BY UptoAre, Zenon
    <3> QED
      BY <3>1
  <2>2. \A k : Upto(k, 0) = {k}
    BY UptoAre
  <2> QED
    BY <2>1, <2>2
<1>2. ASSUME NEW m \in Nat, Upto(v, m + 1) = {v} \cup UNION {Upto(k, m) : k \in Kids(v)}
      PROVE  Upto(v, m + 1 + 1) = {v} \cup UNION {Upto(k, m + 1) : k \in Kids(v)}
  <2>0. m + 1 \in Nat
    OBVIOUS
  <2>1. Upto(v, m + 1 + 1) = Upto(v, m + 1) \cup UNION {Kids(w) : w \in Upto(v, m + 1)}
    BY <2>0, UptoAre, Zenon
  <2>2. ASSUME NEW k PROVE Upto(k, m + 1) = Upto(k, m) \cup UNION {Kids(w) : w \in Upto(k, m)}
    BY UptoAre, Zenon
  <2>3. \A k : k \in Upto(k, m + 1)
    BY UptoHasIt
  <2>4. ASSUME NEW x, x \in Upto(v, m + 1 + 1)
        PROVE  x \in {v} \cup UNION {Upto(k, m + 1) : k \in Kids(v)}
    <3>1. CASE x \in Upto(v, m + 1)
      BY <1>2, <2>2, <3>1
    <3>2. CASE x \notin Upto(v, m + 1)
      <4>1. PICK w \in Upto(v, m + 1) : x \in Kids(w)
        BY <2>1, <2>4, <3>2
      <4>2. CASE w = v
        BY <2>3, <4>1, <4>2
      <4>3. CASE w # v
        <5>1. PICK k \in Kids(v) : w \in Upto(k, m)
          BY <1>2, <4>1, <4>3
        <5>2. x \in Upto(k, m + 1)
          BY <2>2, <4>1, <5>1
        <5> QED
          BY <5>1, <5>2
      <4> QED
        BY <4>2, <4>3
    <3> QED
      BY <3>1, <3>2
  <2>5. ASSUME NEW k \in Kids(v), NEW x \in Upto(k, m + 1)
        PROVE  x \in Upto(v, m + 1 + 1)
    <3>1. CASE x \in Upto(k, m)
      BY <1>2, <2>1, <3>1
    <3>2. CASE x \notin Upto(k, m)
      <4>1. PICK w \in Upto(k, m) : x \in Kids(w)
        BY <2>2, <2>5, <3>2
      <4>2. w \in Upto(v, m + 1)
        BY <1>2, <4>1
      <4> QED
        BY <2>1, <4>1, <4>2
    <3> QED
      BY <3>1, <3>2
  <2>6. v \in Upto(v, m + 1 + 1)
    BY <1>2, <2>1
  <2> QED
    BY <2>4, <2>5, <2>6
<1>3. \A m \in Nat : m \in S => m + 1 \in S
  BY <1>2
<1> HIDE DEF S
<1>4. n \in S
  BY <1>1, <1>3, Induct
<1> QED
  BY <1>4 DEF S

(* A value of n levels is taken apart in n steps.                          *)
LEMMA UptoEnough ==
    ASSUME NEW n \in Nat
    PROVE  \A v \in ValsTo(n) : Upto(v, n + 1) = Upto(v, n)
<1> DEFINE S == {m \in Nat : \A v \in ValsTo(m) : Upto(v, m + 1) = Upto(v, m)}
<1>1. 0 \in S
  <2>1. ASSUME NEW v \in ValsTo(0) PROVE Upto(v, 0 + 1) = Upto(v, 0)
    <3>1. Kids(v) = {}
      BY KidsLower
    <3>2. Upto(v, 0 + 1) = Upto(v, 0) \cup UNION {Kids(w) : w \in Upto(v, 0)} /\ Upto(v, 0) = {v}
      BY UptoAre, Zenon
    <3> QED
      BY <3>1, <3>2
  <2> QED
    BY <2>1
<1>2. ASSUME NEW m \in Nat, m \in S, NEW v \in ValsTo(m + 1)
      PROVE  Upto(v, m + 1 + 1) = Upto(v, m + 1)
  <2>1. ASSUME NEW k \in Kids(v) PROVE Upto(k, m + 1) = Upto(k, m)
    <3>1. m + 1 \in Nat /\ m + 1 - 1 = m
      OBVIOUS
    <3>2. k \in ValsTo(m)
      BY <3>1, KidsLower
    <3> QED
      BY <1>2, <3>2
  <2>2. m + 1 \in Nat
    OBVIOUS
  <2>3. Upto(v, m + 1 + 1) = {v} \cup UNION {Upto(k, m + 1) : k \in Kids(v)}
    BY <2>2, UptoKids
  <2>4. Upto(v, m + 1) = {v} \cup UNION {Upto(k, m) : k \in Kids(v)}
    BY UptoKids
  <2> QED
    BY <2>1, <2>3, <2>4
<1>3. \A m \in Nat : m \in S => m + 1 \in S
  <2>1. ASSUME NEW m \in Nat, m \in S PROVE m + 1 \in S
    BY <1>2, <2>1
  <2> QED
    BY <2>1
<1> HIDE DEF S
<1>4. n \in S
  BY <1>1, <1>3, Induct
<1> QED
  BY <1>4 DEF S

LEMMA WithinHasIt == ASSUME NEW v PROVE v \in Within(v)
  BY UptoAre, UptoHasIt, TextsAssumption

(* A value is made of itself and of what its kids are made of.             *)
LEMMA WithinIs ==
    ASSUME NEW v \in Vals
    PROVE  Within(v) = {v} \cup UNION {Within(k) : k \in Kids(v)}
<1>1. Levels \in Nat
  BY TextsAssumption
<1>2. Within(v) = Upto(v, Levels + 1)
  BY <1>1, UptoAre, UptoEnough DEF Vals
<1>3. Upto(v, Levels + 1) = {v} \cup UNION {Upto(k, Levels) : k \in Kids(v)}
  BY <1>1, UptoKids
<1>4. \A k : Upto(k, Levels) = Within(k)
  BY UptoAre
<1> QED
  BY <1>2, <1>3, <1>4
-----------------------------------------------------------------------------
(* Recursion over trees and values *)

(* Two trees have the same size up to an item if their items have.         *)
LEMMA SizedAlike ==
    ASSUME NEW f, NEW g, NEW x, NEW y, NEW n \in Nat,
           \A i \in 1 .. n : f[x.items[i][2]] = g[y.items[i][2]]
    PROVE  Sized(f, x, n) = Sized(g, y, n)
<1> DEFINE S == {m \in Nat : m <= n => Sized(f, x, m) = Sized(g, y, m)}
<1>1. 0 \in S
  BY SizedAre
<1>2. ASSUME NEW m \in Nat, m <= n => Sized(f, x, m) = Sized(g, y, m), m + 1 <= n
      PROVE  Sized(f, x, m + 1) = Sized(g, y, m + 1)
  <2>1. /\ Sized(f, x, m + 1) = Sized(f, x, m) + f[x.items[m + 1][2]]
        /\ Sized(g, y, m + 1) = Sized(g, y, m) + g[y.items[m + 1][2]]
    <3>1. \A i \in Nat : Sized(f, x, i + 1) = Sized(f, x, i) + f[x.items[i + 1][2]]
      BY SizedAre
    <3>2. \A i \in Nat : Sized(g, y, i + 1) = Sized(g, y, i) + g[y.items[i + 1][2]]
      BY SizedAre
    <3>3. m \in Nat
      BY <1>2
    <3> QED
      BY ONLY <3>1, <3>2, <3>3
  <2>2. m + 1 \in 1 .. n /\ m <= n
    BY <1>2
  <2> QED
    BY <1>2, <2>1, <2>2
<1>3. \A m \in Nat : m \in S => m + 1 \in S
  BY <1>2
<1> HIDE DEF S
<1>4. n \in S
  BY <1>1, <1>3, Induct
<1> QED
  BY <1>4 DEF S

(* The trees that val_to_cjson makes of a value, of those that are made of *)
(* the values within it.                                                   *)
NameOf(what, key) == IF what = "map" THEN CString(key.chars) ELSE <<>>
JsonOf(what) == IF what = "map" THEN "object" ELSE "array"
MadeBy(made, v) ==
    IF v.type \notin {"list", "map"} THEN {Leaf(v)} \ {NULL}
    ELSE {t \in [json : {JsonOf(v.type)}, items : Seq(Seq(Char) \X Trees)] :
            \E e \in Entries(v) :
                /\ DOMAIN t.items = DOMAIN e
                /\ \A i \in DOMAIN e : /\ v.type = "map" => e[i][1].type = "string"
                                       /\ t.items[i][1] = NameOf(v.type, e[i][1])
                                       /\ t.items[i][2] \in made[e[i][2]]}

LevelOf(what, n) == IF what = "made" THEN ValsTo(n) ELSE TreesTo(n)
Solve(what, f, x) ==
    CASE what = "size" -> SizeBy(f, x)
      [] what = "printed" -> PrintedBy(f, x)
      [] what = "val" -> ConvertBy(f, x)
      [] what = "meaning" -> MeaningBy(f, x)
      [] what = "plain" -> PlainBy(f, x)
      [] what = "made" -> MadeBy(f, x)
Functions == {"size", "printed", "val", "meaning", "plain", "made"}

LEMMA OneToM ==
    ASSUME NEW m \in Nat, NEW s, s = [i \in 1 .. m |-> s[i]]
    PROVE  Len(s) = m /\ \A T : (\A i \in 1 .. m : s[i] \in T) => s \in Seq(T)
<1>1. DOMAIN s = 1 .. m
  OBVIOUS
<1>2. ASSUME NEW T, \A i \in 1 .. m : s[i] \in T PROVE s \in Seq(T)
  <2>1. s \in [1 .. m -> T]
    BY <1>2
  <2> QED
    BY <2>1
<1>3. Len(s) = m
  BY <1>1
<1> QED
  BY <1>2, <1>3

(* As many different elements of a finite set as it has are all of them.   *)
LEMMA InjectionIsOnto ==
    ASSUME NEW D, IsFiniteSet(D), NEW m \in Nat, m = Cardinality(D), NEW f \in [1 .. m -> D],
           \A i, j \in 1 .. m : i # j => f[i] # f[j]
    PROVE  \A k \in D : \E i \in 1 .. m : f[i] = k
<1>1. f \in Injection(1 .. m, D)
  BY DEF Injection, IsInjective
<1>2. Cardinality(1 .. m) = m
  <2>1. 1 \in Int /\ m \in Int
    OBVIOUS
  <2>2. Cardinality(1 .. m) = IF 1 > m THEN 0 ELSE m - 1 + 1
    BY <2>1, FS_Interval, Zenon
  <2> QED
    BY <2>2
<1>3. f \in Surjection(1 .. m, D)
  BY <1>1, <1>2, FS_Injection
<1> QED
  BY <1>3 DEF Surjection

(* Items of a list or map, in an order there is.                           *)
LEMMA EntriesAre ==
    ASSUME NEW n \in Nat, NEW v \in ValsTo(n), v.type \in {"list", "map"}, NEW e \in Entries(v)
    PROVE  /\ \E m \in Nat : DOMAIN e = 1 .. m /\ Len(e) = m
           /\ \A T : (\A i \in DOMAIN e : e[i] \in T) => e \in Seq(T)
           /\ \A i \in DOMAIN e : e[i] = <<e[i][1], e[i][2]>> /\ e[i][2] \in Kids(v)
           /\ v.type = "list" => /\ DOMAIN e = DOMAIN v.items
                                 /\ \A i \in DOMAIN e : e[i][2] = v.items[i]
           /\ v.type = "map" =>
                /\ \A i \in DOMAIN e : e[i][1] \in DOMAIN v.of /\ e[i][2] = v.of[e[i][1]]
                /\ \A i, j \in DOMAIN e : e[i][1] = e[j][1] => i = j
                /\ \A k \in DOMAIN v.of : \E i \in DOMAIN e : e[i][1] = k
<1>1. CASE v.type = "list"
  <2>1. v.items \in Seq(ValsTo(n - 1)) /\ n - 1 \in Nat
    BY <1>1, ValKinds
  <2>2. e = [i \in DOMAIN v.items |-> <<NilVal, v.items[i]>>]
    BY <1>1 DEF Entries
  <2>3. PICK m \in Nat : DOMAIN v.items = 1 .. m
    BY <2>1
  <2>4. \A i \in DOMAIN v.items : v.items[i] \in Kids(v)
    BY <1>1 DEF Kids, ToSet
  <2>5. DOMAIN e = 1 .. m /\ \A i \in 1 .. m : e[i] = <<NilVal, v.items[i]>>
    BY <2>2, <2>3
  <2>6. Len(e) = m /\ \A T : (\A i \in DOMAIN e : e[i] \in T) => e \in Seq(T)
    <3>1. e = [i \in 1 .. m |-> e[i]]
      BY <2>2, <2>5
    <3> QED
      BY <2>5, <3>1, OneToM
  <2>7. v.type # "map"
    BY <1>1
  <2>8. \A i \in DOMAIN e : e[i] = <<e[i][1], e[i][2]>> /\ e[i][2] = v.items[i]
    BY <2>5
  <2> QED
    BY <2>3, <2>4, <2>5, <2>6, <2>7, <2>8
<1>2. CASE v.type = "map"
  <2>1. IsFiniteSet(DOMAIN v.of)
    BY <1>2, ValKinds
  <2>2. PICK keys \in SetToSeqs(DOMAIN v.of) : e = [i \in DOMAIN keys |-> <<keys[i], v.of[keys[i]]>>]
    BY <1>2 DEF Entries
  <2>3. PICK m \in Nat : m = Cardinality(DOMAIN v.of)
    BY <2>1, FS_CardinalityType
  <2>4. /\ keys \in [1 .. m -> DOMAIN v.of]
        /\ \A i, j \in 1 .. m : i # j => keys[i] # keys[j]
    BY <2>2, <2>3 DEF SetToSeqs
  <2>5. \A k \in DOMAIN v.of : \E i \in 1 .. m : keys[i] = k
    BY <2>1, <2>3, <2>4, InjectionIsOnto
  <2>6. DOMAIN e = 1 .. m /\ \A i \in 1 .. m : e[i] = <<keys[i], v.of[keys[i]]>>
    BY <2>2, <2>4
  <2>7. Len(e) = m /\ \A T : (\A i \in DOMAIN e : e[i] \in T) => e \in Seq(T)
    <3>1. e = [i \in 1 .. m |-> e[i]]
      BY <2>2, <2>6
    <3> QED
      BY <2>6, <3>1, OneToM
  <2>8. \A k \in DOMAIN v.of : v.of[k] \in Kids(v)
    BY <1>2 DEF Kids
  <2>9. \A i \in 1 .. m : e[i] = <<e[i][1], e[i][2]>> /\ e[i][1] = keys[i] /\ e[i][2] = v.of[keys[i]]
    BY <2>6
  <2>10. v.type # "list"
    BY <1>2
  <2>11. \A i \in 1 .. m : keys[i] \in DOMAIN v.of
    BY <2>4
  <2>12. \A i \in DOMAIN e : e[i] = <<e[i][1], e[i][2]>> /\ e[i][2] \in Kids(v)
    BY <2>6, <2>8, <2>9, <2>11
  <2>13. /\ \A i \in DOMAIN e : e[i][1] \in DOMAIN v.of /\ e[i][2] = v.of[e[i][1]]
         /\ \A i, j \in DOMAIN e : e[i][1] = e[j][1] => i = j
         /\ \A k \in DOMAIN v.of : \E i \in DOMAIN e : e[i][1] = k
    BY <2>4, <2>5, <2>6, <2>9, <2>11
  <2> QED
    BY <2>6, <2>7, <2>10, <2>12, <2>13
<1> QED
  BY <1>1, <1>2

LEMMA LevelsMore ==
    ASSUME NEW what, NEW n \in Nat
    PROVE  LevelOf(what, n) \subseteq LevelOf(what, n + 1)
  BY TreesMore, ValsMore DEF LevelOf
(* What is said of a tree or a value depends on what is in it only.        *)
LEMMA SolveAgrees ==
    ASSUME NEW what \in Functions, NEW n \in Nat, NEW x \in LevelOf(what, n), NEW f, NEW g,
           n # 0 => \A y \in LevelOf(what, n - 1) : f[y] = g[y]
    PROVE  Solve(what, f, x) = Solve(what, g, x)
<1>1. CASE what = "made"
  <2>1. x \in ValsTo(n) /\ (n # 0 => \A y \in ValsTo(n - 1) : f[y] = g[y])
    BY <1>1 DEF LevelOf
  <2>2. ASSUME x.type \in {"list", "map"}, NEW e \in Entries(x), NEW i \in DOMAIN e
        PROVE  f[e[i][2]] = g[e[i][2]]
    <3>1. e[i][2] \in Kids(x)
      BY <2>1, <2>2, EntriesAre
    <3> QED
      BY <2>1, <3>1, KidsLower
  <2>3. MadeBy(f, x) = MadeBy(g, x)
    <3>1. CASE x.type \notin {"list", "map"}
      BY <3>1 DEF MadeBy
    <3>2. CASE x.type \in {"list", "map"}
      <4> DEFINE Fits(h, t, e) ==
            /\ DOMAIN t.items = DOMAIN e
            /\ \A i \in DOMAIN e : /\ x.type = "map" => e[i][1].type = "string"
                                   /\ t.items[i][1] = NameOf(x.type, e[i][1])
                                   /\ t.items[i][2] \in h[e[i][2]]
      <4>1. \A t : \A e \in Entries(x) : Fits(f, t, e) <=> Fits(g, t, e)
        BY <2>2, <3>2
      <4>2. \A h : MadeBy(h, x) =
                {t \in [json : {JsonOf(x.type)}, items : Seq(Seq(Char) \X Trees)] :
                    \E e \in Entries(x) : Fits(h, t, e)}
        BY <3>2 DEF MadeBy
      <4> HIDE DEF Fits
      <4> QED
        BY <4>1, <4>2
    <3> QED
      BY <3>1, <3>2
  <2> QED
    BY <1>1, <2>3 DEF Solve
<1>2. CASE what # "made"
  <2>1. x \in TreesTo(n) /\ (n # 0 => \A y \in TreesTo(n - 1) : f[y] = g[y])
    BY <1>2 DEF LevelOf
  <2>2. IsBranch(x) => /\ n # 0 /\ x.items \in Seq(Seq(Char) \X TreesTo(n - 1))
                       /\ x.json \in {"array", "object"}
    BY <2>1, TreeKinds DEF IsBranch
  <2>3. ASSUME IsBranch(x), NEW i \in DOMAIN x.items
        PROVE  f[x.items[i][2]] = g[x.items[i][2]]
    BY <2>1, <2>2, <2>3
  <2>4. SizeBy(f, x) = SizeBy(g, x)
    <3>1. CASE IsBranch(x)
      <4>1. DOMAIN x.items = 1 .. Len(x.items) /\ Len(x.items) \in Nat
        BY <2>2, <3>1
      <4>2. Sized(f, x, Len(x.items)) = Sized(g, x, Len(x.items))
        BY <2>3, <3>1, <4>1, SizedAlike
      <4> QED
        BY <3>1, <4>2, SizedAre
    <3>2. CASE ~ IsBranch(x)
      BY <3>2, SizedAre
    <3> QED
      BY <3>1, <3>2
  <2>5. PrintedBy(f, x) = PrintedBy(g, x)
    BY <2>3 DEF PrintedBy
  <2>6. PlainBy(f, x) = PlainBy(g, x)
    BY <2>3 DEF PlainBy
  <2>7. MeaningBy(f, x) = MeaningBy(g, x)
    BY <2>3 DEF MeaningBy, IsBranch, Lasting
  <2>8. ConvertBy(f, x) = ConvertBy(g, x)
    BY <2>3 DEF ConvertBy, IsBranch
  <2> QED
    BY <1>2, <2>4, <2>5, <2>6, <2>7, <2>8 DEF Solve, Functions
<1> QED
  BY <1>1, <1>2

(* On every level there is a function that satisfies the recursion.        *)
LEMMA SolveExists ==
    ASSUME NEW what \in Functions, NEW n \in Nat
    PROVE  \E f : f = [x \in LevelOf(what, n) |-> Solve(what, f, x)]
<1> DEFINE S == {m \in Nat : \E f : f = [x \in LevelOf(what, m) |-> Solve(what, f, x)]}
<1>1. 0 \in S
  <2> DEFINE g == [x \in LevelOf(what, 0) |-> Solve(what, 0, x)]
  <2>1. \A x \in LevelOf(what, 0) : Solve(what, 0, x) = Solve(what, g, x)
    <3> HIDE DEF g
    <3> QED
      BY SolveAgrees
  <2>2. g = [x \in LevelOf(what, 0) |-> Solve(what, g, x)]
    BY <2>1
  <2> QED
    BY <2>2
<1>2. ASSUME NEW m \in Nat, NEW f, f = [x \in LevelOf(what, m) |-> Solve(what, f, x)]
      PROVE  \E g : g = [x \in LevelOf(what, m + 1) |-> Solve(what, g, x)]
  <2> DEFINE g == [x \in LevelOf(what, m + 1) |-> Solve(what, f, x)]
  <2>1. ASSUME NEW x \in LevelOf(what, m) PROVE f[x] = g[x]
    <3>1. x \in LevelOf(what, m + 1)
      BY LevelsMore
    <3>2. f[x] = Solve(what, f, x)
      BY <1>2
    <3> QED
      BY <3>1, <3>2
  <2>2. ASSUME NEW x \in LevelOf(what, m + 1) PROVE Solve(what, f, x) = Solve(what, g, x)
    <3> HIDE DEF g
    <3>1. m + 1 \in Nat /\ m + 1 - 1 = m
      OBVIOUS
    <3>2. m + 1 # 0 => \A y \in LevelOf(what, m + 1 - 1) : f[y] = g[y]
      BY <2>1, <3>1
    <3> QED
      BY <3>1, <3>2, SolveAgrees
  <2>3. g = [x \in LevelOf(what, m + 1) |-> Solve(what, g, x)]
    BY <2>2
  <2> QED
    BY <2>3
<1>3. \A m \in Nat : m \in S => m + 1 \in S
  BY <1>2
<1> HIDE DEF S
<1>4. n \in S
  BY <1>1, <1>3, Induct
<1> QED
  BY <1>4 DEF S

(* The functions of the conversion satisfy their recursion.                *)
made[v \in Vals] == MadeBy(made, v)

LEMMA FunctionsAre ==
    /\ \A t \in Trees : /\ size[t] = SizeBy(size, t)
                        /\ printed[t] = PrintedBy(printed, t)
                        /\ cjson_to_val[t] = ConvertBy(cjson_to_val, t)
                        /\ meaning[t] = MeaningBy(meaning, t)
                        /\ plain[t] = PlainBy(plain, t)
    /\ \A v \in Vals : made[v] = MadeBy(made, v)
<1>1. Levels \in Nat
  BY TextsAssumption
<1>2. \A what \in Functions : \E f : f = [x \in LevelOf(what, Levels) |-> Solve(what, f, x)]
  BY <1>1, SolveExists
<1>3. Trees = TreesTo(Levels) /\ Vals = ValsTo(Levels)
  BY DEF Trees, Vals
<1>4. \A what : LevelOf(what, Levels) = IF what = "made" THEN Vals ELSE Trees
  BY <1>3 DEF LevelOf
<1>5. size = [t \in Trees |-> SizeBy(size, t)]
  <2>1. \E f : f = [t \in Trees |-> SizeBy(f, t)]
    <3>1. "size" \in Functions /\ LevelOf("size", Levels) = Trees /\ \A f, t : Solve("size", f, t) = SizeBy(f, t)
      BY <1>4 DEF Functions, Solve
    <3> QED
      BY <1>2, <3>1
  <2> QED
    BY <2>1, Zenon DEF size
<1>6. printed = [t \in Trees |-> PrintedBy(printed, t)]
  <2>1. \E f : f = [t \in Trees |-> PrintedBy(f, t)]
    <3>1. "printed" \in Functions /\ LevelOf("printed", Levels) = Trees /\ \A f, t : Solve("printed", f, t) = PrintedBy(f, t)
      BY <1>4 DEF Functions, Solve
    <3> QED
      BY <1>2, <3>1
  <2> QED
    BY <2>1, Zenon DEF printed
<1>7. cjson_to_val = [t \in Trees |-> ConvertBy(cjson_to_val, t)]
  <2>1. \E f : f = [t \in Trees |-> ConvertBy(f, t)]
    <3>1. "val" \in Functions /\ LevelOf("val", Levels) = Trees /\ \A f, t : Solve("val", f, t) = ConvertBy(f, t)
      BY <1>4 DEF Functions, Solve
    <3> QED
      BY <1>2, <3>1
  <2> QED
    BY <2>1, Zenon DEF cjson_to_val
<1>8. meaning = [t \in Trees |-> MeaningBy(meaning, t)]
  <2>1. \E f : f = [t \in Trees |-> MeaningBy(f, t)]
    <3>1. "meaning" \in Functions /\ LevelOf("meaning", Levels) = Trees /\ \A f, t : Solve("meaning", f, t) = MeaningBy(f, t)
      BY <1>4 DEF Functions, Solve
    <3> QED
      BY <1>2, <3>1
  <2> QED
    BY <2>1, Zenon DEF meaning
<1>9. plain = [t \in Trees |-> PlainBy(plain, t)]
  <2>1. \E f : f = [t \in Trees |-> PlainBy(f, t)]
    <3>1. "plain" \in Functions /\ LevelOf("plain", Levels) = Trees /\ \A f, t : Solve("plain", f, t) = PlainBy(f, t)
      BY <1>4 DEF Functions, Solve
    <3> QED
      BY <1>2, <3>1
  <2> QED
    BY <2>1, Zenon DEF plain
<1>10. made = [v \in Vals |-> MadeBy(made, v)]
  <2>1. \E f : f = [v \in Vals |-> MadeBy(f, v)]
    <3>1. "made" \in Functions /\ LevelOf("made", Levels) = Vals /\ \A f, v : Solve("made", f, v) = MadeBy(f, v)
      BY <1>4 DEF Functions, Solve
    <3> QED
      BY <1>2, <3>1
  <2> QED
    BY <2>1, Zenon DEF made
<1> QED
  BY <1>5, <1>6, <1>7, <1>8, <1>9, <1>10
(* Fewer levels than the most there are. *)
LEMMA TreesUpTo ==
    ASSUME NEW n \in Nat, NEW m \in Nat, n <= m
    PROVE  TreesTo(n) \subseteq TreesTo(m)
<1> DEFINE S == {d \in Nat : TreesTo(n) \subseteq TreesTo(n + d)}
<1>1. 0 \in S
  OBVIOUS
<1>2. ASSUME NEW d \in Nat, TreesTo(n) \subseteq TreesTo(n + d)
      PROVE  TreesTo(n) \subseteq TreesTo(n + (d + 1))
  <2>1. PICK k \in Nat : k = n + d /\ k + 1 = n + (d + 1)
    OBVIOUS
  <2> QED
    BY <1>2, <2>1, TreesMore
<1>3. \A d \in Nat : d \in S => d + 1 \in S
  BY <1>2
<1> HIDE DEF S
<1>4. m - n \in Nat /\ n + (m - n) = m
  OBVIOUS
<1>5. m - n \in S
  BY <1>1, <1>3, <1>4, Induct
<1> QED
  BY <1>4, <1>5 DEF S

LEMMA ValsUpTo ==
    ASSUME NEW n \in Nat, NEW m \in Nat, n <= m
    PROVE  ValsTo(n) \subseteq ValsTo(m)
<1> DEFINE S == {d \in Nat : ValsTo(n) \subseteq ValsTo(n + d)}
<1>1. 0 \in S
  OBVIOUS
<1>2. ASSUME NEW d \in Nat, ValsTo(n) \subseteq ValsTo(n + d)
      PROVE  ValsTo(n) \subseteq ValsTo(n + (d + 1))
  <2>1. PICK k \in Nat : k = n + d /\ k + 1 = n + (d + 1)
    OBVIOUS
  <2> QED
    BY <1>2, <2>1, ValsMore
<1>3. \A d \in Nat : d \in S => d + 1 \in S
  BY <1>2
<1> HIDE DEF S
<1>4. m - n \in Nat /\ n + (m - n) = m
  OBVIOUS
<1>5. m - n \in S
  BY <1>1, <1>3, <1>4, Induct
<1> QED
  BY <1>4, <1>5 DEF S

(* A tree of some levels, and those in it, are trees there are functions on. *)
LEMMA TreesAre ==
    ASSUME NEW n \in Nat, n <= Levels
    PROVE  /\ TreesTo(n) \subseteq Trees
           /\ ValsTo(n) \subseteq Vals
           /\ n # 0 => n - 1 \in Nat /\ n - 1 <= Levels
  BY TextsAssumption, TreesUpTo, ValsUpTo DEF Trees, Vals

-----------------------------------------------------------------------------
(* Strings and numbers *)

LEMMA CStrings ==
    ASSUME NEW chars \in Seq(Char)
    PROVE  /\ CString(chars) \in Seq(Char)
           /\ "NUL" \notin ToSet(chars) => CString(chars) = chars
<1> DEFINE nuls == {i \in DOMAIN chars : chars[i] = "NUL"}
<1>1. CASE nuls = {}
  BY <1>1 DEF CString
<1>2. CASE nuls # {}
  <2>1. nuls \in SUBSET Nat
    OBVIOUS
  <2>2. PICK i \in nuls : \A j \in nuls : i <= j
    <3> HIDE DEF nuls
    <3> QED
      BY <1>2, <2>1, LeastOfNaturals
  <2>3. Min(nuls) \in nuls
    <3> HIDE DEF nuls
    <3> QED
      BY <2>2 DEF Min
  <2>4. CString(chars) = SubSeq(chars, 1, Min(nuls) - 1)
    BY <1>2 DEF CString
  <2>5. PICK m \in DOMAIN chars : m = Min(nuls) /\ chars[m] = "NUL"
    BY <2>3
  <2>6. SubSeq(chars, 1, m - 1) \in Seq(Char)
    <3>1. 1 \in 1 .. Len(chars) + 1 /\ m - 1 \in 1 - 1 .. Len(chars)
      BY <2>5
    <3> QED
      BY <3>1, SubSeqProperties
  <2>7. "NUL" \in ToSet(chars)
    BY <2>5 DEF ToSet
  <2> QED
    BY <2>4, <2>5, <2>6, <2>7
<1> QED
  BY <1>1, <1>2

LEMMA Spacings ==
    ASSUME NEW n \in Int64
    PROVE  /\ n \in Int /\ Spacing(n) \in Nat \ {0}
           /\ n \in -MaxSafe .. MaxSafe => Spacing(n) = 1
<1> DEFINE all == {1, 2, 4, 8, 16, 32, 64, 128, 256, 512, 1024}
           wide == {s \in all : n \in -s * MaxSafe .. s * MaxSafe}
<1>1. n \in Int /\ n >= -1024 * MaxSafe /\ n <= 1024 * MaxSafe /\ MaxSafe \in Nat
  BY DoublesAssumption DEF Int64
<1>2. 1024 \in wide
  BY <1>1
<1>3. wide \in SUBSET (Nat \ {0}) /\ \A s \in wide : 1 <= s
  OBVIOUS
<1>4. n \in -MaxSafe .. MaxSafe => 1 \in wide
  BY <1>1
<1>5. Spacing(n) = Min(wide)
  BY DEF Spacing
<1> HIDE DEF wide
<1>6. PICK i \in wide : \A j \in wide : i <= j
  BY <1>2, <1>3, LeastOfNaturals
<1>7. Min(wide) \in wide /\ \A j \in wide : Min(wide) <= j
  BY <1>6 DEF Min
<1>8. 1 \in wide => Min(wide) = 1
  <2>1. PICK m \in wide : m = Min(wide)
    BY <1>7
  <2>2. m \in Nat /\ 1 <= m /\ (1 \in wide => m <= 1)
    BY <1>3, <1>7, <2>1
  <2> QED
    BY <2>1, <2>2
<1> QED
  BY <1>1, <1>3, <1>4, <1>5, <1>7, <1>8

LEMMA Doubles == ASSUME NEW n \in Int64 PROVE ToDouble(n) \in Int
<1>1. PICK s \in Nat \ {0} : s = Spacing(n)
  BY Spacings
<1>2. PICK q \in Int : q = n \div s
  BY <1>1, Spacings
<1>3. ToDouble(n) \in {2 * s * (q + 1), 2 * s * (q + 0)}
  BY <1>1, <1>2 DEF ToDouble
<1> QED
  BY <1>1, <1>2, <1>3

(* Up to 2^53 a double is the int itself. *)
LEMMA SafeDoubles ==
    ASSUME NEW n \in Int64, n \in -MaxSafe .. MaxSafe
    PROVE  ToDouble(n) = 2 * n
<1>1. n \in Int /\ Spacing(n) = 1
  BY Spacings
<1>2. n % 1 = 0 /\ n \div 1 = n
  BY <1>1
<1>3. ~ (2 * (n % 1) > 1) /\ 2 * (n % 1) # 1
  BY <1>2
<1>4. ToDouble(n) = 2 * 1 * (n \div 1 + 0)
  BY <1>1, <1>3 DEF ToDouble
<1> QED
  BY <1>1, <1>2, <1>4

LEMMA SafeInts == ASSUME NEW n \in -MaxSafe .. MaxSafe PROVE n \in Int64
  BY DoublesAssumption DEF Int64

LEMMA Numbers ==
    ASSUME NEW d \in Double
    PROVE  /\ Number(d) \in Plains
           /\ Number(d).type \in {"int", "float"}
<1>1. CASE d # NotFinite /\ d % 2 = 0 /\ d \in -2 * MaxSafe .. 2 * MaxSafe
  <2>1. d \in Int
    BY <1>1 DEF Double
  <2>2. d \div 2 \in Int64
    <3>1. MaxSafe \in Nat /\ d >= -2 * MaxSafe /\ d <= 2 * MaxSafe
      BY <1>1, <2>1, DoublesAssumption
    <3>2. PICK n \in Int : n = d \div 2 /\ 2 * n = d
      BY <1>1, <2>1
    <3>3. n \in -MaxSafe .. MaxSafe
      BY <3>1, <3>2
    <3> QED
      BY <3>2, <3>3, SafeInts
  <2>3. Number(d) = [type |-> "int", n |-> d \div 2]
    BY <1>1 DEF Number
  <2> QED
    BY <2>2, <2>3 DEF Plains, Unmapped
<1>2. CASE ~ (d # NotFinite /\ d % 2 = 0 /\ d \in -2 * MaxSafe .. 2 * MaxSafe)
  <2>1. Number(d) = [type |-> "float", double |-> d]
    BY <1>2 DEF Number
  <2> QED
    BY <2>1 DEF Plains, Unmapped
<1> QED
  BY <1>1, <1>2

LEMMA Strings ==
    ASSUME NEW chars \in Seq(Char)
    PROVE  String(chars) \in Plains /\ String(chars).type = "string"
  BY CStrings DEF String, Plains, Unmapped

-----------------------------------------------------------------------------
(* Sizes and levels *)

LEMMA SizedIsNat ==
    ASSUME NEW f, NEW t, NEW n \in Nat, \A i \in 1 .. n : f[t.items[i][2]] \in Nat
    PROVE  Sized(f, t, n) \in Nat
<1> DEFINE S == {m \in Nat : m <= n => Sized(f, t, m) \in Nat}
<1>1. 0 \in S
  BY SizedAre
<1>2. ASSUME NEW m \in Nat, m <= n => Sized(f, t, m) \in Nat, m + 1 <= n
      PROVE  Sized(f, t, m + 1) \in Nat
  <2>1. Sized(f, t, m + 1) = Sized(f, t, m) + f[t.items[m + 1][2]]
    BY SizedAre
  <2>2. m + 1 \in 1 .. n /\ m <= n
    BY <1>2
  <2> QED
    BY <1>2, <2>1, <2>2
<1>3. \A m \in Nat : m \in S => m + 1 \in S
  BY <1>2
<1> HIDE DEF S
<1>4. n \in S
  BY <1>1, <1>3, Induct
<1> QED
  BY <1>4 DEF S

LEMMA SizesAreNat == \A t \in Trees : size[t] \in Nat
<1> DEFINE S == {n \in Nat : n <= Levels => \A t \in TreesTo(n) : size[t] \in Nat}
<1>1. ASSUME NEW n \in Nat, n <= Levels, NEW t \in TreesTo(n),
             n # 0 => \A x \in TreesTo(n - 1) : size[x] \in Nat
      PROVE  size[t] \in Nat
  <2>1. size[t] = SizeBy(size, t)
    BY <1>1, TreesAre, FunctionsAre
  <2>2. CASE ~ IsBranch(t)
    BY <2>1, <2>2, SizedAre
  <2>3. CASE IsBranch(t)
    <3>1. t.items \in Seq(Seq(Char) \X TreesTo(n - 1)) /\ n # 0
      BY <2>3, TreeKinds
    <3>2. \A i \in DOMAIN t.items : size[t.items[i][2]] \in Nat
      BY <1>1, <3>1
    <3>3. Sized(size, t, Len(t.items)) \in Nat
      BY <3>1, <3>2, SizedIsNat
    <3> QED
      BY <2>1, <2>3, <3>1, <3>3, SizedAre
  <2> QED
    BY <2>2, <2>3
<1>2. 0 \in S
  BY <1>1
<1>3. ASSUME NEW n \in Nat, n \in S PROVE n + 1 \in S
  <2>1. ASSUME n + 1 <= Levels, NEW t \in TreesTo(n + 1) PROVE size[t] \in Nat
    <3>1. n + 1 \in Nat /\ n + 1 - 1 = n /\ n <= Levels
      BY <2>1, TextsAssumption
    <3>2. \A x \in TreesTo(n + 1 - 1) : size[x] \in Nat
      BY <1>3, <3>1
    <3> HIDE DEF S
    <3> QED
      BY <1>1, <2>1, <3>1, <3>2
  <2> QED
    BY <2>1
<1> HIDE DEF S
<1>4. Levels \in S
  BY <1>2, <1>3, Induct, TextsAssumption
<1> QED
  BY <1>4, TextsAssumption DEF S, Trees
(* What holds on a level when it holds on the one below holds on all.      *)
LEMMA LevelInduct ==
    ASSUME NEW S, \A n \in Nat : n <= Levels /\ (n # 0 => n - 1 \in S) => n \in S
    PROVE  \A n \in Nat : n <= Levels => n \in S
<1> DEFINE T == {n \in Nat : n <= Levels => n \in S}
<1>0. Levels \in Nat
  BY TextsAssumption
<1>1. 0 \in T
  BY <1>0
<1>2. ASSUME NEW n \in Nat, n \in T PROVE n + 1 \in T
  <2>1. n + 1 \in Nat /\ n + 1 - 1 = n /\ (n + 1 <= Levels => n <= Levels)
    BY <1>0
  <2> QED
    BY <1>2, <2>1
<1> HIDE DEF T
<1>3. \A n \in Nat : n \in T
  BY <1>1, <1>2, Induct
<1> QED
  BY <1>3 DEF T

LEMMA LeavesAre ==
    ASSUME NEW n \in Nat, NEW v \in ValsTo(n), v.type \notin {"list", "map"}
    PROVE  /\ Leaf(v) = NULL <=> v.type \in Unsupported
           /\ Leaf(v) # NULL => Leaf(v) \in Scalars
           /\ Kids(v) = {}
<1>1. v.type \in Unsupported \cup {"nil", "bool", "int", "float", "string"}
  BY ValKinds
<1>2. NULL \notin Scalars
  BY DEF NULL, Scalars
<1>3. CASE v.type \in Unsupported
  BY <1>3 DEF Unsupported, Leaf, Kids
<1>4. CASE v.type = "nil"
  BY <1>2, <1>4 DEF Unsupported, Leaf, Kids, Scalars
<1>5. CASE v.type = "bool"
  <2>1. v.is \in BOOLEAN
    BY <1>5, ValKinds
  <2> QED
    BY <1>2, <1>5, <2>1 DEF Unsupported, Leaf, Kids, Scalars
<1>6. CASE v.type = "int"
  <2>1. ToDouble(v.n) \in Double
    BY <1>6, ValKinds, Doubles DEF Double
  <2> QED
    BY <1>2, <1>6, <2>1 DEF Unsupported, Leaf, Kids, Scalars
<1>7. CASE v.type = "float"
  <2>1. v.double \in Double
    BY <1>7, ValKinds
  <2> QED
    BY <1>2, <1>7, <2>1 DEF Unsupported, Leaf, Kids, Scalars
<1>8. CASE v.type = "string"
  <2>1. CString(v.chars) \in Seq(Char)
    BY <1>8, ValKinds, CStrings
  <2> QED
    BY <1>2, <1>8, <2>1 DEF Unsupported, Leaf, Kids, Scalars
<1> QED
  BY <1>1, <1>3, <1>4, <1>5, <1>6, <1>7, <1>8

(* A tree made of a list or a map, by the order of its entries.            *)
LEMMA BranchMade ==
    ASSUME NEW n \in Nat, n <= Levels, NEW v \in ValsTo(n), v.type \in {"list", "map"}, NEW t
    PROVE  t \in made[v] <=>
             /\ t \in [json : {JsonOf(v.type)}, items : Seq(Seq(Char) \X Trees)]
             /\ \E e \in Entries(v) :
                    /\ DOMAIN t.items = DOMAIN e
                    /\ \A i \in DOMAIN e : /\ v.type = "map" => e[i][1].type = "string"
                                           /\ t.items[i][1] = NameOf(v.type, e[i][1])
                                           /\ t.items[i][2] \in made[e[i][2]]
<1>1. made[v] = MadeBy(made, v)
  BY TreesAre, FunctionsAre
<1> QED
  BY <1>1 DEF MadeBy

LEMMA LeafMade ==
    ASSUME NEW n \in Nat, n <= Levels, NEW v \in ValsTo(n), v.type \notin {"list", "map"}
    PROVE  made[v] = {Leaf(v)} \ {NULL}
<1>1. made[v] = MadeBy(made, v)
  BY TreesAre, FunctionsAre
<1> QED
  BY <1>1 DEF MadeBy

(* A sequence of pairs is one of the pairs that its second halves allow.   *)
LEMMA SecondsIn ==
    ASSUME NEW A, NEW B, NEW C, NEW s \in Seq(A \X B), \A i \in DOMAIN s : s[i][2] \in C
    PROVE  s \in Seq(A \X C)
<1> DEFINE E == A \X B
           F == A \X C
<1>1. s \in Seq(E)
  OBVIOUS
<1>2. \A x \in E : x[2] \in C => x \in F
  OBVIOUS
<1> HIDE DEF E, F
<1>3. \A i \in 1 .. Len(s) : s[i] \in E /\ i \in DOMAIN s
  BY <1>1
<1>4. \A i \in 1 .. Len(s) : s[i] \in F
  BY <1>2, <1>3
<1>5. s \in Seq(F)
  BY <1>1, <1>4
<1> QED
  BY <1>5 DEF F

(* A tree has as many levels as what it is made of.                        *)
LEMMA MadeLevels ==
    ASSUME NEW n \in Nat, n <= Levels, NEW v \in ValsTo(n)
    PROVE  made[v] \subseteq TreesTo(n)
<1> DEFINE S == {m \in Nat : \A w \in ValsTo(m) : made[w] \subseteq TreesTo(m)}
<1>1. ASSUME NEW m \in Nat, m <= Levels, m # 0 => m - 1 \in S, NEW w \in ValsTo(m), NEW t \in made[w]
      PROVE  t \in TreesTo(m)
  <2>1. CASE w.type \notin {"list", "map"}
    BY <1>1, <2>1, LeafMade, LeavesAre, ScalarsAre
  <2>2. CASE w.type \in {"list", "map"}
    <3>1. /\ t \in [json : {JsonOf(w.type)}, items : Seq(Seq(Char) \X Trees)]
          /\ \E e \in Entries(w) :
                /\ DOMAIN t.items = DOMAIN e
                /\ \A i \in DOMAIN e : t.items[i][2] \in made[e[i][2]]
      BY <1>1, <2>2, BranchMade
    <3>2. PICK e \in Entries(w) : DOMAIN t.items = DOMAIN e /\ \A i \in DOMAIN e : t.items[i][2] \in made[e[i][2]]
      BY <3>1
    <3>3. m # 0 /\ m - 1 \in Nat
      BY <1>1, <2>2, ValKinds
    <3>4. \A i \in DOMAIN e : e[i][2] \in ValsTo(m - 1)
      BY <1>1, <2>2, EntriesAre, KidsLower
    <3>5. \A i \in DOMAIN t.items : t.items[i][2] \in TreesTo(m - 1)
      BY <1>1, <3>2, <3>3, <3>4
    <3>6. t.items \in Seq(Seq(Char) \X Trees)
      BY <3>1
    <3>7. t.items \in Seq(Seq(Char) \X TreesTo(m - 1))
      BY <3>5, <3>6, SecondsIn
    <3>8. t = [json |-> t.json, items |-> t.items] /\ t.json \in {"array", "object"}
      BY <3>1 DEF JsonOf
    <3>9. [json |-> t.json, items |-> t.items] \in TreesTo(m - 1 + 1)
      BY <3>3, <3>7, <3>8, BranchesAre
    <3>10. m - 1 + 1 = m
      BY <3>3
    <3> QED
      BY <3>8, <3>9, <3>10
  <2> QED
    BY <2>1, <2>2
<1>2. \A m \in Nat : m <= Levels /\ (m # 0 => m - 1 \in S) => m \in S
  BY <1>1
<1> HIDE DEF S
<1>3. n \in S
  BY <1>2, LevelInduct
<1> QED
  BY <1>3 DEF S

(* Of what holds something that JSON cannot represent, no tree is made.    *)
LEMMA MadeSupported ==
    ASSUME NEW n \in Nat, n <= Levels, NEW v \in ValsTo(n), NEW t \in made[v]
    PROVE  \A w \in Within(v) : Supported(w)
<1> DEFINE S == {m \in Nat : \A x \in ValsTo(m) : made[x] # {} => \A w \in Within(x) : Supported(w)}
<1>1. ASSUME NEW m \in Nat, m <= Levels, m # 0 => m - 1 \in S,
             NEW x \in ValsTo(m), NEW y \in made[x], NEW w \in Within(x)
      PROVE  Supported(w)
  <2>0. Within(x) = {x} \cup UNION {Within(k) : k \in Kids(x)}
    BY <1>1, TreesAre, WithinIs
  <2>1. CASE x.type \notin {"list", "map"}
    <3>1. w = x /\ x.type \notin Unsupported
      BY <1>1, <2>0, <2>1, LeafMade, LeavesAre
    <3> QED
      BY <2>1, <3>1 DEF Supported, StringKeys
  <2>2. CASE x.type \in {"list", "map"}
    <3>1. PICK e \in Entries(x) :
            /\ DOMAIN y.items = DOMAIN e
            /\ \A i \in DOMAIN e : (x.type = "map" => e[i][1].type = "string") /\ y.items[i][2] \in made[e[i][2]]
      BY <1>1, <2>2, BranchMade
    <3>2. m # 0 /\ m - 1 \in Nat
      BY <1>1, <2>2, ValKinds
    <3>3. CASE w = x
      <4>1. StringKeys(x)
        <5>1. CASE x.type = "map"
          <6>1. \A k \in DOMAIN x.of : \E i \in DOMAIN e : e[i][1] = k
            BY <1>1, <2>2, <5>1, EntriesAre
          <6> QED
            BY <3>1, <5>1, <6>1 DEF StringKeys
        <5>2. CASE x.type # "map"
          BY <5>2 DEF StringKeys
        <5> QED
          BY <5>1, <5>2
      <4> QED
        BY <2>2, <3>3, <4>1 DEF Supported, Unsupported
    <3>4. ASSUME NEW k \in Kids(x), w \in Within(k) PROVE Supported(w)
      <4>1. k \in ValsTo(m - 1)
        BY KidsLower
      <4>2. CASE made[k] # {}
        BY <1>1, <3>2, <3>4, <4>1, <4>2
      <4>3. CASE k.type = "string"
        <5>1. Within(k) = {k} \cup UNION {Within(j) : j \in Kids(k)}
          BY <1>1, <3>2, <4>1, TreesAre, WithinIs
        <5>2. w = k
          BY <3>4, <4>1, <4>3, <5>1, <3>2, LeavesAre
        <5> QED
          BY <4>3, <5>2 DEF Supported, Unsupported, StringKeys
      <4>4. made[k] # {} \/ k.type = "string"
        <5>1. CASE x.type = "list"
          <6>1. k \in ToSet(x.items)
            BY <5>1 DEF Kids
          <6>2. PICK i \in DOMAIN x.items : k = x.items[i]
            BY <6>1 DEF ToSet
          <6>3. i \in DOMAIN e /\ e[i][2] = k
            BY <1>1, <2>2, <5>1, <6>2, EntriesAre
          <6> QED
            BY <3>1, <6>3
        <5>2. CASE x.type = "map"
          <6>1. PICK j \in DOMAIN x.of : k = j \/ k = x.of[j]
            BY <5>2 DEF Kids
          <6>2. PICK i \in DOMAIN e : e[i][1] = j
            BY <1>1, <2>2, <5>2, EntriesAre
          <6>3. e[i][2] = x.of[j]
            BY <1>1, <2>2, <5>2, <6>2, EntriesAre
          <6> QED
            BY <3>1, <5>2, <6>1, <6>2, <6>3
        <5> QED
          BY <2>2, <5>1, <5>2
      <4> QED
        BY <4>2, <4>3, <4>4
    <3> QED
      BY <2>0, <3>3, <3>4
  <2> QED
    BY <2>1, <2>2
<1>2. \A m \in Nat : m <= Levels /\ (m # 0 => m - 1 \in S) => m \in S
  BY <1>1
<1> HIDE DEF S
<1>3. n \in S
  BY <1>2, LevelInduct
<1> QED
  BY <1>3 DEF S
-----------------------------------------------------------------------------
(* Values of a text *)

LEMMA GreatestBelow ==
    ASSUME NEW m \in Nat, NEW S \in SUBSET (1 .. m), S # {}
    PROVE  Max(S) \in S /\ \A k \in S : k <= Max(S)
<1> DEFINE T == {m - k : k \in S}
<1>0. \A k \in S : k \in Nat /\ k <= m /\ m - k \in Nat
  OBVIOUS
<1>1. T \in SUBSET Nat /\ T # {}
  <2>1. T \in SUBSET Nat
    BY <1>0
  <2>2. PICK k \in S : TRUE
    OBVIOUS
  <2>3. m - k \in T
    OBVIOUS
  <2> QED
    BY <2>1, <2>3
<1>2. PICK n \in T : \A k \in T : n <= k
  <2> HIDE DEF T
  <2> QED
    BY <1>1, LeastOfNaturals
<1>3. PICK j \in S : n = m - j
  BY <1>2
<1>4. \A k \in S : k <= j
  <2>1. ASSUME NEW k \in S PROVE k <= j
    <3>1. m - k \in T
      OBVIOUS
    <3>2. n <= m - k
      BY <1>2, <3>1
    <3>3. j \in Nat /\ k \in Nat
      BY <1>0, <1>3
    <3> HIDE DEF T
    <3> QED
      BY <1>3, <3>2, <3>3
  <2> QED
    BY <2>1
<1>5. \E g \in S : \A k \in S : g >= k
  <2>1. \A k \in S : j >= k
    BY <1>3, <1>4
  <2> QED
    BY <1>3, <2>1
<1>6. Max(S) \in S /\ \A k \in S : Max(S) >= k
  BY <1>5 DEF Max
<1> QED
  BY <1>6

(* val_map: each key has the value of the last pair with it.               *)
LEMMA MapsOfPairs ==
    ASSUME NEW m \in Nat, NEW pairs, DOMAIN pairs = 1 .. m
    PROVE  /\ MapOf(pairs) = [type |-> "map", of |-> MapOf(pairs).of]
           /\ \A T : (\A i \in 1 .. m : pairs[i][2] \in T)
                     => MapOf(pairs).of \in [DOMAIN MapOf(pairs).of -> T]
           /\ \A i \in 1 .. m : pairs[i][1] \in DOMAIN MapOf(pairs).of
           /\ IsFiniteSet(DOMAIN MapOf(pairs).of)
           /\ \A k \in DOMAIN MapOf(pairs).of :
                 \E i \in 1 .. m : /\ pairs[i][1] = k /\ MapOf(pairs).of[k] = pairs[i][2]
                                   /\ \A j \in 1 .. m : pairs[j][1] = k => j <= i
<1> DEFINE K == {p[1] : p \in ToSet(pairs)}
           g == [k \in K |-> pairs[Max(PlacesOf(k, pairs))][2]]
<1>1. MapOf(pairs) = [type |-> "map", of |-> g]
  BY DEF MapOf
<1>2. K = {pairs[i][1] : i \in 1 .. m}
  BY DEF ToSet
<1>3. IsFiniteSet(K)
  <2> DEFINE f == [i \in 1 .. m |-> pairs[i][1]]
  <2>1. f \in Surjection(1 .. m, K)
    BY <1>2 DEF Surjection
  <2>2. IsFiniteSet(1 .. m)
    BY FS_Interval
  <2> HIDE DEF f, K
  <2> QED
    BY <2>1, <2>2, FS_Surjection
<1>4. ASSUME NEW k \in K
      PROVE  \E i \in 1 .. m : /\ pairs[i][1] = k /\ g[k] = pairs[i][2]
                               /\ \A j \in 1 .. m : pairs[j][1] = k => j <= i
  <2> DEFINE P == PlacesOf(k, pairs)
  <2>1. P \in SUBSET (1 .. m) /\ P # {} /\ P = {i \in 1 .. m : pairs[i][1] = k}
    BY <1>2 DEF PlacesOf
  <2>2. g[k] = pairs[Max(P)][2]
    OBVIOUS
  <2> HIDE DEF P, g, K
  <2>3. Max(P) \in P /\ \A j \in P : j <= Max(P)
    BY <2>1, GreatestBelow
  <2> QED
    BY <2>1, <2>2, <2>3
<1>5. DOMAIN g = K /\ g = [k \in K |-> g[k]]
  OBVIOUS
<1> HIDE DEF g, K
<1>6. MapOf(pairs).of = g
  BY <1>1
<1>7. ASSUME NEW T, \A i \in 1 .. m : pairs[i][2] \in T PROVE g \in [DOMAIN g -> T]
  <2>1. \A k \in K : g[k] \in T
    BY <1>4, <1>7
  <2> QED
    BY <1>5, <2>1
<1> QED
  BY <1>1, <1>2, <1>3, <1>4, <1>5, <1>6, <1>7

(* Values that a caller gives have as many levels as they are deep.        *)
LEMMA ValuesAreVals == Values \subseteq Vals
<1> DEFINE S == {m \in Nat : \A v \in Values : Depth(v) <= m => v \in ValsTo(m)}
<1>1. ASSUME NEW m \in Nat, m <= Levels, m # 0 => m - 1 \in S, NEW v \in Values, Depth(v) <= m
      PROVE  v \in ValsTo(m)
  <2>1. /\ v \in Unmapped(Values) \/ IsMap(v, Values)
        /\ Depth(v) \in Nat
        /\ v.type \in {"list", "map"} => Depth(v) > 0
        /\ \A w \in Kids(v) : Depth(w) < Depth(v)
    BY ValuesAssumption, TextsAssumption
  <2>2. ASSUME v.type \in {"list", "map"}
        PROVE  /\ m # 0 /\ m - 1 \in Nat /\ m - 1 + 1 = m
               /\ \A w \in Kids(v) : w \in Values => w \in ValsTo(m - 1)
    <3>1. m # 0 /\ m - 1 \in Nat /\ m - 1 + 1 = m
      BY <1>1, <2>1, <2>2
    <3>2. ASSUME NEW w \in Kids(v), w \in Values PROVE w \in ValsTo(m - 1)
      <4>1. Depth(w) \in Nat
        BY <3>2, ValuesAssumption, TextsAssumption
      <4>2. Depth(w) <= m - 1
        BY <1>1, <2>1, <3>2, <4>1
      <4> QED
        BY <1>1, <3>1, <3>2, <4>2
    <3> QED
      BY <3>1, <3>2
  <2>3. CASE v \in [type : {"list"}, items : Seq(Values)]
    <3>1. v = [type |-> "list", items |-> v.items] /\ v.items \in Seq(Values) /\ v.type = "list"
      BY <2>3
    <3>2. \A i \in DOMAIN v.items : v.items[i] \in Kids(v) /\ v.items[i] \in Values
      BY <3>1 DEF Kids, ToSet
    <3>3. \A i \in DOMAIN v.items : v.items[i] \in ValsTo(m - 1)
      BY <2>2, <3>1, <3>2
    <3>4. v.items \in Seq(ValsTo(m - 1))
      BY <3>1, <3>3
    <3>5. [type |-> "list", items |-> v.items] \in ValsTo(m - 1 + 1)
      BY <2>2, <3>1, <3>4, ListsAre
    <3> QED
      BY <2>2, <3>1, <3>5
  <2>4. CASE v \in Unmapped(Values) /\ v \notin [type : {"list"}, items : Seq(Values)]
    <3>1. v \in Plains
      BY <2>4 DEF Plains, Unmapped, NilVal, Unsupported
    <3> QED
      BY <3>1, PlainsAre
  <2>5. CASE IsMap(v, Values)
    <3>1. /\ v.type = "map" /\ v = [type |-> "map", of |-> v.of]
          /\ IsFiniteSet(DOMAIN v.of) /\ DOMAIN v.of \subseteq Values
          /\ v.of \in [DOMAIN v.of -> Values]
      BY <2>5 DEF IsMap
    <3>2. \A k \in DOMAIN v.of : k \in Kids(v) /\ v.of[k] \in Kids(v) /\ k \in Values /\ v.of[k] \in Values
      BY <3>1 DEF Kids
    <3>3. \A k \in DOMAIN v.of : k \in ValsTo(m - 1) /\ v.of[k] \in ValsTo(m - 1)
      BY <2>2, <3>1, <3>2
    <3>4. DOMAIN v.of \in SUBSET ValsTo(m - 1) /\ v.of \in [DOMAIN v.of -> ValsTo(m - 1)]
      BY <3>1, <3>3
    <3>5. [type |-> "map", of |-> v.of] \in ValsTo(m - 1 + 1)
      BY <2>2, <3>1, <3>4, MapsAre
    <3> QED
      BY <2>2, <3>1, <3>5
  <2> QED
    BY <2>1, <2>3, <2>4, <2>5
<1>2. \A m \in Nat : m <= Levels /\ (m # 0 => m - 1 \in S) => m \in S
  BY <1>1
<1> HIDE DEF S
<1>3. Levels \in S
  BY <1>2, LevelInduct, TextsAssumption
<1> QED
  BY <1>3, ValuesAssumption, TextsAssumption DEF S, Vals

(* Values read from a text have as many levels as its tree.                *)
LEMMA ConvertLevels ==
    ASSUME NEW n \in Nat, n <= Levels, NEW t \in TreesTo(n)
    PROVE  cjson_to_val[t] \in ValsTo(n)
<1> DEFINE S == {m \in Nat : \A x \in TreesTo(m) : cjson_to_val[x] \in ValsTo(m)}
<1>1. ASSUME NEW m \in Nat, m <= Levels, m # 0 => m - 1 \in S, NEW x \in TreesTo(m)
      PROVE  cjson_to_val[x] \in ValsTo(m)
  <2>1. cjson_to_val[x] = ConvertBy(cjson_to_val, x)
    BY <1>1, TreesAre, FunctionsAre
  <2>2. CASE ~ IsBranch(x)
    <3>1. x.json \in {"null", "bool", "number", "string"}
      BY <2>2, TreeKinds DEF IsBranch
    <3>2. CASE x.json = "null"
      <4>1. cjson_to_val[x] = NilVal
        BY <2>1, <3>2 DEF ConvertBy
      <4> QED
        BY <4>1, PlainsAre DEF Plains, Unmapped, NilVal
    <3>3. CASE x.json = "bool"
      <4>1. cjson_to_val[x] = [type |-> "bool", is |-> x.is] /\ x.is \in BOOLEAN
        BY <2>1, <3>3, TreeKinds DEF ConvertBy
      <4>2. cjson_to_val[x] \in Plains
        BY <4>1 DEF Plains, Unmapped
      <4> QED
        BY <4>2, PlainsAre
    <3>4. CASE x.json = "number"
      <4>1. cjson_to_val[x] = Number(x.double) /\ x.double \in Double
        BY <2>1, <3>4, TreeKinds DEF ConvertBy
      <4> QED
        BY <4>1, Numbers, PlainsAre
    <3>5. CASE x.json = "string"
      <4>1. cjson_to_val[x] = String(x.chars) /\ x.chars \in Seq(Char)
        BY <2>1, <3>5, TreeKinds DEF ConvertBy
      <4> QED
        BY <4>1, Strings, PlainsAre
    <3> QED
      BY <3>1, <3>2, <3>3, <3>4, <3>5
  <2>3. CASE IsBranch(x)
    <3>1. /\ m # 0 /\ m - 1 \in Nat /\ m - 1 + 1 = m
          /\ x.items \in Seq(Seq(Char) \X TreesTo(m - 1))
          /\ x.json \in {"array", "object"}
      <4>1. m # 0 /\ m - 1 \in Nat /\ x.items \in Seq(Seq(Char) \X TreesTo(m - 1))
        BY <2>3, TreeKinds
      <4> QED
        BY <2>3, <4>1 DEF IsBranch
    <3>2. \A i \in DOMAIN x.items : cjson_to_val[x.items[i][2]] \in ValsTo(m - 1) /\ x.items[i][1] \in Seq(Char)
      BY <1>1, <3>1
    <3>3. PICK k \in Nat : DOMAIN x.items = 1 .. k
      BY <3>1
    <3>4. CASE x.json = "array"
      <4> DEFINE items == [i \in DOMAIN x.items |-> cjson_to_val[x.items[i][2]]]
      <4>1. cjson_to_val[x] = [type |-> "list", items |-> items]
        BY <2>1, <3>4 DEF ConvertBy
      <4>2. items \in Seq(ValsTo(m - 1))
        BY <3>2, <3>3
      <4> HIDE DEF items
      <4>3. [type |-> "list", items |-> items] \in ValsTo(m - 1 + 1)
        BY <3>1, <4>2, ListsAre
      <4> QED
        BY <3>1, <4>1, <4>3
    <3>5. CASE x.json = "object"
      <4> DEFINE pairs == [i \in DOMAIN x.items |-> <<String(x.items[i][1]), cjson_to_val[x.items[i][2]]>>]
                 g == MapOf(pairs).of
      <4>1. cjson_to_val[x] = MapOf(pairs)
        BY <2>1, <3>5 DEF ConvertBy
      <4>2. DOMAIN pairs = 1 .. k /\ \A i \in 1 .. k : pairs[i] = <<String(x.items[i][1]), cjson_to_val[x.items[i][2]]>>
        BY <3>3
      <4>3. \A i \in 1 .. k : pairs[i][1] \in ValsTo(m - 1) /\ pairs[i][2] \in ValsTo(m - 1)
        BY <3>1, <3>2, <3>3, <4>2, Strings, PlainsAre
      <4> HIDE DEF pairs
      <4>4. /\ MapOf(pairs) = [type |-> "map", of |-> g]
            /\ g \in [DOMAIN g -> ValsTo(m - 1)]
            /\ IsFiniteSet(DOMAIN g)
            /\ \A y \in DOMAIN g : \E i \in 1 .. k : pairs[i][1] = y
        <5>1. DOMAIN pairs = 1 .. k
          BY <4>2
        <5>2. MapOf(pairs) = [type |-> "map", of |-> g] /\ IsFiniteSet(DOMAIN g)
          BY <5>1, MapsOfPairs
        <5>3. \A y \in DOMAIN g : \E i \in 1 .. k : pairs[i][1] = y
          BY <5>1, MapsOfPairs
        <5>4. \A T : (\A i \in 1 .. k : pairs[i][2] \in T) => g \in [DOMAIN g -> T]
          BY <5>1, MapsOfPairs
        <5> HIDE DEF g
        <5> QED
          BY <4>3, <5>2, <5>3, <5>4
      <4> HIDE DEF g
      <4>5. DOMAIN g \in SUBSET ValsTo(m - 1)
        BY <4>3, <4>4
      <4>6. [type |-> "map", of |-> g] \in ValsTo(m - 1 + 1)
        BY <3>1, <4>4, <4>5, MapsAre
      <4> QED
        BY <3>1, <4>1, <4>4, <4>6
    <3> QED
      BY <3>1, <3>4, <3>5
  <2> QED
    BY <2>2, <2>3
<1>2. \A m \in Nat : m <= Levels /\ (m # 0 => m - 1 \in S) => m \in S
  BY <1>1
<1> HIDE DEF S
<1>3. n \in S
  BY <1>2, LevelInduct
<1> QED
  BY <1>3 DEF S
LEMMA ArrayVal ==
    ASSUME NEW n \in Nat, n <= Levels, NEW x \in TreesTo(n), x.json = "array"
    PROVE  cjson_to_val[x] = [type |-> "list", items |-> [i \in DOMAIN x.items |-> cjson_to_val[x.items[i][2]]]]
<1>1. cjson_to_val[x] = ConvertBy(cjson_to_val, x)
  BY TreesAre, FunctionsAre
<1> QED
  BY <1>1 DEF ConvertBy

LEMMA ObjectVal ==
    ASSUME NEW n \in Nat, n <= Levels, NEW x \in TreesTo(n), x.json = "object", NEW v, v = cjson_to_val[x]
    PROVE  /\ v.type = "map"
           /\ DOMAIN v.of = {String(x.items[i][1]) : i \in DOMAIN x.items}
           /\ \A k \in DOMAIN v.of :
                 \E i \in DOMAIN x.items :
                    /\ String(x.items[i][1]) = k /\ v.of[k] = cjson_to_val[x.items[i][2]]
                    /\ \A j \in DOMAIN x.items : String(x.items[j][1]) = k => j <= i
<1>0. PICK pairs : pairs = [i \in DOMAIN x.items |-> <<String(x.items[i][1]), cjson_to_val[x.items[i][2]]>>]
  OBVIOUS
<1>1. v = MapOf(pairs)
  <2>1. cjson_to_val[x] = ConvertBy(cjson_to_val, x)
    BY TreesAre, FunctionsAre
  <2> QED
    BY <1>0, <2>1 DEF ConvertBy
<1>2. x.items \in Seq(Seq(Char) \X TreesTo(n - 1))
  BY TreeKinds DEF IsBranch
<1>3. PICK m \in Nat : DOMAIN x.items = 1 .. m
  BY <1>2
<1>4. DOMAIN pairs = 1 .. m /\ \A i \in 1 .. m : pairs[i][1] = String(x.items[i][1]) /\ pairs[i][2] = cjson_to_val[x.items[i][2]]
  BY <1>0, <1>3
<1>5. /\ v = [type |-> "map", of |-> v.of]
      /\ \A i \in 1 .. m : pairs[i][1] \in DOMAIN v.of
      /\ \A k \in DOMAIN v.of :
            \E i \in 1 .. m : /\ pairs[i][1] = k /\ v.of[k] = pairs[i][2]
                              /\ \A j \in 1 .. m : pairs[j][1] = k => j <= i
  <2> DEFINE g == MapOf(pairs).of
  <2>1. DOMAIN pairs = 1 .. m
    BY <1>4
  <2>2. /\ MapOf(pairs) = [type |-> "map", of |-> g]
        /\ \A i \in 1 .. m : pairs[i][1] \in DOMAIN g
        /\ \A k \in DOMAIN g :
              \E i \in 1 .. m : /\ pairs[i][1] = k /\ g[k] = pairs[i][2]
                                /\ \A j \in 1 .. m : pairs[j][1] = k => j <= i
    BY <2>1, MapsOfPairs
  <2> HIDE DEF g
  <2> QED
    BY <1>1, <2>2
<1>6. v.type = "map"
  BY <1>5
<1>7. \A k \in DOMAIN v.of :
            \E i \in 1 .. m : /\ String(x.items[i][1]) = k /\ v.of[k] = cjson_to_val[x.items[i][2]]
                              /\ \A j \in 1 .. m : String(x.items[j][1]) = k => j <= i
  <2> SUFFICES ASSUME NEW k \in DOMAIN v.of
               PROVE  \E i \in 1 .. m : /\ String(x.items[i][1]) = k /\ v.of[k] = cjson_to_val[x.items[i][2]]
                                        /\ \A j \in 1 .. m : String(x.items[j][1]) = k => j <= i
    OBVIOUS
  <2>1. PICK i \in 1 .. m : /\ pairs[i][1] = k /\ v.of[k] = pairs[i][2]
                            /\ \A j \in 1 .. m : pairs[j][1] = k => j <= i
    BY <1>5
  <2>2. String(x.items[i][1]) = k
    BY ONLY <1>4, <2>1
  <2>3. v.of[k] = cjson_to_val[x.items[i][2]]
    BY ONLY <1>4, <2>1
  <2>4. ASSUME NEW j \in 1 .. m, String(x.items[j][1]) = k PROVE j <= i
    <3>1. pairs[j][1] = k
      BY ONLY <1>4, <2>4
    <3> QED
      BY ONLY <2>1, <3>1
  <2> QED
    BY ONLY <2>1, <2>2, <2>3, <2>4
<1>8. DOMAIN v.of = {String(x.items[i][1]) : i \in 1 .. m}
  <2>1. ASSUME NEW k \in DOMAIN v.of PROVE k \in {String(x.items[i][1]) : i \in 1 .. m}
    <3>1. PICK i \in 1 .. m : String(x.items[i][1]) = k
      BY ONLY <1>7, <2>1
    <3> QED
      BY ONLY <3>1
  <2>2. ASSUME NEW i \in 1 .. m PROVE String(x.items[i][1]) \in DOMAIN v.of
    <3>1. pairs[i][1] \in DOMAIN v.of
      BY <1>5
    <3> QED
      BY ONLY <1>4, <2>2, <3>1
  <2> QED
    BY ONLY <2>1, <2>2
<1> QED
  BY <1>3, <1>6, <1>7, <1>8

(* All that is read from a text can be printed again.                      *)
LEMMA ConvertSupported ==
    ASSUME NEW n \in Nat, n <= Levels, NEW t \in TreesTo(n)
    PROVE  \A w \in Within(cjson_to_val[t]) : Supported(w)
<1> DEFINE S == {m \in Nat : \A x \in TreesTo(m) : \A w \in Within(cjson_to_val[x]) : Supported(w)}
<1>1. ASSUME NEW m \in Nat, m <= Levels, m # 0 => m - 1 \in S, NEW x \in TreesTo(m),
             NEW w \in Within(cjson_to_val[x])
      PROVE  Supported(w)
  <2>1. PICK v : v = cjson_to_val[x]
    OBVIOUS
  <2>2. v \in ValsTo(m)
    BY <1>1, <2>1, ConvertLevels
  <2>3. Within(v) = {v} \cup UNION {Within(k) : k \in Kids(v)}
    BY <1>1, <2>2, TreesAre, WithinIs
  <2>4. cjson_to_val[x] = ConvertBy(cjson_to_val, x)
    BY <1>1, TreesAre, FunctionsAre
  <2>5. CASE ~ IsBranch(x)
    <3>1. x.json \in {"null", "bool", "number", "string"}
      BY <2>5, TreeKinds DEF IsBranch
    <3>2. x.json = "number" => x.double \in Double
      BY TreeKinds
    <3>3. v.type \in {"nil", "bool", "int", "float", "string"}
      BY <2>1, <2>4, <3>1, <3>2, Numbers DEF ConvertBy, NilVal, String
    <3>4. Kids(v) = {}
      BY <2>2, <3>3, LeavesAre
    <3>5. w = v
      BY <2>1, <2>3, <3>4
    <3> QED
      BY <3>3, <3>5 DEF Supported, StringKeys, Unsupported
  <2>6. CASE IsBranch(x)
    <3>1. m # 0 /\ m - 1 \in Nat /\ x.items \in Seq(Seq(Char) \X TreesTo(m - 1))
      BY <2>6, TreeKinds
    <3>2. x.json \in {"array", "object"}
      BY <2>6 DEF IsBranch
    <3>3. \A i \in DOMAIN x.items : \A y \in Within(cjson_to_val[x.items[i][2]]) : Supported(y)
      BY <1>1, <3>1
    <3>4. CASE x.json = "array"
      <4>1. v = [type |-> "list", items |-> [i \in DOMAIN x.items |-> cjson_to_val[x.items[i][2]]]]
        BY <1>1, <2>1, <3>4, ArrayVal
      <4>2. CASE w = v
        BY <4>1, <4>2 DEF Supported, StringKeys, Unsupported
      <4>3. ASSUME NEW k \in Kids(v), w \in Within(k) PROVE Supported(w)
        <5>1. k \in ToSet(v.items)
          BY <4>1, <4>3 DEF Kids
        <5>2. PICK i \in DOMAIN x.items : k = cjson_to_val[x.items[i][2]]
          BY <4>1, <5>1 DEF ToSet
        <5> QED
          BY <3>3, <4>3, <5>2
      <4> QED
        BY <2>1, <2>3, <4>2, <4>3
    <3>5. CASE x.json = "object"
      <4>1. /\ v.type = "map"
            /\ DOMAIN v.of = {String(x.items[i][1]) : i \in DOMAIN x.items}
            /\ \A k \in DOMAIN v.of : \E i \in DOMAIN x.items : v.of[k] = cjson_to_val[x.items[i][2]]
        BY <1>1, <2>1, <3>5, ObjectVal
      <4>2. \A k \in DOMAIN v.of : k.type = "string"
        BY <4>1 DEF String
      <4>3. CASE w = v
        BY <4>1, <4>2, <4>3 DEF Supported, StringKeys, Unsupported
      <4>4. ASSUME NEW k \in Kids(v), w \in Within(k) PROVE Supported(w)
        <5>1. PICK j \in DOMAIN v.of : k = j \/ k = v.of[j]
          BY <4>1, <4>4 DEF Kids
        <5>2. CASE k = j
          <6>1. k \in ValsTo(m - 1) /\ k.type = "string"
            BY <2>2, <4>2, <5>2, KidsLower
          <6>2. Within(k) = {k} \cup UNION {Within(y) : y \in Kids(k)} /\ Kids(k) = {}
            BY <1>1, <3>1, <6>1, TreesAre, WithinIs, LeavesAre
          <6> QED
            BY <4>4, <6>1, <6>2 DEF Supported, StringKeys, Unsupported
        <5>3. CASE k = v.of[j]
          BY <3>3, <4>1, <4>4, <5>3
        <5> QED
          BY <5>1, <5>2, <5>3
      <4> QED
        BY <2>1, <2>3, <4>3, <4>4
    <3> QED
      BY <3>2, <3>4, <3>5
  <2> QED
    BY <2>5, <2>6
<1>2. \A m \in Nat : m <= Levels /\ (m # 0 => m - 1 \in S) => m \in S
  BY <1>1
<1> HIDE DEF S
<1>3. n \in S
  BY <1>2, LevelInduct
<1> QED
  BY <1>3 DEF S

-----------------------------------------------------------------------------
(* What cJSON prints of a tree has its shape. *)
LEMMA BranchPrinted ==
    ASSUME NEW n \in Nat, n <= Levels, NEW x \in TreesTo(n), IsBranch(x)
    PROVE  /\ printed[x].json = x.json
           /\ printed[x].items = [i \in DOMAIN x.items |-> <<x.items[i][1], printed[x.items[i][2]]>>]
           /\ printed[x] = [json |-> printed[x].json, items |-> printed[x].items]
<1>1. printed[x] = PrintedBy(printed, x)
  BY TreesAre, FunctionsAre
<1>2. x = [json |-> x.json, items |-> x.items] /\ x.json \in {"array", "object"}
  BY TreeKinds DEF IsBranch
<1>3. printed[x] = [x EXCEPT !.items = [i \in DOMAIN @ |-> <<@[i][1], printed[@[i][2]]>>]]
  BY <1>1, <1>2 DEF PrintedBy
<1> QED
  BY <1>2, <1>3

LEMMA ScalarPrinted ==
    ASSUME NEW n \in Nat, n <= Levels, NEW x \in TreesTo(n), ~ IsBranch(x)
    PROVE  /\ printed[x] \in Scalars
           /\ x.json # "number" => printed[x] = x
           /\ x.json = "number" /\ x.double # NotFinite /\ x.double \notin DOMAIN Fifteen => printed[x] = x
<1>1. printed[x] = PrintedBy(printed, x)
  BY TreesAre, FunctionsAre
<1>2. x \in Scalars
  <2>1. x.json \in {"null", "bool", "number", "string"}
    BY TreeKinds DEF IsBranch
  <2>2. /\ x.json = "null" => x = [json |-> "null"]
        /\ x.json = "bool" => x.is \in BOOLEAN /\ x = [json |-> "bool", is |-> x.is]
        /\ x.json = "number" => x.double \in Double /\ x = [json |-> "number", double |-> x.double]
        /\ x.json = "string" => x.chars \in Seq(Char) /\ x = [json |-> "string", chars |-> x.chars]
    BY TreeKinds
  <2> QED
    BY <2>1, <2>2 DEF Scalars
<1>3. CASE x.json # "number"
  BY <1>1, <1>2, <1>3 DEF PrintedBy
<1>4. CASE x.json = "number"
  <2>1. x.double \in Double /\ x = [json |-> "number", double |-> x.double]
    BY <1>4, TreeKinds
  <2>2. CASE x.double = NotFinite
    BY <1>1, <1>4, <2>2 DEF PrintedBy, Scalars
  <2>3. CASE x.double # NotFinite /\ x.double \notin DOMAIN Fifteen
    <3>1. printed[x] = x
      BY <1>1, <1>4, <2>1, <2>3 DEF PrintedBy
    <3> QED
      BY <1>2, <2>3, <3>1
  <2>4. CASE x.double # NotFinite /\ x.double \in DOMAIN Fifteen
    <3>1. Fifteen[x.double] \in Double
      BY <2>4, DoublesAssumption DEF Double
    <3>2. printed[x] = [x EXCEPT !.double = Fifteen[x.double]]
      BY <1>1, <1>4, <2>4 DEF PrintedBy
    <3>3. printed[x] = [json |-> "number", double |-> Fifteen[x.double]]
      BY <2>1, <3>2
    <3> QED
      BY <1>4, <2>4, <3>1, <3>3 DEF Scalars
  <2> QED
    BY <2>2, <2>3, <2>4
<1> QED
  BY <1>3, <1>4

LEMMA PrintedLevels ==
    ASSUME NEW n \in Nat, n <= Levels, NEW t \in TreesTo(n)
    PROVE  printed[t] \in TreesTo(n)
<1> DEFINE S == {m \in Nat : \A x \in TreesTo(m) : printed[x] \in TreesTo(m)}
<1>1. ASSUME NEW m \in Nat, m <= Levels, m # 0 => m - 1 \in S, NEW x \in TreesTo(m)
      PROVE  printed[x] \in TreesTo(m)
  <2>1. CASE ~ IsBranch(x)
    BY <1>1, <2>1, ScalarPrinted, ScalarsAre
  <2>2. CASE IsBranch(x)
    <3>1. m # 0 /\ m - 1 \in Nat /\ x.items \in Seq(Seq(Char) \X TreesTo(m - 1))
      BY <2>2, TreeKinds
    <3>2. m - 1 + 1 = m /\ x.json \in {"array", "object"}
      BY <2>2, <3>1 DEF IsBranch
    <3> DEFINE items == [i \in DOMAIN x.items |-> <<x.items[i][1], printed[x.items[i][2]]>>]
    <3>3. items \in Seq(Seq(Char) \X TreesTo(m - 1))
      <4>1. PICK k \in Nat : DOMAIN x.items = 1 .. k
        BY <3>1
      <4>2. \A i \in DOMAIN x.items : printed[x.items[i][2]] \in TreesTo(m - 1) /\ x.items[i][1] \in Seq(Char)
        BY <1>1, <3>1
      <4>3. \A i \in DOMAIN x.items : <<x.items[i][1], printed[x.items[i][2]]>> \in Seq(Char) \X TreesTo(m - 1)
        BY <4>2
      <4> QED
        BY <4>1, <4>3
    <3>4. printed[x] = [json |-> x.json, items |-> items]
      BY <1>1, <2>2, BranchPrinted
    <3> HIDE DEF items
    <3>5. [json |-> x.json, items |-> items] \in TreesTo(m - 1 + 1)
      BY <3>1, <3>2, <3>3, BranchesAre
    <3> QED
      BY <3>2, <3>4, <3>5
  <2> QED
    BY <2>1, <2>2
<1>2. \A m \in Nat : m <= Levels /\ (m # 0 => m - 1 \in S) => m \in S
  BY <1>1
<1> HIDE DEF S
<1>3. n \in S
  BY <1>2, LevelInduct
<1> QED
  BY <1>3 DEF S
-----------------------------------------------------------------------------
(* The activations of val_to_cjson *)

(* The value that activation d works on: the argument, or a child of the   *)
(* one that d was called by.                                               *)
ValueAt(g, fs, d) == IF d = 1 THEN g ELSE Head(fs[d - 1].todo)[2]

Frame == [type : {"list", "map"}, todo : Seq(Vals \X Vals), done : Seq(Seq(Char) \X TreesTo(Levels - 1))]

(* An activation made trees of the first entries of its value.             *)
MadeSoFar(v, fr, e) ==
    /\ Len(e) = Len(fr.done) + Len(fr.todo)
    /\ \A i \in 1 .. Len(fr.todo) : fr.todo[i] = e[Len(fr.done) + i]
    /\ \A i \in 1 .. Len(fr.done) : /\ v.type = "map" => e[i][1].type = "string"
                                    /\ fr.done[i][1] = NameOf(v.type, e[i][1])
                                    /\ fr.done[i][2] \in made[e[i][2]]
SoFar(v, fr) == v \in Vals /\ v.type = fr.type /\ \E e \in Entries(v) : MadeSoFar(v, fr, e)

(* It waits for the tree of a child.                                       *)
Waits(fr) == fr.todo # <<>> /\ (fr.type = "map" => Head(fr.todo)[1].type = "string")

Stack(g, fs, waits) ==
    /\ g \in Vals /\ fs \in Seq(Frame)
    /\ \A d \in DOMAIN fs : /\ SoFar(ValueAt(g, fs, d), fs[d])
                            /\ d < Len(fs) \/ waits => Waits(fs[d])

(* So many nodes are in the trees that activations have made so far.       *)
Sums(S, fs) ==
    S \in [Nat -> Nat] /\ S[0] = 0 /\ \A d \in DOMAIN fs : S[d] = S[d - 1] + size[Tree(fs[d])]
Counts(fs, n) == \E S : Sums(S, fs) /\ n = S[Len(fs)]

Bad(v) == \E w \in Within(v) : ~ Supported(w)

LEMMA LevelsNat == Levels \in Nat /\ Vals = ValsTo(Levels) /\ Trees = TreesTo(Levels)
  BY TextsAssumption DEF Vals, Trees

LEMMA FrameTree ==
    ASSUME NEW fr \in Frame, NEW v, SoFar(v, fr)
    PROVE  /\ Tree(fr) \in Trees /\ size[Tree(fr)] \in Nat
           /\ IsBranch(Tree(fr)) /\ Tree(fr).items = fr.done
           /\ size[Tree(fr)] = Sized(size, Tree(fr), Len(fr.done))
           /\ Levels # 0 /\ Levels - 1 \in Nat
<1>1. v \in Vals /\ v.type \in {"list", "map"}
  BY DEF SoFar, Frame
<1>2. Levels # 0 /\ Levels - 1 \in Nat /\ Levels - 1 + 1 = Levels
  BY <1>1, LevelsNat, ValKinds
<1>3. fr.done \in Seq(Seq(Char) \X TreesTo(Levels - 1))
  BY DEF Frame
<1>4. Tree(fr) = [json |-> IF fr.type = "map" THEN "object" ELSE "array", items |-> fr.done]
  BY DEF Tree
<1>5. Tree(fr).json \in {"array", "object"} /\ Tree(fr).items = fr.done
  BY <1>4
<1>6. Tree(fr) \in TreesTo(Levels - 1 + 1)
  BY <1>2, <1>3, <1>4, BranchesAre
<1>7. Tree(fr) \in Trees
  BY <1>2, <1>6, LevelsNat
<1>8. size[Tree(fr)] = SizeBy(size, Tree(fr)) /\ size[Tree(fr)] \in Nat
  BY <1>7, FunctionsAre, SizesAreNat
<1>9. SizeBy(size, Tree(fr)) = IF IsBranch(Tree(fr)) THEN Sized(size, Tree(fr), Len(Tree(fr).items)) ELSE 1
  BY SizedAre
<1> QED
  BY <1>2, <1>5, <1>7, <1>8, <1>9 DEF IsBranch

(* What an activation has still to do is of its value.                     *)
LEMMA TodoIs ==
    ASSUME NEW fr \in Frame, NEW v, SoFar(v, fr), fr.todo # <<>>
    PROVE  /\ Head(fr.todo)[2] \in Kids(v) /\ Head(fr.todo)[2] \in Vals
           /\ fr.type = "map" => Head(fr.todo)[1] \in DOMAIN v.of /\ Head(fr.todo)[1] \in Vals
<1>1. PICK e \in Entries(v) : MadeSoFar(v, fr, e)
  BY DEF SoFar
<1>2. v \in Vals /\ v.type = fr.type /\ v.type \in {"list", "map"} /\ v \in ValsTo(Levels) /\ Levels \in Nat
  BY LevelsNat DEF SoFar, Frame
<1>3. fr.todo \in Seq(Vals \X Vals) /\ Len(fr.done) \in Nat
  BY DEF Frame
<1>4. Head(fr.todo) = fr.todo[1] /\ 1 \in 1 .. Len(fr.todo) /\ Len(fr.todo) \in Nat /\ fr.todo[1] \in Vals \X Vals
  BY <1>3
<1>5. Head(fr.todo) = e[Len(fr.done) + 1]
  BY <1>1, <1>4 DEF MadeSoFar
<1>6. Len(fr.done) + 1 \in 1 .. Len(e)
  <2>1. Len(e) = Len(fr.done) + Len(fr.todo)
    BY <1>1 DEF MadeSoFar
  <2>2. PICK a \in Nat, b \in Nat : a = Len(fr.done) /\ b = Len(fr.todo) /\ b >= 1
    BY <1>3, <1>4
  <2>3. Len(e) = a + b
    BY <2>1, <2>2
  <2>4. a \in Nat /\ b \in Nat /\ b >= 1
    BY <2>2
  <2>5. a + 1 \in 1 .. (a + b)
    BY ONLY <2>4
  <2> QED
    BY <2>2, <2>3, <2>5
<1>7. DOMAIN e = 1 .. Len(e)
  BY <1>2, EntriesAre
<1>8. PICK i \in DOMAIN e : Head(fr.todo) = e[i]
  BY <1>5, <1>6, <1>7
<1>9. e[i][2] \in Kids(v) /\ (v.type = "map" => e[i][1] \in DOMAIN v.of)
  BY <1>2, EntriesAre
<1> QED
  BY <1>2, <1>4, <1>8, <1>9

LEMMA TopValue ==
    ASSUME NEW g, NEW fs, Stack(g, fs, TRUE)
    PROVE  /\ Len(fs) \in Nat /\ ValueAt(g, fs, Len(fs) + 1) \in Vals
           /\ fs # <<>> => ValueAt(g, fs, Len(fs) + 1) = Head(fs[Len(fs)].todo)[2]
<1>1. Len(fs) \in Nat /\ g \in Vals /\ fs \in Seq(Frame)
  BY DEF Stack
<1>2. CASE fs = <<>>
  BY <1>1, <1>2 DEF ValueAt
<1>3. CASE fs # <<>>
  <2>1. Len(fs) \in DOMAIN fs /\ Len(fs) # 0 /\ fs[Len(fs)] \in Frame
    BY <1>1, <1>3
  <2>2. SoFar(ValueAt(g, fs, Len(fs)), fs[Len(fs)]) /\ fs[Len(fs)].todo # <<>>
    BY <2>1 DEF Stack, Waits
  <2>3. Head(fs[Len(fs)].todo)[2] \in Vals
    BY <2>1, <2>2, TodoIs
  <2> QED
    BY <1>1, <2>1, <2>3 DEF ValueAt
<1> QED
  BY <1>2, <1>3

(* A list or map begins: one node, and nothing in it yet.                  *)
LEMMA PushStack ==
    ASSUME NEW g, NEW fs, Stack(g, fs, TRUE), NEW v, v = ValueAt(g, fs, Len(fs) + 1),
           v.type \in {"list", "map"}, NEW e \in Entries(v), NEW fr,
           fr = [type |-> v.type, todo |-> e, done |-> <<>>], NEW n, Counts(fs, n)
    PROVE  Stack(g, Append(fs, fr), FALSE) /\ Counts(Append(fs, fr), n + 1)
<1>1. Len(fs) \in Nat /\ v \in Vals /\ g \in Vals /\ fs \in Seq(Frame)
  BY TopValue DEF Stack
<1>2. v \in ValsTo(Levels) /\ Levels \in Nat
  BY <1>1, LevelsNat
<1>3. e \in Seq(Vals \X Vals)
  <2>1. \A T : (\A i \in DOMAIN e : e[i] \in T) => e \in Seq(T)
    BY <1>2, EntriesAre
  <2>2. ASSUME NEW i \in DOMAIN e PROVE e[i] \in Vals \X Vals
    <3>1. e[i] = <<e[i][1], e[i][2]>> /\ e[i][2] \in Kids(v)
      BY <1>2, EntriesAre
    <3>2. Levels - 1 \in Nat /\ Levels - 1 <= Levels /\ e[i][2] \in ValsTo(Levels - 1)
      BY <1>2, <3>1, KidsLower
    <3>3. e[i][2] \in Vals
      BY <3>2, TreesAre
    <3>4. e[i][1] \in Vals
      <4>1. CASE v.type = "list"
        <5>1. e[i][1] = NilVal
          BY <4>1 DEF Entries
        <5>2. NilVal \in Plains
          BY DEF Plains, Unmapped, NilVal
        <5> QED
          BY <1>2, <5>1, <5>2, PlainsAre, LevelsNat
      <4>2. CASE v.type = "map"
        <5>1. e[i][1] \in Kids(v)
          BY <1>2, <4>2, EntriesAre DEF Kids
        <5>2. e[i][1] \in ValsTo(Levels - 1)
          BY <1>2, <5>1, KidsLower
        <5> QED
          BY <3>2, <5>2, TreesAre
      <4> QED
        BY <4>1, <4>2
    <3> QED
      BY <3>1, <3>3, <3>4
  <2> QED
    BY <2>1, <2>2
<1>4. fr \in Frame
  BY <1>3 DEF Frame
<1>5. SoFar(v, fr)
  <2>1. MadeSoFar(v, fr, e)
    BY <1>3 DEF MadeSoFar
  <2> QED
    BY <1>1, <2>1 DEF SoFar
<1> DEFINE more == Append(fs, fr)
<1>6. /\ more \in Seq(Frame) /\ Len(more) = Len(fs) + 1
      /\ more[Len(fs) + 1] = fr /\ \A d \in 1 .. Len(fs) : more[d] = fs[d]
      /\ DOMAIN more = 1 .. Len(fs) + 1 /\ DOMAIN fs = 1 .. Len(fs)
  BY <1>1, <1>4
<1> HIDE DEF more
<1>7. \A d \in 1 .. Len(fs) + 1 : ValueAt(g, more, d) = ValueAt(g, fs, d)
  <2>1. ASSUME NEW d \in 1 .. Len(fs) + 1, d # 1 PROVE more[d - 1] = fs[d - 1]
    BY <1>1, <1>6, <2>1
  <2> QED
    BY <2>1 DEF ValueAt
<1>8. Stack(g, more, FALSE)
  <2>1. ASSUME NEW d \in 1 .. Len(fs) + 1
        PROVE  SoFar(ValueAt(g, more, d), more[d]) /\ (d < Len(more) => Waits(more[d]))
    <3>1. CASE d = Len(fs) + 1
      BY <1>1, <1>5, <1>6, <1>7, <3>1
    <3>2. CASE d # Len(fs) + 1
      <4>1. d \in DOMAIN fs
        BY <1>1, <1>6, <3>2
      <4>2. SoFar(ValueAt(g, fs, d), fs[d]) /\ Waits(fs[d])
        BY <4>1 DEF Stack
      <4> QED
        BY <1>6, <1>7, <4>1, <4>2
    <3> QED
      BY <3>1, <3>2
  <2> QED
    BY <1>1, <1>6, <2>1 DEF Stack
<1>9. size[Tree(fr)] = 1
  <2>1. size[Tree(fr)] = Sized(size, Tree(fr), Len(fr.done)) /\ Len(fr.done) = 0
    BY <1>4, <1>5, FrameTree
  <2> QED
    BY <2>1, SizedAre
<1>10. Counts(more, n + 1)
  <2>1. PICK S : Sums(S, fs) /\ n = S[Len(fs)]
    BY DEF Counts
  <2> DEFINE T == [i \in Nat |-> IF i = Len(fs) + 1 THEN n + 1 ELSE S[i]]
  <2>2. S \in [Nat -> Nat] /\ n \in Nat
    BY <1>1, <2>1 DEF Sums
  <2>3. T \in [Nat -> Nat] /\ T[0] = 0 /\ T[Len(fs) + 1] = n + 1 /\ \A i \in 0 .. Len(fs) : T[i] = S[i]
    <3>1. n + 1 \in Nat /\ S[0] = 0 /\ \A i \in Nat : S[i] \in Nat
      <4>1. S[0] = 0
        BY <2>1 DEF Sums
      <4>2. \A i \in Nat : S[i] \in Nat
        BY <2>2
      <4>3. n + 1 \in Nat
        BY <2>2
      <4> QED
        BY <4>1, <4>2, <4>3
    <3>2. T \in [Nat -> Nat]
      BY <3>1
    <3>3. Len(fs) + 1 \in Nat /\ Len(fs) + 1 # 0 /\ \A i \in 0 .. Len(fs) : i \in Nat /\ i # Len(fs) + 1
      BY <1>1
    <3> QED
      BY <3>1, <3>2, <3>3
  <2> HIDE DEF T
  <2>4. ASSUME NEW d \in 1 .. Len(fs) + 1 PROVE T[d] = T[d - 1] + size[Tree(more[d])]
    <3>1. CASE d = Len(fs) + 1
      <4>1. d - 1 = Len(fs) /\ Len(fs) \in 0 .. Len(fs)
        BY <1>1, <3>1
      <4>2. T[d - 1] = n /\ T[d] = n + 1 /\ more[d] = fr
        BY <1>6, <2>1, <2>3, <3>1, <4>1
      <4> QED
        BY <1>9, <4>2
    <3>2. CASE d # Len(fs) + 1
      <4>1. d \in DOMAIN fs /\ d \in 0 .. Len(fs) /\ d - 1 \in 0 .. Len(fs)
        BY <1>1, <1>6, <3>2
      <4> QED
        BY <1>6, <2>1, <2>3, <4>1 DEF Sums
    <3> QED
      BY <3>1, <3>2
  <2> QED
    BY <1>6, <2>3, <2>4 DEF Counts, Sums
<1> QED
  BY <1>8, <1>10 DEF more
(* The first activations of those there are. *)
LEMMA OuterIs ==
    ASSUME NEW fs \in Seq(Frame), fs # <<>>, NEW k, k = Len(fs), NEW out, out = SubSeq(fs, 1, k - 1)
    PROVE  /\ k \in Nat /\ k # 0 /\ k - 1 \in Nat /\ DOMAIN fs = 1 .. k /\ fs[k] \in Frame
           /\ out \in Seq(Frame) /\ Len(out) = k - 1 /\ DOMAIN out = 1 .. k - 1
           /\ \A d \in 1 .. k - 1 : out[d] = fs[d] /\ d \in 1 .. k
<1>1. k \in Nat /\ k # 0 /\ k - 1 \in Nat /\ DOMAIN fs = 1 .. k /\ fs[k] \in Frame
  OBVIOUS
<1>2. \A i \in 1 .. k - 1 : fs[i] \in Frame
  BY <1>1
<1>3. /\ out \in Seq(Frame) /\ Len(out) = k - 1
      /\ \A d \in 1 .. k - 1 : out[d] = fs[d]
  <2>1. 1 \in Int /\ k - 1 \in Int
    BY <1>1
  <2>2. /\ SubSeq(fs, 1, k - 1) \in Seq(Frame)
        /\ Len(SubSeq(fs, 1, k - 1)) = IF 1 <= k - 1 THEN k - 1 - 1 + 1 ELSE 0
        /\ \A i \in 1 .. k - 1 - 1 + 1 : SubSeq(fs, 1, k - 1)[i] = fs[1 + i - 1]
    BY <1>2, <2>1, SubSeqProperties
  <2> QED
    BY <1>1, <2>2
<1>4. DOMAIN out = 1 .. k - 1
  BY <1>3
<1>6. \A d \in 1 .. k - 1 : d \in 1 .. k
  BY <1>1
<1> QED
  BY <1>1, <1>3, <1>4, <1>6

LEMMA OuterValues ==
    ASSUME NEW fs, NEW k \in Nat, NEW out, \A d \in 1 .. k - 1 : out[d] = fs[d], NEW g
    PROVE  \A d \in 1 .. k : ValueAt(g, out, d) = ValueAt(g, fs, d)
<1>1. ASSUME NEW d \in 1 .. k, d # 1 PROVE out[d - 1] = fs[d - 1]
  <2>1. d - 1 \in 1 .. k - 1
    BY <1>1
  <2> QED
    BY <2>1
<1> QED
  BY <1>1 DEF ValueAt

(* An activation returns, with what it made or after deleting it.          *)
LEMMA PopStack ==
    ASSUME NEW g, NEW fs, Stack(g, fs, FALSE), fs # <<>>,
           NEW k, k = Len(fs), NEW out, out = SubSeq(fs, 1, k - 1), NEW n, Counts(fs, n)
    PROVE  /\ Stack(g, out, TRUE) /\ Len(out) + 1 = k
           /\ ValueAt(g, out, k) = ValueAt(g, fs, k) /\ SoFar(ValueAt(g, fs, k), fs[k])
           /\ Counts(out, n - size[Tree(fs[k])])
           /\ n \in Nat /\ size[Tree(fs[k])] \in Nat
<1>1. fs \in Seq(Frame) /\ g \in Vals
  BY DEF Stack
<1>2. /\ k \in Nat /\ k # 0 /\ k - 1 \in Nat /\ DOMAIN fs = 1 .. k /\ fs[k] \in Frame
      /\ out \in Seq(Frame) /\ Len(out) = k - 1 /\ DOMAIN out = 1 .. k - 1
      /\ \A d \in 1 .. k - 1 : out[d] = fs[d] /\ d \in 1 .. k
      /\ \A d \in 1 .. k : ValueAt(g, out, d) = ValueAt(g, fs, d)
  <2>1. /\ k \in Nat /\ k # 0 /\ k - 1 \in Nat /\ DOMAIN fs = 1 .. k /\ fs[k] \in Frame
        /\ out \in Seq(Frame) /\ Len(out) = k - 1 /\ DOMAIN out = 1 .. k - 1
        /\ \A d \in 1 .. k - 1 : out[d] = fs[d] /\ d \in 1 .. k
    BY <1>1, OuterIs
  <2>2. \A d \in 1 .. k : ValueAt(g, out, d) = ValueAt(g, fs, d)
    BY ONLY <2>1, OuterValues
  <2> QED
    BY <2>1, <2>2
<1>3. k \in DOMAIN fs /\ SoFar(ValueAt(g, fs, k), fs[k])
  BY <1>2 DEF Stack
<1>4. size[Tree(fs[k])] \in Nat
  BY <1>2, <1>3, FrameTree
<1>5. Stack(g, out, TRUE)
  <2>1. ASSUME NEW d \in 1 .. k - 1
        PROVE  SoFar(ValueAt(g, out, d), out[d]) /\ Waits(out[d])
    <3>1. d \in DOMAIN fs /\ d < Len(fs)
      BY <1>2
    <3>2. SoFar(ValueAt(g, fs, d), fs[d]) /\ Waits(fs[d])
      BY <3>1 DEF Stack
    <3> QED
      BY <1>2, <3>2
  <2> QED
    BY <1>1, <1>2, <2>1 DEF Stack
<1>6. PICK S : Sums(S, fs) /\ n = S[k]
  BY DEF Counts
<1>7. n \in Nat /\ S[k] = S[k - 1] + size[Tree(fs[k])] /\ S[k - 1] \in Nat
  BY <1>2, <1>3, <1>6 DEF Sums
<1>8. S[k - 1] = n - size[Tree(fs[k])]
  BY <1>4, <1>6, <1>7
<1>9. Sums(S, out)
  BY <1>2, <1>6 DEF Sums
<1>10. Counts(out, n - size[Tree(fs[k])])
  BY <1>2, <1>8, <1>9 DEF Counts
<1>11. Len(out) + 1 = k /\ k \in 1 .. k
  BY <1>2
<1> QED
  BY <1>2, <1>3, <1>4, <1>5, <1>7, <1>10, <1>11

(* The tree of a child is added to the one in the making.                  *)
LEMMA AddToStack ==
    ASSUME NEW g, NEW fs, Stack(g, fs, TRUE), fs # <<>>, NEW n, Counts(fs, n),
           NEW k, k = Len(fs), NEW t \in made[ValueAt(g, fs, k + 1)], NEW name,
           name = (IF fs[k].type = "map" THEN CString(Head(fs[k].todo)[1].chars) ELSE <<>>), NEW fr,
           fr = [fs[k] EXCEPT !.todo = Tail(@), !.done = Append(@, <<name, t>>)]
    PROVE  /\ Stack(g, Append(SubSeq(fs, 1, k - 1), fr), FALSE)
           /\ Counts(Append(SubSeq(fs, 1, k - 1), fr), n + size[t])
           /\ fr \in Frame
<1>0. PICK out : out = SubSeq(fs, 1, k - 1)
  OBVIOUS
<1>1. fs \in Seq(Frame) /\ g \in Vals
  BY DEF Stack
<1>2. /\ k \in Nat /\ k # 0 /\ k - 1 \in Nat /\ DOMAIN fs = 1 .. k /\ fs[k] \in Frame
      /\ out \in Seq(Frame) /\ Len(out) = k - 1 /\ DOMAIN out = 1 .. k - 1
      /\ \A d \in 1 .. k - 1 : out[d] = fs[d] /\ d \in 1 .. k
      /\ \A d \in 1 .. k : ValueAt(g, out, d) = ValueAt(g, fs, d)
  <2>1. /\ k \in Nat /\ k # 0 /\ k - 1 \in Nat /\ DOMAIN fs = 1 .. k /\ fs[k] \in Frame
        /\ out \in Seq(Frame) /\ Len(out) = k - 1 /\ DOMAIN out = 1 .. k - 1
        /\ \A d \in 1 .. k - 1 : out[d] = fs[d] /\ d \in 1 .. k
    BY <1>0, <1>1, OuterIs
  <2>2. \A d \in 1 .. k : ValueAt(g, out, d) = ValueAt(g, fs, d)
    BY <2>1, OuterValues
  <2> QED
    BY <2>1, <2>2
<1>3. PICK v : v = ValueAt(g, fs, k)
  OBVIOUS
<1>4. k \in DOMAIN fs /\ SoFar(v, fs[k]) /\ Waits(fs[k])
  BY <1>2, <1>3 DEF Stack
<1>5. /\ Levels # 0 /\ Levels - 1 \in Nat /\ Tree(fs[k]) \in Trees /\ size[Tree(fs[k])] \in Nat
      /\ Tree(fs[k]).items = fs[k].done
      /\ size[Tree(fs[k])] = Sized(size, Tree(fs[k]), Len(fs[k].done))
  BY <1>2, <1>4, FrameTree
<1>6. PICK todo, done : /\ todo = fs[k].todo /\ done = fs[k].done
                        /\ todo \in Seq(Vals \X Vals) /\ todo # <<>>
                        /\ done \in Seq(Seq(Char) \X TreesTo(Levels - 1))
                        /\ fs[k] = [type |-> fs[k].type, todo |-> todo, done |-> done]
                        /\ fs[k].type \in {"list", "map"}
  BY <1>2, <1>4 DEF Frame, Waits
<1>7. fr = [type |-> fs[k].type, todo |-> Tail(todo), done |-> Append(done, <<name, t>>)]
  BY <1>6
<1>8. /\ v \in Vals /\ v.type = fs[k].type /\ v \in ValsTo(Levels) /\ Levels \in Nat
      /\ \E e \in Entries(v) : MadeSoFar(v, fs[k], e)
  BY <1>4, LevelsNat DEF SoFar
<1>9. PICK e \in Entries(v) : MadeSoFar(v, fs[k], e)
  BY <1>8
<1>10. ValueAt(g, fs, k + 1) = Head(todo)[2]
  BY <1>2, <1>6, TopValue
<1>11. /\ Head(todo)[2] \in Kids(v)
       /\ v.type = "map" => Head(todo)[1] \in DOMAIN v.of /\ Head(todo)[1] \in Vals /\ Head(todo)[1].type = "string"
  BY <1>2, <1>4, <1>6, <1>8, TodoIs DEF Waits
<1>12. t \in TreesTo(Levels - 1)
  <2>1. Head(todo)[2] \in ValsTo(Levels - 1)
    BY <1>8, <1>11, KidsLower
  <2>2. Levels - 1 <= Levels
    BY <1>8
  <2> QED
    BY <1>5, <1>10, <2>1, <2>2, MadeLevels
<1>13. name \in Seq(Char) /\ name = NameOf(v.type, Head(todo)[1])
  <2>1. CASE v.type = "map"
    <3>1. Head(todo)[1].chars \in Seq(Char)
      BY <1>8, <1>11, <2>1, LevelsNat, ValKinds
    <3> QED
      BY <1>6, <1>8, <2>1, <3>1, CStrings DEF NameOf
  <2>2. CASE v.type # "map"
    BY <1>8, <2>2 DEF NameOf
  <2> QED
    BY <2>1, <2>2
<1>14. /\ Tail(todo) \in Seq(Vals \X Vals) /\ Len(Tail(todo)) = Len(todo) - 1
       /\ \A i \in 1 .. Len(Tail(todo)) : Tail(todo)[i] = todo[i + 1]
       /\ Len(todo) \in Nat /\ Len(todo) >= 1 /\ Head(todo) = todo[1]
  BY <1>6, HeadTailProperties
<1>15. PICK d \in Nat : d = Len(done)
  BY <1>6
<1>16. PICK more : more = Append(done, <<name, t>>)
  OBVIOUS
<1>17. /\ more \in Seq(Seq(Char) \X TreesTo(Levels - 1)) /\ Len(more) = d + 1
       /\ more[d + 1] = <<name, t>> /\ \A i \in 1 .. d : more[i] = done[i]
  <2>1. PICK E : E = Seq(Char) \X TreesTo(Levels - 1)
    OBVIOUS
  <2>2. PICK x : x = <<name, t>>
    OBVIOUS
  <2>3. x \in E /\ done \in Seq(E) /\ more = Append(done, x)
    BY <1>6, <1>12, <1>13, <1>16, <2>1, <2>2
  <2>4. more \in Seq(E) /\ Len(more) = Len(done) + 1 /\ more[Len(done) + 1] = x
        /\ \A i \in 1 .. Len(done) : more[i] = done[i]
    BY ONLY <2>3
  <2> QED
    BY <1>15, <2>1, <2>2, <2>4
<1>17a. fr.todo = Tail(todo) /\ fr.done = more
  <2>1. PICK rest : rest = Tail(todo)
    OBVIOUS
  <2>2. fr = [type |-> fs[k].type, todo |-> rest, done |-> more]
    BY <1>7, <1>16, <2>1
  <2>3. fr.todo = rest /\ fr.done = more
    BY ONLY <2>2
  <2> QED
    BY <2>1, <2>3
<1>18. fr \in Frame
  BY <1>6, <1>7, <1>14, <1>16, <1>17 DEF Frame
<1>19. MadeSoFar(v, fr, e)
  <2>1. Len(e) = d + Len(todo)
    BY <1>6, <1>9, <1>15 DEF MadeSoFar
  <2>2. \A i \in 1 .. Len(todo) : todo[i] = e[d + i]
    BY <1>6, <1>9, <1>15 DEF MadeSoFar
  <2>3. \A i \in 1 .. d : /\ v.type = "map" => e[i][1].type = "string"
                          /\ done[i][1] = NameOf(v.type, e[i][1])
                          /\ done[i][2] \in made[e[i][2]]
    BY <1>6, <1>9, <1>15 DEF MadeSoFar
  <2>4. Len(e) = (d + 1) + Len(Tail(todo))
    BY <1>14, <2>1
  <2>5. \A i \in 1 .. Len(Tail(todo)) : Tail(todo)[i] = e[(d + 1) + i]
    <3>1. ASSUME NEW i \in 1 .. Len(Tail(todo)) PROVE Tail(todo)[i] = e[(d + 1) + i]
      <4>1. PICK m \in Nat : m = Len(todo) /\ Len(Tail(todo)) = m - 1
        BY <1>14
      <4>2. i \in 1 .. m - 1 /\ d \in Nat /\ m \in Nat
        BY <1>15, <4>1
      <4>3. i + 1 \in 1 .. m /\ d + (i + 1) = (d + 1) + i
        BY ONLY <4>2
      <4>4. Tail(todo)[i] = todo[i + 1] /\ todo[i + 1] = e[d + (i + 1)]
        BY <1>14, <2>2, <4>1, <4>3
      <4> QED
        BY <4>3, <4>4
    <3> QED
      BY <3>1
  <2>6. e[d + 1] = Head(todo)
    BY <1>14, <2>2
  <2>7. ASSUME NEW i \in 1 .. d + 1
        PROVE  /\ v.type = "map" => e[i][1].type = "string"
               /\ more[i][1] = NameOf(v.type, e[i][1])
               /\ more[i][2] \in made[e[i][2]]
    <3>1. CASE i = d + 1
      BY <1>10, <1>11, <1>13, <1>17, <2>6, <3>1
    <3>2. CASE i # d + 1
      <4>1. i \in 1 .. d
        BY <3>2
      <4> QED
        BY <1>17, <2>3, <4>1
    <3> QED
      BY <3>1, <3>2
  <2> QED
    BY <1>17, <1>17a, <2>4, <2>5, <2>7 DEF MadeSoFar
<1>20. SoFar(v, fr)
  <2>1. fr.type = v.type
    BY <1>7, <1>8
  <2> QED
    BY <1>8, <1>19, <2>1 DEF SoFar
<1>21. PICK all : all = Append(out, fr)
  OBVIOUS
<1>22. /\ all \in Seq(Frame) /\ Len(all) = k /\ DOMAIN all = 1 .. k /\ all[k] = fr
       /\ \A j \in 1 .. k - 1 : all[j] = fs[j] /\ j \in 1 .. k
  <2>1. /\ all \in Seq(Frame) /\ Len(all) = Len(out) + 1 /\ all[Len(out) + 1] = fr
        /\ \A j \in 1 .. Len(out) : all[j] = out[j]
    BY <1>2, <1>18, <1>21
  <2> QED
    BY <1>2, <2>1
<1>23. \A j \in 1 .. k : ValueAt(g, all, j) = ValueAt(g, fs, j)
  <2>1. ASSUME NEW j \in 1 .. k, j # 1 PROVE all[j - 1] = fs[j - 1]
    <3>1. j - 1 \in 1 .. k - 1
      BY <1>2, <2>1
    <3> QED
      BY <1>22, <3>1
  <2> QED
    BY <2>1 DEF ValueAt
<1>24. Stack(g, all, FALSE)
  <2>1. ASSUME NEW j \in 1 .. k
        PROVE  SoFar(ValueAt(g, all, j), all[j]) /\ (j < k => Waits(all[j]))
    <3>1. CASE j = k
      BY <1>2, <1>3, <1>20, <1>22, <1>23, <3>1
    <3>2. CASE j # k
      <4>1. j \in DOMAIN fs /\ j \in 1 .. k - 1
        BY <1>2, <3>2
      <4>2. SoFar(ValueAt(g, fs, j), fs[j]) /\ Waits(fs[j])
        BY <4>1 DEF Stack
      <4> QED
        BY <1>22, <1>23, <4>1, <4>2
    <3> QED
      BY <3>1, <3>2
  <2> QED
    BY <1>1, <1>22, <2>1 DEF Stack
<1>25. size[Tree(fr)] = size[Tree(fs[k])] + size[t]
  <2>1. PICK x, y : x = Tree(fr) /\ y = Tree(fs[k])
    OBVIOUS
  <2>2. size[x] = Sized(size, x, Len(fr.done)) /\ x.items = fr.done
    BY <1>18, <1>20, <2>1, FrameTree
  <2>3. size[x] = Sized(size, x, d + 1) /\ x.items = more
    BY <1>17, <1>17a, <2>2
  <2>4. size[y] = Sized(size, y, d) /\ y.items = done
    BY <1>5, <1>6, <1>15, <2>1
  <2>5. Sized(size, x, d + 1) = Sized(size, x, d) + size[x.items[d + 1][2]]
    BY <1>15, SizedAre
  <2>6. \A i \in 1 .. d : size[x.items[i][2]] = size[y.items[i][2]]
    BY <1>17, <2>3, <2>4
  <2>7. Sized(size, x, d) = Sized(size, y, d)
    BY <1>15, <2>6, SizedAlike
  <2>8. x.items[d + 1][2] = t
    BY <1>17, <2>3
  <2> QED
    BY <2>1, <2>3, <2>4, <2>5, <2>7, <2>8
<1>26. size[t] \in Nat /\ t \in Trees
  <2>1. Levels - 1 <= Levels
    BY <1>8
  <2>2. t \in Trees
    BY <1>5, <1>12, <2>1, TreesAre
  <2> QED
    BY <2>2, SizesAreNat
<1>27. Counts(all, n + size[t])
  <2>1. PICK S : Sums(S, fs) /\ n = S[k]
    BY DEF Counts
  <2>2. S \in [Nat -> Nat] /\ S[0] = 0 /\ n \in Nat /\ \A j \in 1 .. k : S[j] = S[j - 1] + size[Tree(fs[j])]
    BY <1>2, <2>1 DEF Sums
  <2> DEFINE T == [i \in Nat |-> IF i = k THEN n + size[t] ELSE S[i]]
  <2>3. T \in [Nat -> Nat]
    <3>1. n + size[t] \in Nat
      <4>1. PICK a, b : a = n /\ b = size[t] /\ a \in Nat /\ b \in Nat
        BY <1>26, <2>2
      <4>2. a + b \in Nat
        BY ONLY <4>1
      <4> QED
        BY <4>1, <4>2
    <3>2. \A i \in Nat : S[i] \in Nat
      BY <2>2
    <3> QED
      BY <3>1, <3>2
  <2>4. T[0] = 0 /\ T[k] = n + size[t] /\ \A i \in 0 .. k - 1 : T[i] = S[i]
    <3>1. \A i \in 0 .. k - 1 : i \in Nat /\ i # k
      BY <1>2
    <3> QED
      BY <1>2, <2>2, <3>1
  <2> HIDE DEF T
  <2>5. ASSUME NEW j \in 1 .. k PROVE T[j] = T[j - 1] + size[Tree(all[j])]
    <3>1. j - 1 \in 0 .. k - 1 /\ j \in 1 .. k
      BY <1>2
    <3>2. CASE j = k
      <4>1. T[j] = n + size[t] /\ T[j - 1] = S[k - 1] /\ all[j] = fr
        BY <1>22, <2>4, <3>1, <3>2
      <4>2. n = S[k - 1] + size[Tree(fs[k])] /\ S[k - 1] \in Nat
        BY <1>2, <2>1, <2>2, <3>1, <3>2
      <4> QED
        BY <1>5, <1>25, <1>26, <4>1, <4>2
    <3>3. CASE j # k
      <4>1. j \in 0 .. k - 1 /\ j \in 1 .. k - 1
        BY <1>2, <3>3
      <4> QED
        BY <1>22, <2>2, <2>4, <3>1, <4>1
    <3> QED
      BY <3>2, <3>3
  <2> QED
    BY <1>22, <2>3, <2>4, <2>5 DEF Counts, Sums
<1> QED
  BY <1>0, <1>18, <1>21, <1>24, <1>27

(* When all of a value is done, a tree has been made of it.                *)
LEMMA AllMade ==
    ASSUME NEW fr \in Frame, NEW v, SoFar(v, fr), fr.todo = <<>>
    PROVE  Tree(fr) \in made[v]
<1>1. PICK e \in Entries(v) : MadeSoFar(v, fr, e)
  BY DEF SoFar
<1>2. v \in Vals /\ v.type = fr.type /\ v.type \in {"list", "map"} /\ v \in ValsTo(Levels) /\ Levels \in Nat /\ Levels <= Levels
  BY LevelsNat DEF SoFar, Frame
<1>3. fr.done \in Seq(Seq(Char) \X TreesTo(Levels - 1)) /\ Levels - 1 \in Nat /\ Levels - 1 <= Levels
  BY <1>2, FrameTree DEF Frame
<1>4. fr.done \in Seq(Seq(Char) \X Trees)
  <2>1. TreesTo(Levels - 1) \subseteq Trees
    BY <1>3, TreesAre
  <2> QED
    BY <1>3, <2>1
<1>5. Len(e) = Len(fr.done)
  BY <1>1, <1>3 DEF MadeSoFar
<1>6. DOMAIN e = 1 .. Len(e) /\ DOMAIN fr.done = 1 .. Len(fr.done)
  BY <1>2, <1>3, EntriesAre
<1>7. Tree(fr) = [json |-> JsonOf(v.type), items |-> fr.done]
  BY <1>2 DEF Tree, JsonOf
<1>8. Tree(fr) \in [json : {JsonOf(v.type)}, items : Seq(Seq(Char) \X Trees)] /\ Tree(fr).items = fr.done
  BY <1>4, <1>7
<1>9. \A i \in DOMAIN e : /\ v.type = "map" => e[i][1].type = "string"
                          /\ fr.done[i][1] = NameOf(v.type, e[i][1])
                          /\ fr.done[i][2] \in made[e[i][2]]
  BY <1>1, <1>5, <1>6 DEF MadeSoFar
<1>10. DOMAIN Tree(fr).items = DOMAIN e
  BY <1>5, <1>6, <1>8
<1>11. \E f \in Entries(v) :
          /\ DOMAIN Tree(fr).items = DOMAIN f
          /\ \A i \in DOMAIN f : /\ v.type = "map" => f[i][1].type = "string"
                                /\ Tree(fr).items[i][1] = NameOf(v.type, f[i][1])
                                /\ Tree(fr).items[i][2] \in made[f[i][2]]
  BY <1>8, <1>9, <1>10
<1>12. made[v] = MadeBy(made, v)
  BY <1>2, FunctionsAre
<1> QED
  BY <1>2, <1>8, <1>11, <1>12 DEF MadeBy

(* A value is bad if it is made of one that is, or has a key that is no    *)
(* string.                                                                 *)
LEMMA BadAbove ==
    ASSUME NEW v \in Vals, NEW k \in Kids(v), Bad(k)
    PROVE  Bad(v)
  BY WithinIs DEF Bad
LEMMA BadKey ==
    ASSUME NEW v \in Vals, v.type = "map", NEW k \in DOMAIN v.of, k.type # "string"
    PROVE  Bad(v)
  BY WithinHasIt DEF Bad, Supported, StringKeys
LEMMA BadType ==
    ASSUME NEW v, v.type \in Unsupported
    PROVE  Bad(v)
  BY WithinHasIt DEF Bad, Supported
-----------------------------------------------------------------------------
(* What holds while a call runs.  Where val_to_cjson is, the value there   *)
(* is one of those the argument is made of; the activations above it wait  *)
(* for its tree, and nodes counts what they made so far.                   *)
Current == ValueAt(given, frames, Len(frames) + 1)

Running(waits) == Stack(given, frames, waits) /\ text = NULL

Printed ==
    /\ given \in Vals
    /\ \E t \in made[given] : t \in Trees /\ t \in TreesTo(MaxNesting) /\ text = printed[t]

Where ==
    {"call", "enter", "loop", "return", "print", "done", "crashed"}

JsonInv ==
    /\ now.does \in Where
    /\ source = NULL \/ (source \in Texts /\ given = JsonToVal(source))
    /\ now.does = "call" => frames = <<>> /\ nodes = 0 /\ source = NULL /\ text = NULL
    /\ now.does = "enter" => Running(TRUE) /\ now.val = Current /\ Counts(frames, nodes)
    /\ now.does = "loop" => Running(FALSE) /\ frames # <<>> /\ Counts(frames, nodes)
    /\ now.does = "return" =>
          /\ Running(TRUE)
          /\ now.tree = NULL => Bad(Current) /\ Counts(frames, nodes)
          /\ now.tree # NULL => /\ now.tree \in made[Current]
                                /\ \E n : Counts(frames, n) /\ nodes = n + size[now.tree]
    /\ now.does \in {"print", "done", "crashed"} => frames = <<>> /\ nodes = 0
    /\ now.does = "print" => Printed
    /\ now.does = "done" => \/ text = NULL /\ Bad(given)
                            \/ Printed /\ back = JsonToVal(text)

LEMMA NoFrames ==
    ASSUME NEW g
    PROVE  /\ Len(<<>>) = 0 /\ ValueAt(g, <<>>, Len(<<>>) + 1) = g
           /\ g \in Vals => \A waits : Stack(g, <<>>, waits)
           /\ \A n : Counts(<<>>, n) <=> n = 0
<1>1. Len(<<>>) = 0 /\ DOMAIN <<>> = {} /\ <<>> \in Seq(Frame)
  OBVIOUS
<1>2. ValueAt(g, <<>>, Len(<<>>) + 1) = g
  BY <1>1 DEF ValueAt
<1>3. g \in Vals => \A waits : Stack(g, <<>>, waits)
  BY <1>1 DEF Stack
<1>4. ASSUME NEW n PROVE Counts(<<>>, n) <=> n = 0
  <2>1. Counts(<<>>, n) => n = 0
    BY <1>1 DEF Counts, Sums
  <2>2. PICK S : S = [i \in Nat |-> 0]
    OBVIOUS
  <2>3. S \in [Nat -> Nat] /\ S[0] = 0
    BY <2>2
  <2>4. Sums(S, <<>>)
    BY <1>1, <2>3 DEF Sums
  <2>5. Counts(<<>>, 0)
    BY <1>1, <2>3, <2>4 DEF Counts
  <2> QED
    BY <2>1, <2>5
<1> QED
  BY <1>1, <1>2, <1>3, <1>4

LEMMA CountsNat ==
    ASSUME NEW fs \in Seq(Frame), NEW n, Counts(fs, n)
    PROVE  n \in Nat
<1>1. Len(fs) \in Nat
  OBVIOUS
<1> QED
  BY <1>1 DEF Counts, Sums

(* Of a value in the stack trees are made, and they have a size.           *)
LEMMA MadeTrees ==
    ASSUME NEW v \in Vals, NEW t \in made[v]
    PROVE  t \in Trees /\ size[t] \in Nat /\ t # NULL
<1>1. t \in TreesTo(Levels)
  BY LevelsNat, MadeLevels
<1>2. t.json # "none"
  BY <1>1, LevelsNat, TreeKinds
<1>3. NULL.json = "none"
  BY DEF NULL
<1> QED
  BY <1>1, <1>2, <1>3, LevelsNat, SizesAreNat

-----------------------------------------------------------------------------
(* Each step keeps it *)
LEMMA InitInv == Init => JsonInv
<1>1. [does |-> "call"].does = "call"
  OBVIOUS
<1> QED
  BY <1>1 DEF Init, JsonInv, Where

(* val_to_json begins, with a value given or read from a text. *)
LEMMA CalledInv ==
    ASSUME JsonInv, NEW v, ValToJson(v), source' = NULL \/ (source' \in Texts /\ v = JsonToVal(source')),
           v \in Vals \/ v.type \in Unsupported
    PROVE  JsonInv'
<1>1. now.does = "call" /\ frames = <<>> /\ nodes = 0 /\ text = NULL
  BY DEF ValToJson, Does, JsonInv
<1>2. given' = v /\ frames' = <<>> /\ nodes' = 0 /\ text' = NULL
  BY <1>1 DEF ValToJson
<1>3. source' = NULL \/ (source' \in Texts /\ given' = JsonToVal(source'))
  BY <1>2
<1>4. CASE v.type \in Unsupported
  <2>1. now' = [does |-> "done"]
    BY <1>4 DEF ValToJson, Go
  <2>2. now'.does = "done"
    BY <2>1
  <2>3. Bad(given')
    BY <1>2, <1>4, BadType
  <2> QED
    BY <1>2, <1>3, <2>2, <2>3 DEF JsonInv, Where, Bad
<1>5. CASE v.type \notin Unsupported
  <2>1. now' = [does |-> "enter", val |-> v]
    BY <1>5 DEF ValToJson, Enter
  <2>2. now'.does = "enter" /\ now'.val = v
    BY <2>1
  <2>3. v \in Vals
    BY <1>5
  <2>4. Stack(v, <<>>, TRUE) /\ ValueAt(v, <<>>, Len(<<>>) + 1) = v /\ Counts(<<>>, 0)
    BY <2>3, NoFrames
  <2>5. Running(TRUE)' /\ now'.val = Current' /\ Counts(frames, nodes)'
    BY <1>2, <2>2, <2>4 DEF Running, Current
  <2> QED
    BY <1>3, <2>2, <2>5 DEF JsonInv, Where
<1> QED
  BY <1>4, <1>5

LEMMA CallValInv == JsonInv /\ CallVal => JsonInv'
<1> SUFFICES ASSUME JsonInv, CallVal PROVE JsonInv'
  OBVIOUS
<1>1. PICK v \in Values : ValToJson(v) /\ UNCHANGED source
  BY DEF CallVal
<1>2. source' = NULL
  BY <1>1 DEF JsonInv, ValToJson, Does
<1>3. v \in Vals
  BY <1>1, ValuesAreVals
<1> QED
  BY <1>1, <1>2, <1>3, CalledInv

LEMMA CallTextInv == JsonInv /\ CallText => JsonInv'
<1> SUFFICES ASSUME JsonInv, CallText PROVE JsonInv'
  OBVIOUS
<1>1. PICK v : v = JsonToVal(source')
  OBVIOUS
<1>2. source' \in Texts /\ ValToJson(v)
  BY <1>1 DEF CallText
<1>3. v \in Vals \/ v.type \in Unsupported
  <2>1. source' \in TreesTo(Levels) /\ Levels \in Nat /\ Levels <= Levels
    BY <1>2, TextsAssumption, LevelsNat
  <2>2. cjson_to_val[source'] \in Vals
    BY <2>1, ConvertLevels, LevelsNat
  <2>3. Error("json_to_val: invalid JSON").type \in Unsupported
    BY DEF Error, Unsupported
  <2> QED
    BY <1>1, <2>2, <2>3 DEF JsonToVal
<1> QED
  BY <1>1, <1>2, <1>3, CalledInv
(* The value entered is in the stack. *)
LEMMA CurrentIs ==
    ASSUME Running(TRUE)
    PROVE  /\ Len(frames) \in Nat /\ Current \in Vals /\ given \in Vals /\ frames \in Seq(Frame)
           /\ Current \in ValsTo(Levels) /\ Levels \in Nat /\ Levels <= Levels
<1>1. Stack(given, frames, TRUE)
  BY DEF Running
<1>2. Len(frames) \in Nat /\ Current \in Vals
  BY <1>1, TopValue DEF Current
<1>3. given \in Vals /\ frames \in Seq(Frame)
  BY <1>1 DEF Stack
<1> QED
  BY <1>2, <1>3, LevelsNat

LEMMA EnterLeafInv == JsonInv /\ EnterLeaf => JsonInv'
<1> SUFFICES ASSUME JsonInv, EnterLeaf PROVE JsonInv'
  OBVIOUS
<1>1. /\ now.does = "enter" /\ Running(TRUE) /\ now.val = Current /\ Counts(frames, nodes)
      /\ source = NULL \/ (source \in Texts /\ given = JsonToVal(source))
  BY DEF EnterLeaf, Does, JsonInv
<1>2. /\ source' = source /\ given' = given /\ frames' = frames /\ text' = text /\ back' = back
      /\ now' = [does |-> "return", tree |-> Leaf(Current)]
      /\ nodes' = IF Leaf(Current) = NULL THEN nodes ELSE nodes + 1
  BY <1>1 DEF EnterLeaf, args, Return
<1>3. now'.does = "return" /\ now'.tree = Leaf(Current)
  BY <1>2
<1>4. /\ Len(frames) \in Nat /\ Current \in Vals /\ given \in Vals /\ frames \in Seq(Frame)
      /\ Current \in ValsTo(Levels) /\ Levels \in Nat /\ Levels <= Levels
      /\ Current.type \notin {"list", "map"}
  <2>1. Current.type \notin {"list", "map"}
    BY <1>1 DEF EnterLeaf
  <2> QED
    BY <1>1, <2>1, CurrentIs
<1>5. /\ Leaf(Current) = NULL => Bad(Current)
      /\ made[Current] = {Leaf(Current)} \ {NULL}
      /\ Leaf(Current) # NULL => Leaf(Current) \in Scalars
  BY <1>4, LeavesAre, LeafMade, BadType
<1>6. Leaf(Current) # NULL => size[Leaf(Current)] = 1
  <2>1. PICK t : t = Leaf(Current)
    OBVIOUS
  <2>2. ASSUME t # NULL PROVE size[t] = 1
    <3>1. t \in Scalars /\ t \in made[Current]
      BY <1>5, <2>1, <2>2
    <3>2. ~ IsBranch(t) /\ t \in Trees
      BY <1>4, <3>1, MadeTrees DEF IsBranch, Scalars
    <3>3. size[t] = SizeBy(size, t)
      BY <3>2, FunctionsAre
    <3> QED
      BY <3>2, <3>3 DEF SizeBy
  <2> QED
    BY <2>1, <2>2
<1>7. Current' = Current /\ Running(TRUE)'
  BY <1>1, <1>2 DEF Current, Running
<1>8. /\ now'.tree = NULL => Bad(Current') /\ Counts(frames', nodes')
      /\ now'.tree # NULL => /\ now'.tree \in made[Current']
                             /\ \E n : Counts(frames', n) /\ nodes' = n + size[now'.tree]
  BY <1>1, <1>2, <1>3, <1>5, <1>6, <1>7
<1> QED
  BY <1>1, <1>2, <1>3, <1>7, <1>8 DEF JsonInv, Where, Bad

LEMMA EnterTreeInv == JsonInv /\ EnterTree => JsonInv'
<1> SUFFICES ASSUME JsonInv, EnterTree PROVE JsonInv'
  OBVIOUS
<1>1. /\ now.does = "enter" /\ Running(TRUE) /\ now.val = Current /\ Counts(frames, nodes)
      /\ source = NULL \/ (source \in Texts /\ given = JsonToVal(source))
  BY DEF EnterTree, Does, JsonInv
<1>2. /\ source' = source /\ given' = given /\ text' = text /\ back' = back
      /\ now' = [does |-> "loop"] /\ nodes' = nodes + 1
      /\ Current.type \in {"list", "map"}
  BY <1>1 DEF EnterTree, args, Go
<1>3. PICK e \in Entries(Current) :
         frames' = Append(frames, [type |-> Current.type, todo |-> e, done |-> <<>>])
  BY <1>1 DEF EnterTree
<1>4. now'.does = "loop"
  BY <1>2
<1>5. Stack(given, frames', FALSE) /\ Counts(frames', nodes')
  BY <1>1, <1>2, <1>3, PushStack DEF Running, Current
<1>6. frames' # <<>>
  <2>1. frames \in Seq(Frame) /\ Len(frames) \in Nat
    BY <1>1, CurrentIs
  <2> QED
    BY <1>3, <2>1
<1>7. Running(FALSE)'
  BY <1>1, <1>2, <1>5 DEF Running
<1> QED
  BY <1>1, <1>2, <1>4, <1>5, <1>6, <1>7 DEF JsonInv, Where

LEMMA NextChildInv == JsonInv /\ NextChild => JsonInv'
<1> SUFFICES ASSUME JsonInv, NextChild PROVE JsonInv'
  OBVIOUS
<1>1. /\ now.does = "loop" /\ Running(FALSE) /\ frames # <<>> /\ Counts(frames, nodes)
      /\ source = NULL \/ (source \in Texts /\ given = JsonToVal(source))
  BY DEF NextChild, Does, JsonInv
<1>2. /\ source' = source /\ given' = given /\ frames' = frames /\ text' = text /\ back' = back
      /\ now' = [does |-> "enter", val |-> Head(Top.todo)[2]] /\ nodes' = nodes
      /\ Top.todo # <<>> /\ ~ KeyRefused
  BY <1>1 DEF NextChild, args, Enter
<1>3. now'.does = "enter" /\ now'.val = Head(Top.todo)[2]
  BY <1>2
<1>4. Stack(given, frames, FALSE) /\ frames \in Seq(Frame) /\ Len(frames) \in Nat
      /\ DOMAIN frames = 1 .. Len(frames) /\ Len(frames) # 0
  BY <1>1 DEF Running, Stack
<1>5. Waits(frames[Len(frames)])
  BY <1>2 DEF KeyRefused, Top, Waits
<1>6. Stack(given, frames, TRUE)
  <2>1. ASSUME NEW d \in DOMAIN frames
        PROVE  SoFar(ValueAt(given, frames, d), frames[d]) /\ Waits(frames[d])
    <3>1. d < Len(frames) \/ d = Len(frames)
      BY <1>4
    <3> QED
      BY <1>4, <1>5, <3>1 DEF Stack
  <2> QED
    BY <1>4, <2>1 DEF Stack
<1>7. Current = Head(Top.todo)[2]
  <2>1. Len(frames) + 1 # 1 /\ Len(frames) + 1 - 1 = Len(frames)
    BY <1>4
  <2> QED
    BY <2>1 DEF Current, ValueAt, Top
<1>8. Running(TRUE)' /\ Current' = Current
  BY <1>1, <1>2, <1>6 DEF Running, Current
<1> QED
  BY <1>1, <1>2, <1>3, <1>7, <1>8 DEF JsonInv, Where

(* An activation that returned. *)
LEMMA Popped ==
    ASSUME Running(FALSE), frames # <<>>, NEW n, Counts(frames, n), frames' = Outer,
           given' = given, text' = text
    PROVE  /\ Running(TRUE)' /\ Counts(frames', n - size[Tree(Top)])
           /\ SoFar(Current', Top) /\ Top \in Frame /\ Current' \in Vals
           /\ n \in Nat /\ size[Tree(Top)] \in Nat
<1>1. PICK k : k = Len(frames)
  OBVIOUS
<1>2. PICK out : out = SubSeq(frames, 1, k - 1)
  OBVIOUS
<1>3. frames' = out /\ Top = frames[k] /\ Stack(given, frames, FALSE)
  BY <1>1, <1>2 DEF Outer, Top, Running
<1>4. /\ Stack(given, out, TRUE) /\ Len(out) + 1 = k
      /\ ValueAt(given, out, k) = ValueAt(given, frames, k)
      /\ SoFar(ValueAt(given, frames, k), frames[k])
      /\ Counts(out, n - size[Tree(frames[k])])
      /\ n \in Nat /\ size[Tree(frames[k])] \in Nat
  <2>1. Stack(given, out, TRUE)
    BY <1>1, <1>2, <1>3, PopStack
  <2>2. Len(out) + 1 = k
    BY <1>1, <1>2, <1>3, PopStack
  <2>3. ValueAt(given, out, k) = ValueAt(given, frames, k)
    <3>1. frames \in Seq(Frame)
      BY <1>3 DEF Stack
    <3>2. k \in Nat /\ k # 0 /\ \A d \in 1 .. k - 1 : out[d] = frames[d]
      BY <1>1, <1>2, <3>1, OuterIs
    <3>3. k = 1 \/ out[k - 1] = frames[k - 1]
      BY ONLY <3>2
    <3> QED
      BY <3>3 DEF ValueAt
  <2>4. SoFar(ValueAt(given, frames, k), frames[k])
    BY <1>1, <1>2, <1>3, PopStack
  <2>5. Counts(out, n - size[Tree(frames[k])])
    BY <1>1, <1>2, <1>3, PopStack
  <2>6. n \in Nat /\ size[Tree(frames[k])] \in Nat
    BY <1>1, <1>2, <1>3, PopStack
  <2> QED
    BY <2>1, <2>2, <2>3, <2>4, <2>5, <2>6
<1>5. Current' = ValueAt(given, frames, k)
  BY <1>3, <1>4 DEF Current
<1>6. Running(TRUE)'
  BY <1>3, <1>4 DEF Running
<1>7. Top \in Frame
  <2>1. frames \in Seq(Frame)
    BY <1>3 DEF Stack
  <2>2. Len(frames) \in DOMAIN frames
    BY <2>1
  <2> QED
    BY <1>1, <1>3, <2>1, <2>2
<1> QED
  BY <1>3, <1>4, <1>5, <1>6, <1>7 DEF SoFar

LEMMA EndTreeInv == JsonInv /\ EndTree => JsonInv'
<1> SUFFICES ASSUME JsonInv, EndTree PROVE JsonInv'
  OBVIOUS
<1>1. /\ now.does = "loop" /\ Running(FALSE) /\ frames # <<>> /\ Counts(frames, nodes)
      /\ source = NULL \/ (source \in Texts /\ given = JsonToVal(source))
  BY DEF EndTree, Does, JsonInv
<1>2. /\ source' = source /\ given' = given /\ frames' = Outer /\ text' = text /\ back' = back
      /\ now' = [does |-> "return", tree |-> Tree(Top)] /\ nodes' = nodes
      /\ Top.todo = <<>>
  BY <1>1 DEF EndTree, args, Return
<1>3. now'.does = "return" /\ now'.tree = Tree(Top)
  BY <1>2
<1>4. /\ Running(TRUE)' /\ Counts(frames', nodes - size[Tree(Top)])
      /\ SoFar(Current', Top) /\ Top \in Frame /\ Current' \in Vals
      /\ nodes \in Nat /\ size[Tree(Top)] \in Nat
  BY <1>1, <1>2, Popped
<1>5. Tree(Top) \in made[Current']
  BY <1>2, <1>4, AllMade
<1>6. Tree(Top) # NULL
  BY <1>4, <1>5, MadeTrees
<1>7. nodes' = (nodes - size[Tree(Top)]) + size[Tree(Top)]
  BY <1>2, <1>4
<1>8. \E n : Counts(frames', n) /\ nodes' = n + size[now'.tree]
  BY <1>3, <1>4, <1>7
<1> QED
  BY <1>1, <1>2, <1>3, <1>4, <1>5, <1>6, <1>8 DEF JsonInv, Where

(* What was made is deleted, and nothing returned.                         *)
LEMMA AbandonInv ==
    ASSUME JsonInv, Running(FALSE), frames # <<>>, Counts(frames, nodes), Abandon,
           Bad(Current')
    PROVE  JsonInv'
<1>1. /\ source' = source /\ given' = given /\ frames' = Outer /\ text' = text /\ back' = back
      /\ now' = [does |-> "return", tree |-> NULL] /\ nodes' = nodes - size[Tree(Top)]
  BY DEF Abandon, args, Return
<1>2. now'.does = "return" /\ now'.tree = NULL
  BY <1>1
<1>3. Running(TRUE)' /\ Counts(frames', nodes')
  BY <1>1, Popped
<1>4. source = NULL \/ (source \in Texts /\ given = JsonToVal(source))
  BY DEF JsonInv
<1> QED
  BY <1>1, <1>2, <1>3, <1>4 DEF JsonInv, Where, Bad

LEMMA RefuseKeyInv == JsonInv /\ RefuseKey => JsonInv'
<1> SUFFICES ASSUME JsonInv, RefuseKey PROVE JsonInv'
  OBVIOUS
<1>1. now.does = "loop" /\ Running(FALSE) /\ frames # <<>> /\ Counts(frames, nodes)
  BY DEF RefuseKey, Does, JsonInv
<1>2. Abandon /\ Top.todo # <<>> /\ Top.type = "map" /\ Head(Top.todo)[1].type # "string"
  BY DEF RefuseKey, KeyRefused
<1>3. frames' = Outer /\ given' = given /\ text' = text
  BY <1>2 DEF Abandon, args
<1>4. SoFar(Current', Top) /\ Top \in Frame /\ Current' \in Vals
  BY <1>1, <1>3, Popped
<1>5. Current'.type = "map"
  BY <1>2, <1>4 DEF SoFar
<1>6. Head(Top.todo)[1] \in DOMAIN Current'.of
  BY <1>2, <1>4, TodoIs
<1>7. Bad(Current')
  BY <1>2, <1>4, <1>5, <1>6, BadKey
<1> QED
  BY <1>1, <1>2, <1>7, AbandonInv

LEMMA ChildFailedInv == JsonInv /\ ChildFailed => JsonInv'
<1> SUFFICES ASSUME JsonInv, ChildFailed PROVE JsonInv'
  OBVIOUS
<1>1. /\ now.does = "return" /\ Running(TRUE) /\ frames # <<>>
      /\ Bad(Current) /\ Counts(frames, nodes)
  BY DEF ChildFailed, Returned, Does, JsonInv
<1>2. Abandon
  BY DEF ChildFailed
<1>3. frames' = Outer /\ given' = given /\ text' = text
  BY <1>2 DEF Abandon, args
<1>4. Stack(given, frames, TRUE)
  BY <1>1 DEF Running
<1>5. Running(FALSE)
  BY <1>1 DEF Running, Stack
<1>6. SoFar(Current', Top) /\ Top \in Frame /\ Current' \in Vals
  BY <1>1, <1>3, <1>5, Popped
<1>7. Current = Head(Top.todo)[2]
  BY <1>1, <1>4, TopValue DEF Current, Top
<1>8. Top.todo # <<>>
  <2>1. frames \in Seq(Frame)
    BY <1>4 DEF Stack
  <2>2. Len(frames) \in DOMAIN frames
    BY <1>1, <2>1
  <2> QED
    BY <1>4, <2>2 DEF Stack, Waits, Top
<1>9. Current \in Kids(Current')
  BY <1>6, <1>7, <1>8, TodoIs
<1>10. Bad(Current')
  BY <1>1, <1>6, <1>9, BadAbove
<1> QED
  BY <1>1, <1>2, <1>5, <1>10, AbandonInv
LEMMA AddChildInv == JsonInv /\ AddChild => JsonInv'
<1> SUFFICES ASSUME JsonInv, AddChild PROVE JsonInv'
  OBVIOUS
<1>1. /\ now.does = "return" /\ Running(TRUE) /\ frames # <<>> /\ now.tree # NULL
      /\ now.tree \in made[Current]
      /\ source = NULL \/ (source \in Texts /\ given = JsonToVal(source))
  BY DEF AddChild, Returned, Does, JsonInv
<1>2. PICK n : Counts(frames, n) /\ nodes = n + size[now.tree]
  BY <1>1 DEF JsonInv
<1>3. PICK t : t = now.tree
  OBVIOUS
<1>4. PICK k : k = Len(frames)
  OBVIOUS
<1>5. PICK name : name = IF frames[k].type = "map" THEN CString(Head(frames[k].todo)[1].chars) ELSE <<>>
  OBVIOUS
<1>6. PICK fr : fr = [frames[k] EXCEPT !.todo = Tail(@), !.done = Append(@, <<name, t>>)]
  OBVIOUS
<1>7. /\ source' = source /\ given' = given /\ text' = text /\ back' = back
      /\ now' = [does |-> "loop"] /\ nodes' = nodes
  BY DEF AddChild, args, Go
<1>8. frames' = Append(SubSeq(frames, 1, k - 1), fr)
  BY <1>3, <1>4, <1>5, <1>6 DEF AddChild, Top, Outer
<1>9. now'.does = "loop"
  BY <1>7
<1>10. Stack(given, frames, TRUE) /\ t \in made[ValueAt(given, frames, k + 1)] /\ Counts(frames, n)
  BY <1>1, <1>2, <1>3, <1>4 DEF Running, Current
<1>11. /\ Stack(given, Append(SubSeq(frames, 1, k - 1), fr), FALSE)
       /\ Counts(Append(SubSeq(frames, 1, k - 1), fr), n + size[t])
       /\ fr \in Frame
  <2>1. /\ Stack(given, Append(SubSeq(frames, 1, k - 1), fr), FALSE)
        /\ Counts(Append(SubSeq(frames, 1, k - 1), fr), n + size[t])
    BY <1>1, <1>4, <1>5, <1>6, <1>10, AddToStack
  <2>2. fr \in Frame
    BY <1>1, <1>4, <1>5, <1>6, <1>10, AddToStack
  <2> QED
    BY <2>1, <2>2
<1>12. Stack(given, frames', FALSE) /\ Counts(frames', nodes')
  BY <1>2, <1>3, <1>7, <1>8, <1>11
<1>13. frames' # <<>>
  <2>1. PICK out : out = SubSeq(frames, 1, k - 1)
    OBVIOUS
  <2>2. frames \in Seq(Frame)
    BY <1>10 DEF Stack
  <2>3. out \in Seq(Frame) /\ fr \in Frame
    BY <1>1, <1>4, <1>11, <2>1, <2>2, OuterIs
  <2>4. Append(out, fr) # <<>>
    <3>1. Len(out) \in Nat
      BY <2>3
    <3>2. Len(Append(out, fr)) = Len(out) + 1
      BY ONLY <2>3, <3>1
    <3>3. Len(<<>>) = 0
      OBVIOUS
    <3> QED
      BY ONLY <3>1, <3>2, <3>3
  <2> QED
    BY <1>8, <2>1, <2>4
<1>14. Running(FALSE)'
  BY <1>1, <1>7, <1>12 DEF Running
<1> QED
  BY <1>1, <1>7, <1>9, <1>12, <1>13, <1>14 DEF JsonInv, Where

(* The outermost activation returned. *)
LEMMA Outermost ==
    ASSUME Running(TRUE), frames = <<>>
    PROVE  /\ Current = given /\ given \in Vals
           /\ \A n : Counts(frames, n) => n = 0
<1>1. given \in Vals
  BY CurrentIs
<1>2. ValueAt(given, <<>>, Len(<<>>) + 1) = given
  BY NoFrames
<1>3. \A n : Counts(<<>>, n) <=> n = 0
  BY NoFrames
<1> QED
  BY <1>1, <1>2, <1>3 DEF Current

LEMMA FailedInv == JsonInv /\ Failed => JsonInv'
<1> SUFFICES ASSUME JsonInv, Failed PROVE JsonInv'
  OBVIOUS
<1>1. /\ now.does = "return" /\ Running(TRUE) /\ frames = <<>> /\ now.tree = NULL
      /\ Bad(Current) /\ Counts(frames, nodes)
      /\ source = NULL \/ (source \in Texts /\ given = JsonToVal(source))
  BY DEF Failed, Does, JsonInv
<1>2. /\ source' = source /\ given' = given /\ frames' = frames /\ text' = text /\ nodes' = nodes
      /\ now' = [does |-> "done"]
  BY DEF Failed, args, Go
<1>3. now'.does = "done"
  BY <1>2
<1>4. Bad(given) /\ nodes = 0
  BY <1>1, Outermost
<1>5. text = NULL
  BY <1>1 DEF Running
<1> QED
  BY <1>1, <1>2, <1>3, <1>4, <1>5 DEF JsonInv, Where, Bad

LEMMA PrintTreeInv == JsonInv /\ PrintTree => JsonInv'
<1> SUFFICES ASSUME JsonInv, PrintTree PROVE JsonInv'
  OBVIOUS
<1>1. /\ now.does = "return" /\ Running(TRUE) /\ frames = <<>> /\ now.tree # NULL
      /\ now.tree \in made[Current]
      /\ source = NULL \/ (source \in Texts /\ given = JsonToVal(source))
  BY DEF PrintTree, Does, JsonInv
<1>2. /\ source' = source /\ given' = given /\ frames' = frames /\ back' = back
      /\ nodes' = nodes - size[now.tree]
  BY DEF PrintTree, args
<1>3. Current = given /\ given \in Vals
  BY <1>1, Outermost
<1>4. size[now.tree] \in Nat /\ now.tree \in Trees
  BY <1>1, <1>3, MadeTrees
<1>5. nodes' = 0
  <2>1. PICK n : Counts(frames, n) /\ nodes = n + size[now.tree]
    BY <1>1 DEF JsonInv
  <2>2. n = 0
    BY <1>1, <2>1, Outermost
  <2> QED
    BY <1>2, <1>4, <2>1, <2>2
<1>6. CASE now.tree \notin TreesTo(MaxNesting)
  <2>1. now' = [does |-> "crashed"]
    BY <1>6 DEF PrintTree, Go
  <2>2. now'.does = "crashed"
    BY <2>1
  <2> QED
    BY <1>1, <1>2, <1>5, <2>2 DEF JsonInv, Where
<1>7. CASE now.tree \in TreesTo(MaxNesting)
  <2>1. now' = [does |-> "print"] /\ text' = printed[now.tree]
    BY <1>7 DEF PrintTree, Go
  <2>2. now'.does = "print"
    BY <2>1
  <2>3. Printed'
    BY <1>1, <1>2, <1>3, <1>4, <1>7, <2>1 DEF Printed
  <2> QED
    BY <1>1, <1>2, <1>5, <2>2, <2>3 DEF JsonInv, Where
<1> QED
  BY <1>6, <1>7

LEMMA ReadBackInv == JsonInv /\ ReadBack => JsonInv'
<1> SUFFICES ASSUME JsonInv, ReadBack PROVE JsonInv'
  OBVIOUS
<1>1. /\ now.does = "print" /\ Printed /\ frames = <<>> /\ nodes = 0
      /\ source = NULL \/ (source \in Texts /\ given = JsonToVal(source))
  BY DEF ReadBack, Does, JsonInv
<1>2. /\ source' = source /\ given' = given /\ frames' = frames /\ text' = text /\ nodes' = nodes
      /\ now' = [does |-> "done"] /\ back' = JsonToVal(text')
  BY DEF ReadBack, args, Go
<1>3. now'.does = "done"
  BY <1>2
<1>4. Printed'
  BY <1>1, <1>2 DEF Printed
<1> QED
  BY <1>1, <1>2, <1>3, <1>4 DEF JsonInv, Where

LEMMA StutterInv == JsonInv /\ UNCHANGED vars => JsonInv'
<1> SUFFICES ASSUME JsonInv, UNCHANGED vars PROVE JsonInv'
  OBVIOUS
<1>1. /\ source' = source /\ given' = given /\ frames' = frames /\ text' = text /\ nodes' = nodes
      /\ now' = now /\ back' = back
  BY DEF vars
<1>2. /\ Current' = Current /\ Running(TRUE)' = Running(TRUE) /\ Running(FALSE)' = Running(FALSE)
      /\ Printed' = Printed
  BY <1>1 DEF Current, Running, Printed
<1> QED
  BY <1>1, <1>2 DEF JsonInv

(* The inductive invariant holds in every run. *)
LEMMA JsonInvHolds == Spec => []JsonInv
<1>1. JsonInv /\ [Next]_vars => JsonInv'
  BY CallValInv, CallTextInv, EnterLeafInv, EnterTreeInv, NextChildInv, EndTreeInv, RefuseKeyInv,
     AddChildInv, ChildFailedInv, FailedInv, PrintTreeInv, ReadBackInv, StutterInv DEF Next
<1> QED
  BY <1>1, InitInv, PTL DEF Spec
-----------------------------------------------------------------------------
(* What is printed of a value means that value *)

LEMMA Halves ==
    ASSUME NEW n \in Int
    PROVE  (2 * n) % 2 = 0 /\ (2 * n) \div 2 = n
  OBVIOUS

(* A number that a double holds and cJSON prints exactly is read as it was.*)
LEMMA NumbersBack ==
    ASSUME NEW v, \/ v.type = "int" /\ v.n \in Int64 /\ v = [type |-> "int", n |-> v.n]
                  \/ v.type = "float" /\ v.double \in Double /\ v = [type |-> "float", double |-> v.double],
           Portable(v)
    PROVE  \E d \in Double : /\ Leaf(v) = [json |-> "number", double |-> d]
                             /\ d # NotFinite /\ d \notin DOMAIN Fifteen
                             /\ Number(d) = v
<1>1. MaxSafe \in Nat /\ NotFinite \notin Int
  BY DoublesAssumption
<1>2. CASE v.type = "int"
  <2>1. PICK n \in Int64 : n = v.n /\ n \in Int
    BY <1>2 DEF Int64
  <2>2. n \in -MaxSafe .. MaxSafe /\ 2 * n \notin DOMAIN Fifteen /\ v = [type |-> "int", n |-> n]
    BY <1>2, <2>1 DEF Portable
  <2>3. ToDouble(n) = 2 * n
    BY <2>2, SafeDoubles
  <2>4. Leaf(v) = [json |-> "number", double |-> 2 * n]
    BY <1>2, <2>1, <2>3 DEF Leaf
  <2>5. 2 * n \in Int /\ 2 * n # NotFinite /\ 2 * n \in -2 * MaxSafe .. 2 * MaxSafe
    BY <1>1, <2>1, <2>2
  <2>6. Number(2 * n) = [type |-> "int", n |-> (2 * n) \div 2]
    BY <2>1, <2>5, Halves DEF Number
  <2> QED
    BY <2>1, <2>2, <2>4, <2>5, <2>6, Halves DEF Double
<1>3. CASE v.type = "float"
  <2>1. PICK d \in Double : d = v.double
    BY <1>3
  <2>2. d # NotFinite /\ d \notin DOMAIN Fifteen /\ (d % 2 = 0 => d \notin -2 * MaxSafe .. 2 * MaxSafe)
    BY <1>3, <2>1 DEF Portable
  <2>3. Number(d) = [type |-> "float", double |-> d]
    BY <2>2 DEF Number
  <2>4. Leaf(v) = [json |-> "number", double |-> d]
    BY <1>3, <2>1 DEF Leaf
  <2> QED
    BY <1>3, <2>1, <2>2, <2>3, <2>4
<1> QED
  BY <1>2, <1>3

(* Fine is inherited by what a value is made of. *)
LEMMA FineKids ==
    ASSUME NEW v \in Vals, Fine(v)
    PROVE  Supported(v) /\ Portable(v) /\ \A k \in Kids(v) : Fine(k)
  BY WithinIs, WithinHasIt DEF Fine

LEMMA LeafBack ==
    ASSUME NEW n \in Nat, n <= Levels, NEW v \in ValsTo(n), v.type \notin {"list", "map"}, Fine(v),
           NEW t \in made[v]
    PROVE  cjson_to_val[printed[t]] = v
<1>1. t = Leaf(v) /\ t # NULL /\ t \in Scalars
  BY LeafMade, LeavesAre
<1>2. Supported(v) /\ Portable(v) /\ v \in Vals
  BY FineKids, TreesAre
<1>3. t \in TreesTo(n) /\ ~ IsBranch(t) /\ t \in Trees
  BY <1>1, ScalarsAre, TreesAre DEF IsBranch, Scalars
<1>4. cjson_to_val[t] = ConvertBy(cjson_to_val, t)
  BY <1>3, FunctionsAre
<1>5. v.type \in {"nil", "bool", "int", "float", "string"}
  BY <1>2, ValKinds DEF Supported
<1>6. CASE v.type = "nil"
  <2>1. t = [json |-> "null"] /\ v = NilVal
    BY <1>1, <1>6, ValKinds DEF Leaf
  <2>2. printed[t] = t
    BY <1>3, <2>1, ScalarPrinted
  <2> QED
    BY <1>4, <2>1, <2>2 DEF ConvertBy
<1>7. CASE v.type = "bool"
  <2>1. t = [json |-> "bool", is |-> v.is] /\ v = [type |-> "bool", is |-> v.is]
    BY <1>1, <1>7, ValKinds DEF Leaf
  <2>2. printed[t] = t
    BY <1>3, <2>1, ScalarPrinted
  <2> QED
    BY <1>4, <2>1, <2>2 DEF ConvertBy
<1>8. CASE v.type = "string"
  <2>1. v.chars \in Seq(Char) /\ v = [type |-> "string", chars |-> v.chars]
    BY <1>8, ValKinds
  <2>2. CString(v.chars) = v.chars
    BY <1>2, <1>8, <2>1, CStrings DEF Portable
  <2>3. t = [json |-> "string", chars |-> v.chars]
    BY <1>1, <1>8, <2>2 DEF Leaf
  <2>4. printed[t] = t
    BY <1>3, <2>3, ScalarPrinted
  <2>5. cjson_to_val[t] = String(v.chars)
    BY <1>4, <2>3 DEF ConvertBy
  <2> QED
    BY <2>1, <2>2, <2>4, <2>5 DEF String
<1>9. CASE v.type \in {"int", "float"}
  <2>1. \/ v.type = "int" /\ v.n \in Int64 /\ v = [type |-> "int", n |-> v.n]
        \/ v.type = "float" /\ v.double \in Double /\ v = [type |-> "float", double |-> v.double]
    BY <1>9, ValKinds
  <2>2. PICK d \in Double : /\ Leaf(v) = [json |-> "number", double |-> d]
                            /\ d # NotFinite /\ d \notin DOMAIN Fifteen
                            /\ Number(d) = v
    BY <1>2, <2>1, NumbersBack
  <2>3. printed[t] = t
    BY <1>1, <1>3, <2>2, ScalarPrinted
  <2>4. cjson_to_val[t] = Number(d)
    BY <1>1, <1>4, <2>2 DEF ConvertBy
  <2> QED
    BY <2>2, <2>3, <2>4
<1> QED
  BY <1>5, <1>6, <1>7, <1>8, <1>9

(* The name of a pair is its key. *)
LEMMA KeyBack ==
    ASSUME NEW n \in Nat, NEW k \in ValsTo(n), k.type = "string", Portable(k)
    PROVE  k.chars \in Seq(Char) /\ CString(k.chars) = k.chars /\ String(CString(k.chars)) = k
<1>1. k.chars \in Seq(Char) /\ k = [type |-> "string", chars |-> k.chars]
  BY ValKinds
<1>2. CString(k.chars) = k.chars
  BY <1>1, CStrings DEF Portable
<1> QED
  BY <1>1, <1>2 DEF String

LEMMA RoundTripLevels ==
    ASSUME NEW n \in Nat, n <= Levels, NEW v \in ValsTo(n), Fine(v), NEW t \in made[v]
    PROVE  cjson_to_val[printed[t]] = v
<1> DEFINE S == {m \in Nat : \A x \in ValsTo(m) : Fine(x) => \A y \in made[x] : cjson_to_val[printed[y]] = x}
<1>1. ASSUME NEW m \in Nat, m <= Levels, m # 0 => m - 1 \in S,
             NEW x \in ValsTo(m), Fine(x), NEW y \in made[x]
      PROVE  cjson_to_val[printed[y]] = x
  <2>1. CASE x.type \notin {"list", "map"}
    BY <1>1, <2>1, LeafBack
  <2>2. CASE x.type \in {"list", "map"}
    <3>1. m # 0 /\ m - 1 \in Nat /\ x \in Vals /\ m - 1 <= Levels
      BY <1>1, <2>2, ValKinds, TreesAre
    <3>2. /\ Supported(x) /\ \A k \in Kids(x) : Fine(k)
          /\ \A k \in Kids(x) : \A z \in made[k] : cjson_to_val[printed[z]] = k
      <4>1. Supported(x) /\ \A k \in Kids(x) : Fine(k)
        BY <1>1, <3>1, FineKids
      <4>2. \A k \in Kids(x) : k \in ValsTo(m - 1)
        BY <1>1, KidsLower
      <4> QED
        BY <1>1, <3>1, <4>1, <4>2
    <3>3. /\ y.json = JsonOf(x.type)
          /\ \E e \in Entries(x) :
                /\ DOMAIN y.items = DOMAIN e
                /\ \A i \in DOMAIN e : /\ y.items[i][1] = NameOf(x.type, e[i][1])
                                       /\ y.items[i][2] \in made[e[i][2]]
      BY <1>1, <2>2, BranchMade
    <3>4. PICK e \in Entries(x) :
             /\ DOMAIN y.items = DOMAIN e
             /\ \A i \in DOMAIN e : /\ y.items[i][1] = NameOf(x.type, e[i][1])
                                    /\ y.items[i][2] \in made[e[i][2]]
      BY <3>3
    <3>5. y \in TreesTo(m) /\ IsBranch(y)
      BY <1>1, <3>3, MadeLevels DEF IsBranch, JsonOf
    <3>6. PICK z : z = printed[y]
      OBVIOUS
    <3>7. /\ z \in TreesTo(m) /\ z.json = JsonOf(x.type)
          /\ DOMAIN z.items = DOMAIN e
          /\ \A i \in DOMAIN e : /\ z.items[i][1] = NameOf(x.type, e[i][1])
                                 /\ cjson_to_val[z.items[i][2]] = e[i][2]
      <4>1. /\ z \in TreesTo(m)
        BY <1>1, <3>5, <3>6, PrintedLevels
      <4>2. /\ z.json = y.json
            /\ z.items = [i \in DOMAIN y.items |-> <<y.items[i][1], printed[y.items[i][2]]>>]
        BY <1>1, <3>5, <3>6, BranchPrinted
      <4>3. \A i \in DOMAIN e : e[i][2] \in Kids(x)
        BY <1>1, <2>2, EntriesAre
      <4>4. \A i \in DOMAIN e : z.items[i][1] = y.items[i][1] /\ z.items[i][2] = printed[y.items[i][2]]
        BY <3>4, <4>2
      <4> QED
        BY <3>2, <3>3, <3>4, <4>1, <4>2, <4>3, <4>4
    <3>8. CASE x.type = "list"
      <4>1. z.json = "array"
        BY <3>7, <3>8 DEF JsonOf
      <4>2. cjson_to_val[z] = [type |-> "list", items |-> [i \in DOMAIN z.items |-> cjson_to_val[z.items[i][2]]]]
        BY <1>1, <3>7, <4>1, ArrayVal
      <4>3. DOMAIN e = DOMAIN x.items /\ \A i \in DOMAIN e : e[i][2] = x.items[i]
        BY <1>1, <3>8, EntriesAre
      <4>4. x = [type |-> "list", items |-> x.items] /\ x.items \in Seq(ValsTo(m - 1))
        BY <1>1, <3>8, ValKinds
      <4>5. [i \in DOMAIN z.items |-> cjson_to_val[z.items[i][2]]] = x.items
        <5>1. x.items = [i \in DOMAIN x.items |-> x.items[i]]
          BY <4>4
        <5> QED
          BY <3>7, <4>3, <5>1
      <4> QED
        BY <3>6, <4>2, <4>4, <4>5
    <3>9. CASE x.type = "map"
      <4>1. z.json = "object"
        BY <3>7, <3>9 DEF JsonOf
      <4>2. PICK w : w = cjson_to_val[z]
        OBVIOUS
      <4>3. w \in ValsTo(m)
        BY <1>1, <3>7, <4>2, ConvertLevels
      <4>4. /\ w.type = "map"
            /\ DOMAIN w.of = {String(z.items[i][1]) : i \in DOMAIN z.items}
            /\ \A k \in DOMAIN w.of : \E i \in DOMAIN z.items :
                  String(z.items[i][1]) = k /\ w.of[k] = cjson_to_val[z.items[i][2]]
        <5>1. w.type = "map" /\ DOMAIN w.of = {String(z.items[i][1]) : i \in DOMAIN z.items}
          BY <1>1, <3>7, <4>1, <4>2, ObjectVal
        <5>2. \A k \in DOMAIN w.of :
                 \E i \in DOMAIN z.items :
                    /\ String(z.items[i][1]) = k /\ w.of[k] = cjson_to_val[z.items[i][2]]
                    /\ \A j \in DOMAIN z.items : String(z.items[j][1]) = k => j <= i
          BY <1>1, <3>7, <4>1, <4>2, ObjectVal
        <5> QED
          BY <5>1, <5>2
      <4>5. /\ \A i \in DOMAIN e : e[i][1] \in DOMAIN x.of /\ e[i][2] = x.of[e[i][1]]
            /\ \A k \in DOMAIN x.of : \E i \in DOMAIN e : e[i][1] = k
        BY <1>1, <3>9, EntriesAre
      <4>6. \A i \in DOMAIN e : String(z.items[i][1]) = e[i][1]
        <5>1. ASSUME NEW i \in DOMAIN e PROVE String(z.items[i][1]) = e[i][1]
          <6>1. e[i][1] \in Kids(x) /\ e[i][1].type = "string"
            BY <3>2, <3>9, <4>5 DEF Kids, Supported, StringKeys
          <6>2. e[i][1] \in ValsTo(m - 1)
            BY <1>1, <6>1, KidsLower
          <6>3. e[i][1] \in Vals
            BY <3>1, <6>2, TreesAre
          <6>4. Portable(e[i][1])
            BY <3>2, <6>1, <6>3, FineKids
          <6>5. z.items[i][1] = CString(e[i][1].chars)
            BY <3>7, <3>9 DEF NameOf
          <6> QED
            BY <3>1, <6>1, <6>2, <6>4, <6>5, KeyBack
        <5> QED
          BY <5>1
      <4>7. DOMAIN w.of = DOMAIN x.of
        BY <3>7, <4>4, <4>5, <4>6
      <4>8. \A k \in DOMAIN x.of : w.of[k] = x.of[k]
        <5> SUFFICES ASSUME NEW k \in DOMAIN x.of PROVE w.of[k] = x.of[k]
          OBVIOUS
        <5>1. PICK i \in DOMAIN z.items : String(z.items[i][1]) = k /\ w.of[k] = cjson_to_val[z.items[i][2]]
          BY <4>4, <4>7
        <5>2. i \in DOMAIN e /\ cjson_to_val[z.items[i][2]] = e[i][2]
          BY <3>7, <5>1
        <5>3. e[i][1] = k /\ e[i][2] = x.of[e[i][1]]
          BY <4>5, <4>6, <5>1, <5>2
        <5> QED
          BY ONLY <5>1, <5>2, <5>3
      <4>9. /\ x = [type |-> "map", of |-> x.of] /\ x.of \in [DOMAIN x.of -> ValsTo(m - 1)]
            /\ w = [type |-> "map", of |-> w.of] /\ w.of \in [DOMAIN w.of -> ValsTo(m - 1)]
        BY <1>1, <3>9, <4>3, <4>4, ValKinds
      <4>10. w.of = x.of
        BY <4>7, <4>8, <4>9
      <4> QED
        BY <3>6, <4>2, <4>9, <4>10
    <3> QED
      BY <2>2, <3>8, <3>9
  <2> QED
    BY <2>1, <2>2
<1>2. \A m \in Nat : m <= Levels /\ (m # 0 => m - 1 \in S) => m \in S
  BY <1>1
<1> HIDE DEF S
<1>3. n \in S
  BY <1>2, LevelInduct
<1> QED
  BY <1>3 DEF S
-----------------------------------------------------------------------------
(* What is printed of a value read from a text means what the text does    *)

(* A number that cJSON prints exactly is read and made the same.           *)
LEMMA NumbersAgain ==
    ASSUME NEW d \in Double, d # NotFinite
    PROVE  Leaf(Number(d)) = [json |-> "number", double |-> d]
<1>1. d \in Int /\ MaxSafe \in Nat
  BY DoublesAssumption DEF Double
<1>2. CASE d % 2 = 0 /\ d \in -2 * MaxSafe .. 2 * MaxSafe
  <2>1. PICK n : n = d \div 2
    OBVIOUS
  <2>2. n \in Int /\ 2 * n = d
    BY <1>1, <1>2, <2>1
  <2>3. n \in -MaxSafe .. MaxSafe
    BY <1>1, <1>2, <2>2
  <2>4. Number(d) = [type |-> "int", n |-> n]
    BY <1>2, <2>1 DEF Number
  <2>5. ToDouble(n) = 2 * n
    BY <2>3, SafeInts, SafeDoubles
  <2> QED
    BY <2>2, <2>4, <2>5 DEF Leaf
<1>3. CASE ~ (d % 2 = 0 /\ d \in -2 * MaxSafe .. 2 * MaxSafe)
  <2>1. Number(d) = [type |-> "float", double |-> d]
    BY <1>3 DEF Number
  <2> QED
    BY <2>1 DEF Leaf
<1> QED
  BY <1>2, <1>3

LEMMA ScalarAgain ==
    ASSUME NEW n \in Nat, n <= Levels, NEW s \in TreesTo(n), ~ IsBranch(s), plain[s],
           NEW t \in made[cjson_to_val[s]]
    PROVE  printed[t] = s
<1>1. PICK v : v = cjson_to_val[s]
  OBVIOUS
<1>2. v = ConvertBy(cjson_to_val, s) /\ v \in ValsTo(n) /\ PlainBy(plain, s)
  BY <1>1, TreesAre, FunctionsAre, ConvertLevels
<1>3. s.json \in {"null", "bool", "number", "string"}
  BY TreeKinds DEF IsBranch
<1>4. CASE s.json = "null"
  <2>1. v = NilVal /\ s = [json |-> "null"]
    BY <1>2, <1>4, TreeKinds DEF ConvertBy
  <2>2. v.type = "nil" /\ Leaf(v) = s
    BY <2>1 DEF NilVal, Leaf
  <2>3. t = s
    BY <1>1, <1>2, <2>2, LeafMade
  <2> QED
    BY <1>4, <2>3, ScalarPrinted
<1>5. CASE s.json = "bool"
  <2>1. v = [type |-> "bool", is |-> s.is] /\ s = [json |-> "bool", is |-> s.is]
    BY <1>2, <1>5, TreeKinds DEF ConvertBy
  <2>2. v.type = "bool" /\ Leaf(v) = s
    BY <2>1 DEF Leaf
  <2>3. t = s
    BY <1>1, <1>2, <2>2, LeafMade
  <2> QED
    BY <1>5, <2>3, ScalarPrinted
<1>6. CASE s.json = "string"
  <2>1. s.chars \in Seq(Char) /\ s = [json |-> "string", chars |-> s.chars] /\ "NUL" \notin ToSet(s.chars)
    BY <1>2, <1>6, TreeKinds DEF PlainBy
  <2>2. CString(s.chars) = s.chars
    BY <2>1, CStrings
  <2>3. v = [type |-> "string", chars |-> s.chars]
    BY <1>2, <1>6, <2>2 DEF ConvertBy, String
  <2>4. v.type = "string" /\ Leaf(v) = s
    BY <2>1, <2>2, <2>3 DEF Leaf
  <2>5. t = s
    BY <1>1, <1>2, <2>4, LeafMade
  <2> QED
    BY <1>6, <2>5, ScalarPrinted
<1>7. CASE s.json = "number"
  <2>1. /\ s.double \in Double /\ s = [json |-> "number", double |-> s.double]
        /\ s.double # NotFinite /\ s.double \notin DOMAIN Fifteen
    BY <1>2, <1>7, TreeKinds DEF PlainBy
  <2>2. v = Number(s.double)
    BY <1>2, <1>7 DEF ConvertBy
  <2>3. v.type \in {"int", "float"} /\ Leaf(v) = s
    BY <2>1, <2>2, Numbers, NumbersAgain
  <2>4. t = s
    BY <1>1, <1>2, <2>3, LeafMade
  <2> QED
    BY <1>7, <2>1, <2>4, ScalarPrinted
<1> QED
  BY <1>3, <1>4, <1>5, <1>6, <1>7

(* Of the values read from a text's items trees are made again; e says     *)
(* which pair an item of the new text, z, is of.                           *)
LEMMA ArrayAgain ==
    ASSUME NEW m \in Nat, m <= Levels, NEW s \in TreesTo(m), s.json = "array",
           NEW z \in TreesTo(m), z.json = "array", DOMAIN z.items = DOMAIN s.items,
           \A i \in DOMAIN s.items : meaning[z.items[i][2]] = meaning[s.items[i][2]]
    PROVE  meaning[z] = meaning[s]
<1>1. /\ meaning[z] = MeaningBy(meaning, z)
      /\ meaning[s] = MeaningBy(meaning, s)
  BY TreesAre, FunctionsAre
<1>2. /\ MeaningBy(meaning, z) = [i \in DOMAIN z.items |-> meaning[z.items[i][2]]]
      /\ MeaningBy(meaning, s) = [i \in DOMAIN s.items |-> meaning[s.items[i][2]]]
  BY DEF MeaningBy
<1>3. [i \in DOMAIN z.items |-> meaning[z.items[i][2]]] = [i \in DOMAIN s.items |-> meaning[s.items[i][2]]]
  OBVIOUS
<1> QED
  BY <1>1, <1>2, <1>3

LEMMA ObjectAgain ==
    ASSUME NEW m \in Nat, m <= Levels, NEW s \in TreesTo(m), s.json = "object",
           NEW z \in TreesTo(m), z.json = "object",
           \A i, j \in DOMAIN z.items : z.items[i][1] = z.items[j][1] => i = j,
           \A i \in DOMAIN z.items :
              \E l \in Lasting(s.items) : /\ z.items[i][1] = s.items[l][1]
                                          /\ meaning[z.items[i][2]] = meaning[s.items[l][2]],
           \A l \in Lasting(s.items) :
              \E i \in DOMAIN z.items : /\ z.items[i][1] = s.items[l][1]
                                        /\ meaning[z.items[i][2]] = meaning[s.items[l][2]]
    PROVE  meaning[z] = meaning[s]
<1>1. /\ meaning[z] = MeaningBy(meaning, z)
      /\ meaning[s] = MeaningBy(meaning, s)
  BY TreesAre, FunctionsAre
<1>2. /\ MeaningBy(meaning, z) = {<<z.items[i][1], meaning[z.items[i][2]]>> : i \in Lasting(z.items)}
      /\ MeaningBy(meaning, s) = {<<s.items[i][1], meaning[s.items[i][2]]>> : i \in Lasting(s.items)}
  BY DEF MeaningBy
<1>3. Lasting(z.items) = DOMAIN z.items
  <2>1. z.items \in Seq(Seq(Char) \X TreesTo(m - 1))
    BY TreeKinds DEF IsBranch
  <2>2. DOMAIN z.items \subseteq Nat
    BY <2>1
  <2>3. ASSUME NEW i \in DOMAIN z.items, NEW j \in DOMAIN z.items, j > i
        PROVE  z.items[j][1] # z.items[i][1]
    <3>1. i \in Nat /\ j \in Nat
      BY <2>2
    <3>2. i # j
      BY <2>3, <3>1
    <3> QED
      BY <3>2
  <2> QED
    BY <2>3 DEF Lasting
<1>4. ASSUME NEW p PROVE p \in MeaningBy(meaning, z) <=> p \in MeaningBy(meaning, s)
  <2>1. ASSUME p \in MeaningBy(meaning, z) PROVE p \in MeaningBy(meaning, s)
    <3>1. PICK i \in DOMAIN z.items : p = <<z.items[i][1], meaning[z.items[i][2]]>>
      BY <1>2, <1>3, <2>1
    <3>2. PICK l \in Lasting(s.items) : z.items[i][1] = s.items[l][1] /\ meaning[z.items[i][2]] = meaning[s.items[l][2]]
      OBVIOUS
    <3> QED
      BY <1>2, <3>1, <3>2
  <2>2. ASSUME p \in MeaningBy(meaning, s) PROVE p \in MeaningBy(meaning, z)
    <3>1. PICK l \in Lasting(s.items) : p = <<s.items[l][1], meaning[s.items[l][2]]>>
      BY <1>2, <2>2
    <3>2. PICK i \in DOMAIN z.items : z.items[i][1] = s.items[l][1] /\ meaning[z.items[i][2]] = meaning[s.items[l][2]]
      OBVIOUS
    <3> QED
      BY <1>2, <1>3, <3>1, <3>2
  <2> QED
    BY <2>1, <2>2
<1> QED
  BY <1>1, <1>4, <1>2

LEMMA TextRoundTripLevels ==
    ASSUME NEW n \in Nat, n <= Levels, NEW s \in TreesTo(n), plain[s], NEW t \in made[cjson_to_val[s]]
    PROVE  meaning[printed[t]] = meaning[s]
<1> DEFINE S == {m \in Nat : \A x \in TreesTo(m) : plain[x] =>
                   \A y \in made[cjson_to_val[x]] : meaning[printed[y]] = meaning[x]}
<1>1. ASSUME NEW m \in Nat, m <= Levels, m # 0 => m - 1 \in S,
             NEW x \in TreesTo(m), plain[x], NEW y \in made[cjson_to_val[x]]
      PROVE  meaning[printed[y]] = meaning[x]
  <2>1. CASE ~ IsBranch(x)
    <3>1. printed[y] = x
      BY <1>1, <2>1, ScalarAgain
    <3> QED
      BY <3>1
  <2>2. CASE IsBranch(x)
    <3>1. m # 0 /\ m - 1 \in Nat /\ m - 1 <= Levels /\ x.items \in Seq(Seq(Char) \X TreesTo(m - 1))
      BY <1>1, <2>2, TreeKinds, TreesAre
    <3>2. /\ \A i \in DOMAIN x.items : x.items[i][1] \in Seq(Char) /\ "NUL" \notin ToSet(x.items[i][1])
          /\ \A i \in DOMAIN x.items :
                \A w \in made[cjson_to_val[x.items[i][2]]] : meaning[printed[w]] = meaning[x.items[i][2]]
      <4>1. plain[x] = PlainBy(plain, x)
        BY <1>1, TreesAre, FunctionsAre
      <4>2. \A i \in DOMAIN x.items : "NUL" \notin ToSet(x.items[i][1]) /\ plain[x.items[i][2]]
        BY <1>1, <2>2, <4>1 DEF PlainBy, IsBranch
      <4>3. \A i \in DOMAIN x.items : x.items[i][2] \in TreesTo(m - 1) /\ x.items[i][1] \in Seq(Char)
        BY <3>1
      <4> QED
        BY <1>1, <3>1, <4>2, <4>3
    <3>3. PICK v : v = cjson_to_val[x]
      OBVIOUS
    <3>4. v \in ValsTo(m) /\ v = ConvertBy(cjson_to_val, x) /\ y \in made[v]
      BY <1>1, <3>3, ConvertLevels, TreesAre, FunctionsAre
    <3>5. v.type = IF x.json = "array" THEN "list" ELSE "map"
      <4>1. CASE x.json = "array"
        <5>1. v = [type |-> "list", items |-> [i \in DOMAIN x.items |-> cjson_to_val[x.items[i][2]]]]
          BY <1>1, <3>3, <4>1, ArrayVal
        <5> QED
          BY <4>1, <5>1
      <4>2. CASE x.json = "object"
        BY <1>1, <3>3, <4>2, ObjectVal
      <4> QED
        BY <2>2, <4>1, <4>2 DEF IsBranch
    <3>6. v.type \in {"list", "map"} /\ JsonOf(v.type) = x.json
      BY <2>2, <3>5 DEF JsonOf, IsBranch
    <3>7. /\ y.json = JsonOf(v.type)
          /\ \E e \in Entries(v) :
                /\ DOMAIN y.items = DOMAIN e
                /\ \A i \in DOMAIN e : /\ y.items[i][1] = NameOf(v.type, e[i][1])
                                       /\ y.items[i][2] \in made[e[i][2]]
      BY <1>1, <3>4, <3>6, BranchMade
    <3>8. PICK e \in Entries(v) :
             /\ DOMAIN y.items = DOMAIN e
             /\ \A i \in DOMAIN e : /\ y.items[i][1] = NameOf(v.type, e[i][1])
                                    /\ y.items[i][2] \in made[e[i][2]]
      BY <3>7
    <3>9. y \in TreesTo(m) /\ IsBranch(y)
      BY <1>1, <2>2, <3>4, <3>6, <3>7, MadeLevels DEF IsBranch
    <3>10. PICK z : z = printed[y]
      OBVIOUS
    <3>11. /\ z \in TreesTo(m) /\ z.json = x.json
           /\ DOMAIN z.items = DOMAIN e
           /\ \A i \in DOMAIN e : /\ z.items[i][1] = NameOf(v.type, e[i][1])
                                  /\ \E w \in made[e[i][2]] : z.items[i][2] = printed[w]
      <4>1. /\ z \in TreesTo(m)
        BY <1>1, <3>9, <3>10, PrintedLevels
      <4>2. /\ z.json = y.json
            /\ z.items = [i \in DOMAIN y.items |-> <<y.items[i][1], printed[y.items[i][2]]>>]
        BY <1>1, <3>9, <3>10, BranchPrinted
      <4>3. \A i \in DOMAIN e : z.items[i][1] = y.items[i][1] /\ z.items[i][2] = printed[y.items[i][2]]
        BY <3>8, <4>2
      <4> QED
        BY <3>6, <3>7, <3>8, <4>1, <4>2, <4>3
    <3>12. CASE x.json = "array"
      <4>1. v = [type |-> "list", items |-> [i \in DOMAIN x.items |-> cjson_to_val[x.items[i][2]]]]
        BY <1>1, <3>3, <3>12, ArrayVal
      <4>2. v.items = [i \in DOMAIN x.items |-> cjson_to_val[x.items[i][2]]] /\ v.type = "list"
        BY <4>1
      <4>3. DOMAIN e = DOMAIN v.items /\ \A i \in DOMAIN e : e[i][2] = v.items[i]
        BY <1>1, <3>4, <4>2, EntriesAre
      <4>4. DOMAIN z.items = DOMAIN x.items
        BY <3>11, <4>2, <4>3
      <4>5. \A i \in DOMAIN x.items : meaning[z.items[i][2]] = meaning[x.items[i][2]]
        <5>1. ASSUME NEW i \in DOMAIN x.items PROVE meaning[z.items[i][2]] = meaning[x.items[i][2]]
          <6>1. i \in DOMAIN e
            BY <3>11, <4>4
          <6>2. e[i][2] = cjson_to_val[x.items[i][2]]
            BY <4>2, <4>3, <6>1
          <6>3. PICK w \in made[e[i][2]] : z.items[i][2] = printed[w]
            BY <3>11, <6>1
          <6> QED
            BY <3>2, <6>2, <6>3
        <5> QED
          BY <5>1
      <4>6. meaning[z] = meaning[x]
        BY <1>1, <3>11, <3>12, <4>4, <4>5, ArrayAgain
      <4> QED
        BY <3>10, <4>6
    <3>13. CASE x.json = "object"
      <4>1. /\ v.type = "map" /\ DOMAIN v.of = {String(x.items[i][1]) : i \in DOMAIN x.items}
        BY <1>1, <3>3, <3>13, ObjectVal
      <4>2. \A k \in DOMAIN v.of :
               \E i \in DOMAIN x.items :
                  /\ String(x.items[i][1]) = k /\ v.of[k] = cjson_to_val[x.items[i][2]]
                  /\ \A j \in DOMAIN x.items : String(x.items[j][1]) = k => j <= i
        BY <1>1, <3>3, <3>13, ObjectVal
      <4>3. \A i \in DOMAIN x.items :
               /\ String(x.items[i][1]) = [type |-> "string", chars |-> x.items[i][1]]
               /\ String(x.items[i][1]).chars = x.items[i][1]
               /\ CString(x.items[i][1]) = x.items[i][1]
        BY <3>2, CStrings DEF String
      <4>4. /\ \A i \in DOMAIN e : e[i][1] \in DOMAIN v.of /\ e[i][2] = v.of[e[i][1]]
            /\ \A i, j \in DOMAIN e : e[i][1] = e[j][1] => i = j
            /\ \A k \in DOMAIN v.of : \E i \in DOMAIN e : e[i][1] = k
        <5>1. v.type = "map" /\ v \in ValsTo(m)
          BY <3>4, <4>1
        <5>2. \A i \in DOMAIN e : e[i][1] \in DOMAIN v.of /\ e[i][2] = v.of[e[i][1]]
          BY <1>1, <5>1, EntriesAre
        <5>3. \A i, j \in DOMAIN e : e[i][1] = e[j][1] => i = j
          BY <1>1, <5>1, EntriesAre
        <5>4. \A k \in DOMAIN v.of : \E i \in DOMAIN e : e[i][1] = k
          BY <1>1, <5>1, EntriesAre
        <5> QED
          BY <5>2, <5>3, <5>4
      <4>5. \A i \in DOMAIN e : e[i][1] = [type |-> "string", chars |-> z.items[i][1]]
        <5>1. ASSUME NEW i \in DOMAIN e PROVE e[i][1] = [type |-> "string", chars |-> z.items[i][1]]
          <6>1. PICK j \in DOMAIN x.items : e[i][1] = String(x.items[j][1])
            BY <4>1, <4>4
          <6>2. z.items[i][1] = CString(e[i][1].chars)
            BY <3>11, <4>1 DEF NameOf
          <6> QED
            BY <4>3, <6>1, <6>2
        <5> QED
          BY <5>1
      <4>6. \A i, j \in DOMAIN z.items : z.items[i][1] = z.items[j][1] => i = j
        <5>1. ASSUME NEW i \in DOMAIN e, NEW j \in DOMAIN e, z.items[i][1] = z.items[j][1] PROVE i = j
          <6>1. e[i][1] = e[j][1]
            <7>1. /\ e[i][1] = [type |-> "string", chars |-> z.items[i][1]]
                  /\ e[j][1] = [type |-> "string", chars |-> z.items[j][1]]
              BY <4>5, Zenon
            <7> QED
              BY <5>1, <7>1, Zenon
          <6> QED
            BY <4>4, <6>1
        <5> QED
          BY <3>11, <5>1
      <4>7. ASSUME NEW k \in DOMAIN v.of
            PROVE  \E l \in Lasting(x.items) :
                      /\ k = String(x.items[l][1]) /\ v.of[k] = cjson_to_val[x.items[l][2]]
                      /\ \A j \in Lasting(x.items) : k = String(x.items[j][1]) => j = l
        <5>1. PICK l \in DOMAIN x.items :
                  /\ String(x.items[l][1]) = k /\ v.of[k] = cjson_to_val[x.items[l][2]]
                  /\ \A j \in DOMAIN x.items : String(x.items[j][1]) = k => j <= l
          BY <4>2, <4>7
        <5>2. DOMAIN x.items \subseteq Nat
          BY <3>1
        <5>3. ASSUME NEW j \in DOMAIN x.items, j > l PROVE x.items[j][1] # x.items[l][1]
          <6>1. j \in Nat /\ l \in Nat /\ ~ (j <= l)
            BY <5>2, <5>3
          <6> QED
            BY <5>1, <6>1
        <5>4. l \in Lasting(x.items)
          BY <5>3 DEF Lasting
        <5>5. ASSUME NEW j \in Lasting(x.items), k = String(x.items[j][1]) PROVE j = l
          <6>1. j \in DOMAIN x.items /\ j <= l
            BY <5>1, <5>5 DEF Lasting
          <6>2. x.items[j][1] = x.items[l][1]
            <7>1. /\ String(x.items[j][1]).chars = x.items[j][1]
                  /\ String(x.items[l][1]).chars = x.items[l][1]
              BY <4>3, <6>1
            <7> QED
              BY <5>1, <5>5, <7>1
          <6>3. ~ (l > j)
            BY <5>5, <6>2 DEF Lasting
          <6> QED
            BY <5>2, <6>1, <6>3
        <5> QED
          BY <5>1, <5>4, <5>5
      <4>8. ASSUME NEW i \in DOMAIN e, NEW l \in Lasting(x.items), e[i][1] = String(x.items[l][1]),
                   e[i][2] = cjson_to_val[x.items[l][2]]
            PROVE  z.items[i][1] = x.items[l][1] /\ meaning[z.items[i][2]] = meaning[x.items[l][2]]
        <5>1. l \in DOMAIN x.items
          BY DEF Lasting
        <5>2. z.items[i][1] = x.items[l][1]
          <6>1. e[i][1].chars = z.items[i][1]
            <7>1. e[i][1] = [type |-> "string", chars |-> z.items[i][1]]
              BY <4>5
            <7>2. PICK c : c = z.items[i][1]
              OBVIOUS
            <7>3. [type |-> "string", chars |-> c].chars = c
              OBVIOUS
            <7> QED
              BY <7>1, <7>2, <7>3
          <6>2. String(x.items[l][1]).chars = x.items[l][1]
            BY <4>3, <5>1
          <6> QED
            BY <4>8, <6>1, <6>2
        <5> QED
          BY <3>2, <3>11, <4>8, <5>1, <5>2
      <4>9. \A i \in DOMAIN z.items :
               \E l \in Lasting(x.items) : /\ z.items[i][1] = x.items[l][1]
                                           /\ meaning[z.items[i][2]] = meaning[x.items[l][2]]
        BY <3>11, <4>4, <4>7, <4>8
      <4>10. ASSUME NEW l \in Lasting(x.items)
             PROVE  \E i \in DOMAIN z.items : /\ z.items[i][1] = x.items[l][1]
                                              /\ meaning[z.items[i][2]] = meaning[x.items[l][2]]
        <5>1. l \in DOMAIN x.items
          BY DEF Lasting
        <5>2. String(x.items[l][1]) \in DOMAIN v.of
          BY <4>1, <5>1
        <5>3. PICK i \in DOMAIN e : e[i][1] = String(x.items[l][1])
          BY <4>4, <5>2
        <5>4. e[i][2] = cjson_to_val[x.items[l][2]]
          BY <4>4, <4>7, <5>2, <5>3
        <5> QED
          BY <3>11, <4>8, <5>3, <5>4
      <4>11. meaning[z] = meaning[x]
        BY <1>1, <3>11, <3>13, <4>6, <4>9, <4>10, ObjectAgain
      <4> QED
        BY <3>10, <4>11
    <3> QED
      BY <2>2, <3>12, <3>13 DEF IsBranch
  <2> QED
    BY <2>1, <2>2
<1>2. \A m \in Nat : m <= Levels /\ (m # 0 => m - 1 \in S) => m \in S
  BY <1>1
<1> HIDE DEF S
<1>3. n \in S
  BY <1>2, LevelInduct
<1> QED
  BY <1>3 DEF S

-----------------------------------------------------------------------------
(* What the conversion promises *)

(* What is printed of a tree that is not too deep is not too deep.         *)
LEMMA PrintedShallow ==
    ASSUME NEW t \in Trees, t \in TreesTo(MaxNesting)
    PROVE  printed[t] \in TreesTo(MaxNesting) /\ printed[t] # NULL
<1>0. MaxNesting \in Nat /\ Levels \in Nat /\ Trees = TreesTo(Levels)
  BY TextsAssumption, LevelsNat
<1>1. printed[t] \in TreesTo(MaxNesting)
  <2>1. CASE MaxNesting <= Levels
    BY <1>0, <2>1, PrintedLevels
  <2>2. CASE ~ (MaxNesting <= Levels)
    <3>1. Levels <= MaxNesting /\ Levels <= Levels
      BY <1>0, <2>2
    <3>2. printed[t] \in TreesTo(Levels)
      BY <1>0, <3>1, PrintedLevels
    <3> QED
      BY <1>0, <3>1, <3>2, TreesUpTo
  <2> QED
    BY <2>1, <2>2
<1>2. printed[t].json # "none" /\ NULL.json = "none"
  BY <1>0, <1>1, TreeKinds DEF NULL
<1> QED
  BY <1>1, <1>2

(* When it is done with a value that is not bad, the text is of its tree.  *)
LEMMA DoneIs ==
    ASSUME JsonInv, Done
    PROVE  \/ text = NULL /\ Bad(given)
           \/ /\ text # NULL /\ ~ Bad(given)
              /\ given \in ValsTo(Levels) /\ Levels \in Nat /\ Levels <= Levels
              /\ \E t \in made[given] : text = printed[t] /\ back = cjson_to_val[printed[t]]
<1>1. (text = NULL /\ Bad(given)) \/ (Printed /\ back = JsonToVal(text))
  BY DEF JsonInv, Done, Does
<1>2. CASE Printed /\ back = JsonToVal(text)
  <2>1. given \in Vals /\ given \in ValsTo(Levels) /\ Levels \in Nat /\ Levels <= Levels
    BY <1>2, LevelsNat DEF Printed
  <2>2. PICK t \in made[given] : t \in Trees /\ t \in TreesTo(MaxNesting) /\ text = printed[t]
    BY <1>2 DEF Printed
  <2>3. text # NULL /\ text \in TreesTo(MaxNesting)
    BY <2>2, PrintedShallow
  <2>4. back = cjson_to_val[text]
    BY <1>2, <2>3 DEF JsonToVal
  <2>5. \A w \in Within(given) : Supported(w)
    BY <2>1, <2>2, MadeSupported
  <2> QED
    BY <2>1, <2>2, <2>3, <2>4, <2>5 DEF Bad
<1> QED
  BY <1>1, <1>2

(* No cJSON node outlives val_to_json, whatever its way out, and none is   *)
(* freed twice: cJSON_Delete takes what the calls below made, and no more  *)
(* (json.c:107, 119, 125, 149).                                            *)
THEOREM NodesAreFreed == Spec => []NodesFreed
<1>1. JsonInv => NodesFreed
  <2> SUFFICES ASSUME JsonInv PROVE NodesFreed
    OBVIOUS
  <2>1. now.does \in Where
    BY DEF JsonInv
  <2>2. CASE now.does \in {"call", "print", "done", "crashed"}
    <3>1. frames = <<>> /\ nodes = 0
      BY <2>2 DEF JsonInv
    <3>2. DOMAIN frames = {}
      BY <3>1
    <3> QED
      BY <2>1, <2>2, <3>1, <3>2 DEF NodesFreed, TypeOK, Where
  <2>3. CASE now.does \in {"enter", "loop", "return"}
    <3>1. Stack(given, frames, FALSE) /\ (now.does \in {"enter", "return"} => Stack(given, frames, TRUE))
      BY <2>3 DEF JsonInv, Running, Stack
    <3>2. frames \in Seq(Frame)
      BY <3>1 DEF Stack
    <3>3. nodes \in Nat
      <4>1. CASE now.does \in {"enter", "loop"} \/ now.tree = NULL
        BY <2>3, <3>2, <4>1, CountsNat DEF JsonInv
      <4>2. CASE now.does = "return" /\ now.tree # NULL
        <5>1. now.tree \in made[Current] /\ Running(TRUE)
          BY <4>2 DEF JsonInv
        <5>2. PICK n : Counts(frames, n) /\ nodes = n + size[now.tree]
          BY <4>2 DEF JsonInv
        <5>3. Current \in Vals
          BY <5>1, CurrentIs
        <5>4. n \in Nat /\ size[now.tree] \in Nat
          BY <3>2, <5>1, <5>2, <5>3, CountsNat, MadeTrees
        <5> QED
          BY <5>2, <5>4
      <4> QED
        BY <2>3, <4>1, <4>2
    <3>4. ASSUME NEW d \in DOMAIN frames
          PROVE  /\ frames[d].type \in {"list", "map"}
                 /\ d < Len(frames) \/ now.does \in {"enter", "return"} => frames[d].todo # <<>>
      <4>1. frames[d] \in Frame
        BY <3>2
      <4>2. d < Len(frames) \/ now.does \in {"enter", "return"} => Waits(frames[d])
        BY <3>1 DEF Stack
      <4> QED
        BY <4>1, <4>2 DEF Frame, Waits
    <3> QED
      BY <2>1, <2>3, <3>3, <3>4 DEF NodesFreed, TypeOK, Where
  <2> QED
    BY <2>1, <2>2, <2>3 DEF Where
<1> QED
  BY <1>1, JsonInvHolds, PTL

(* val_to_json returns no text exactly for a value that holds, however     *)
(* deep, one that JSON cannot represent or a key that is not a string      *)
(* (json.c:87-146; json.md).                                               *)
THEOREM FailsOnlyForUnsupported == Spec => []FailsIffUnsupported
<1>1. JsonInv => FailsIffUnsupported
  BY DoneIs DEF FailsIffUnsupported, Bad
<1> QED
  BY <1>1, JsonInvHolds, PTL

(* A value that JSON and a double can hold comes back equal, in whatever   *)
(* order its maps are printed (json.c:9-68, 87-133; json.md "Round-trip    *)
(* guarantee").                                                            *)
THEOREM ValuesComeBack == Spec => []RoundTrips
<1>1. JsonInv => RoundTrips
  <2> SUFFICES ASSUME JsonInv, Done, Fine(given) PROVE back = given
    BY DEF RoundTrips
  <2>1. ~ Bad(given)
    BY DEF Fine, Bad
  <2>2. given \in ValsTo(Levels) /\ Levels \in Nat /\ Levels <= Levels
    BY <2>1, DoneIs
  <2>3. PICK t \in made[given] : text = printed[t] /\ back = cjson_to_val[printed[t]]
    BY <2>1, DoneIs
  <2> QED
    BY <2>2, <2>3, RoundTripLevels
<1> QED
  BY <1>1, JsonInvHolds, PTL

(* A text whose numbers and strings a Val can hold is equivalent to what   *)
(* val_to_json makes of the value that json_to_val reads in it (json.c;    *)
(* json.md).                                                               *)
THEOREM TextsComeBack == Spec => []TextRoundTrips
<1>1. JsonInv => TextRoundTrips
  <2> SUFFICES ASSUME JsonInv, Done, source # NULL, source \in TreesTo(MaxNesting), plain[source]
               PROVE  meaning[text] = meaning[source]
    BY DEF TextRoundTrips
  <2>1. source \in Texts /\ given = JsonToVal(source)
    BY DEF JsonInv
  <2>2. source \in TreesTo(Levels) /\ Levels \in Nat /\ Levels <= Levels
    BY <2>1, TextsAssumption, LevelsNat
  <2>3. given = cjson_to_val[source]
    BY <2>1 DEF JsonToVal
  <2>4. ~ Bad(given)
    BY <2>2, <2>3, ConvertSupported DEF Bad
  <2>5. PICK t \in made[given] : text = printed[t]
    BY <2>4, DoneIs
  <2> QED
    BY <2>2, <2>3, <2>5, TextRoundTripLevels
<1> QED
  BY <1>1, JsonInvHolds, PTL
=============================================================================
