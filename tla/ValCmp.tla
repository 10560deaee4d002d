------------------------------- MODULE ValCmp -------------------------------
(***************************************************************************)
(* Comparison and hashing of values (val.c): val_cmp, the order by which   *)
(* lists and maps are compared, and compute_hash.                          *)
(*                                                                         *)
(* A value is a record of its type and payload.  A string is a sequence of *)
(* bytes; a float is a name of its bit pattern; a map is the sequence of   *)
(* its entries in the order of their slots, which depends on hashes and on *)
(* the order of insertion and is any order here.  The hash functions are   *)
(* free constructors: two hashes are equal here when the code computes     *)
(* them from equal inputs, and then they are equal for every FNV constant. *)
(***************************************************************************)
EXTENDS Integers, Sequences, FiniteSets, FiniteSetsExt, Functions

CONSTANTS
    Values,        \* values, the items and entries of values among them
    Depth(_),      \* how deep a value is nested
    FloatOrder,    \* numeric value of a float's bits, as a rank; no NaN
    NaN            \* bit patterns that are not a number

VARIABLES one, other, third

compared == <<one, other, third>>

-----------------------------------------------------------------------------
(* val_cmp *)

Types == <<"nil", "bool", "int", "float", "string", "symbol", "keyword", "list",
           "map", "error", "builtin", "effect">>

TypeRank(t) == CHOOSE i \in DOMAIN Types : Types[i] = t

Sign(m, n) == IF m < n THEN -1 ELSE IF m > n THEN 1 ELSE 0

CmpFloatNaive(f, g) ==   \* faulty: no case for two NaNs
    IF f \in NaN THEN 1
    ELSE IF g \in NaN THEN -1
    ELSE Sign(FloatOrder[f], FloatOrder[g])

CmpFloat(f, g) ==
    IF f \in NaN /\ g \in NaN THEN 0
    ELSE IF f \in NaN THEN 1
    ELSE IF g \in NaN THEN -1
    ELSE Sign(FloatOrder[f], FloatOrder[g])

(* A comparison is a function on pairs; here of bytes.                     *)
By(order, v, w) == order[<<v, w>>]
ByteOrder == [p \in Int \X Int |-> Sign(p[1], p[2])]

(* The first place where two sequences differ decides; if there is none,   *)
(* the shorter one is smaller.                                             *)
Lex(order, s, t) ==
    LET diff == {i \in DOMAIN s \cap DOMAIN t : By(order, s[i], t[i]) # 0}
        at == Min(diff)
    IN  IF diff = {} THEN Sign(Len(s), Len(t)) ELSE By(order, s[at], t[at])

Entries == Values \X Values

EntryOrder(order) ==
    [p \in Entries \X Entries |->
        LET keys == By(order, p[1][1], p[2][1])
        IN  IF keys # 0 THEN keys ELSE By(order, p[1][2], p[2][2])]

(* The ways to put entries in order, of which qsort finds one.             *)
Sortings(order, entries) ==
    {at \in Bijection(DOMAIN entries, DOMAIN entries) :
        \A i, j \in DOMAIN entries : i < j => By(order, entries[at[i]], entries[at[j]]) <= 0}

(* qsort with entry_cmp; faulty: entries in the order of their slots. *)
SortedUnsorted(order, entries) == entries
Sorted(order, entries) ==
    LET at == CHOOSE at \in Sortings(order, entries) : TRUE
    IN  [i \in DOMAIN entries |-> entries[at[i]]]

CmpMap(order, s, t) ==
    LET entries == EntryOrder(order)
    IN  IF Len(s) # Len(t) THEN Sign(Len(s), Len(t))
        ELSE Lex(entries, Sorted(entries, s), Sorted(entries, t))

(* Two values, when values within them are compared by order.              *)
CmpBy(order, v, w) ==
    IF v.type # w.type THEN Sign(TypeRank(v.type), TypeRank(w.type))
    ELSE IF v.type = "nil" THEN 0
    ELSE IF v.type \in {"bool", "int"} THEN Sign(v.num, w.num)
    ELSE IF v.type = "float" THEN CmpFloat(v.bits, w.bits)
    ELSE IF v.type = "list" THEN Lex(order, v.items, w.items)
    ELSE IF v.type = "map" THEN CmpMap(order, v.entries, w.entries)
    ELSE Lex(ByteOrder, v.bytes, w.bytes)

cmp[p \in Values \X Values] == CmpBy(cmp, p[1], p[2])

Cmp(v, w) == By(cmp, v, w)

-----------------------------------------------------------------------------
(* compute_hash *)

HashBytes(s) == <<"bytes", s>>
HashCombine(g, h) == <<"combine", g, h>>

(* The bits of a float that are hashed; faulty: those it has. *)
NormalRaw(f) == f
Normal(f) ==
    IF f \in NaN THEN "nan"
    ELSE IF FloatOrder[f] = 0 THEN "+0"
    ELSE f

(* h combined with one hash after the other.                               *)
HashAll(h, hashes) ==
    LET upto[n \in 0..Len(hashes)] ==
            IF n = 0 THEN h ELSE HashCombine(upto[n - 1], hashes[n])
    IN  upto[Len(hashes)]

(* XOR of the pair hashes: what occurs an odd number of times stays.       *)
HashXor(hashes) ==
    {h \in Range(hashes) : Cardinality({i \in DOMAIN hashes : hashes[i] = h}) % 2 = 1}

(* A value, when the values within it have these hashes.                   *)
HashBy(hashes, v) ==
    LET h == HashBytes(v.type)
        pair(e) == HashCombine(hashes[e[1]], hashes[e[2]])
    IN  IF v.type = "nil" THEN h
        ELSE IF v.type \in {"bool", "int"} THEN HashCombine(h, v.num)
        ELSE IF v.type = "float" THEN HashCombine(h, Normal(v.bits))
        ELSE IF v.type = "list" THEN HashAll(h, [i \in DOMAIN v.items |-> hashes[v.items[i]]])
        ELSE IF v.type = "map"
        THEN HashCombine(h, HashXor([i \in DOMAIN v.entries |-> pair(v.entries[i])]))
        ELSE HashCombine(h, HashBytes(v.bytes))

hash[v \in Values] == HashBy(hash, v)

-----------------------------------------------------------------------------
(* What the constants are: values are finite, made of values; a map's keys *)
(* are distinct, as val_map leaves them (ValMap).  Of the numbers that are *)
(* not NaN, only zero has two bit patterns.                                *)

Within(v) ==
    IF v.type = "list" THEN Range(v.items)
    ELSE IF v.type = "map" THEN UNION {{e[1], e[2]} : e \in Range(v.entries)}
    ELSE {}

ASSUME ValuesAssumption ==
    \A v \in Values :
        /\ v.type \in Range(Types)
        /\ Depth(v) \in Nat
        /\ v.type \in {"bool", "int"} => v.num \in Int
        /\ v.type = "float" => v.bits \in DOMAIN FloatOrder \cup NaN
        /\ v.type = "list" => v.items \in Seq(Values)
        /\ v.type = "map" => v.entries \in Seq(Entries)
        /\ v.type \notin {"nil", "bool", "int", "float", "list", "map"} => v.bytes \in Seq(Int)
        /\ \A w \in Within(v) : Depth(w) < Depth(v)

ASSUME KeysAssumption ==
    \A v \in Values : v.type = "map" =>
        \A i, j \in DOMAIN v.entries : i # j => Cmp(v.entries[i][1], v.entries[j][1]) # 0

ASSUME FloatAssumption ==
    /\ FloatOrder \in [DOMAIN FloatOrder -> Int]
    /\ \A f, g \in DOMAIN FloatOrder : FloatOrder[f] = FloatOrder[g] => f = g \/ FloatOrder[f] = 0

-----------------------------------------------------------------------------
(* Three values, compared *)

Chosen == one \in Values /\ other \in Values /\ third = one

Compare ==
    /\ third' \in Values
    /\ UNCHANGED <<one, other>>

Comparing == Chosen /\ [][Compare]_compared

-----------------------------------------------------------------------------
(* Properties *)

(* "val_cmp defines a total order over all values" (val.md:128): comparing *)
(* the other way round gives the opposite sign, equality is a congruence,  *)
(* and the order is transitive, across types, NaNs, signed zeros, lists    *)
(* that are prefixes of each other and maps in any slot order.             *)
TotalOrder ==
    /\ Cmp(one, other) = -Cmp(other, one)
    /\ Cmp(one, other) = 0 => Cmp(one, third) = Cmp(other, third)
    /\ Cmp(one, other) < 0 /\ Cmp(other, third) < 0 => Cmp(one, third) < 0

(* What equality means: the same numbers, bytes and items, NaN being one   *)
(* number; of maps, the same keys with the same values.                    *)
SameBy(equal, v, w) ==
    /\ v.type = w.type
    /\ v.type \in {"bool", "int"} => v.num = w.num
    /\ v.type = "float" =>
        \/ v.bits \in NaN /\ w.bits \in NaN
        \/ {v.bits, w.bits} \cap NaN = {} /\ FloatOrder[v.bits] = FloatOrder[w.bits]
    /\ v.type = "list" =>
        /\ Len(v.items) = Len(w.items)
        /\ \A i \in DOMAIN v.items : By(equal, v.items[i], w.items[i])
    /\ v.type = "map" =>
        /\ Len(v.entries) = Len(w.entries)
        /\ \A i \in DOMAIN v.entries : \E j \in DOMAIN w.entries :
            \A k \in 1..2 : By(equal, v.entries[i][k], w.entries[j][k])
    /\ v.type \notin {"nil", "bool", "int", "float", "list", "map"} => v.bytes = w.bytes

same[p \in Values \X Values] == SameBy(same, p[1], p[2])

(* val_cmp returns 0 exactly for equal values (val.md:128-139): maps with  *)
(* the same entries are equal whatever slots they sit in.                  *)
EqualMeansSame == Cmp(one, other) = 0 <=> By(same, one, other)

(* "Equal values always have equal hashes" (val.md:141).  The hash map     *)
(* rests on it: a probe starts from the hash of the key it looks for.      *)
HashContract == Cmp(one, other) = 0 => hash[one] = hash[other]
=============================================================================
