----------------------------- MODULE ValHeapRef -----------------------------
(***************************************************************************)
(* What reference counting is for (README.md:27, val.md:71).      *)
(***************************************************************************)
EXTENDS ValHeap

(* The places of o's kids whose reference o still has: those an activation *)
(* of val_release has passed are gone.                                     *)
Kept(o) ==
    {i \in DOMAIN kids[o] : /\ kids[o][i] # Hole
                            /\ \A d \in DOMAIN calls : calls[d].obj = o => i >= calls[d].next}

(* Where values point to o. *)
References(o) ==
    {r \in live \X (1..MaxKids + 2 * MaxPairs) : r[2] \in Kept(r[1]) /\ kids[r[1]][r[2]] = o}

-----------------------------------------------------------------------------
(* Every variable has its type. *)
TypeOK ==
    /\ live \subseteq Addr
    /\ count \in [Addr -> Nat] /\ held \in [Addr -> 0..MaxHeld]
    /\ kids \in [Addr -> Seq(Addr \cup {Hole})]
    /\ \A d \in DOMAIN calls : calls[d].obj \in Addr /\ calls[d].next \in Nat \ {0}

(* A value's count is the number of references there are: in variables and *)
(* in the values that have not let go of it (val.c:122, 227, 257-265, 280, *)
(* 286).                                                                   *)
CountsAreReferences ==
    TypeOK /\ \A o \in live : count[o] = held[o] + Cardinality(References(o))

(* No reference is to memory that was freed: not from a variable, not from *)
(* a value, not from an activation of val_release (val.c:286-323).         *)
NothingDangles ==
    /\ Held \subseteq live
    /\ \A o \in live : \A i \in Kept(o) : kids[o][i] \in live
    /\ \A d \in DOMAIN calls : calls[d].obj \in live /\ count[calls[d].obj] = 0

(* When no call is running every value can be reached from a variable: no  *)
(* value keeps itself alive, and release forgets nothing (val.c:306-320).  *)
NothingLeaks == Idle => live \subseteq Reachable

=============================================================================
