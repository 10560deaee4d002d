------------------------------- MODULE MCJson -------------------------------
(***************************************************************************)
(* Values of every type with numbers on both sides of each limit, in lists *)
(* and maps of at most two entries, nested as deep as cJSON allows and one *)
(* deeper.  MaxSafe is 4, so that 4 and 5 are the ints at the boundary, 10 *)
(* lies between the doubles 8 and 12, and 4095 is the greatest int; 3      *)
(* halves is a double that cJSON prints as 1 half, and 3 an int that it    *)
(* prints as 2.                                                            *)
(***************************************************************************)
EXTENDS JsonRef

Str(chars) == [type |-> "string", chars |-> chars]
IntVal(n) == [type |-> "int", n |-> n]
Float(d) == [type |-> "float", double |-> d]
List(items) == [type |-> "list", items |-> items]
Map(f) == [type |-> "map", of |-> f]

MCChar == {"a", "b", "NUL"}
MCFifteen == [d \in {3, 6} |-> IF d = 3 THEN 1 ELSE 4]
Strings == {Str(<<>>), Str(<<"a">>), Str(<<"a", "NUL">>), Str(<<"b">>)}
Leaves ==
    {NilVal, [type |-> "bool", is |-> TRUE]} \cup {IntVal(n) : n \in {-5, -4, 0, 2, 3, 4, 5, 6, 10, 4095}}
        \cup {Float(d) : d \in {-1, 1, 2, 3, 10, NotFinite}} \cup Strings
        \cup {[type |-> t] : t \in {"symbol", "keyword", "builtin", "effect", "error"}}
Few == {NilVal, IntVal(2), Float(1), Str(<<"a", "NUL">>), [type |-> "symbol"]}
Keys == Strings \cup {[type |-> "symbol"]}

ListsOf(S) == {List(s) : s \in BoundedSeq(S, 2)}
MapsOf(S) ==
    {Map(<<>>)} \cup {Map([k \in {a, b} |-> IF k = a THEN v ELSE w]) :
                         a \in Keys, b \in Keys, v \in S, w \in S}
Small == {List(<<>>), List(<<IntVal(2)>>), Map([k \in {Str(<<"a">>)} |-> Float(1)]),
          Map([k \in {Str(<<"b">>)} |-> [type |-> "symbol"]])}
Nested == ListsOf(Small \cup {IntVal(2), [type |-> "symbol"]}) \cup MapsOf(Small \cup {IntVal(2)})
Deep == {List(<<v>>) : v \in Nested}

RECURSIVE MCDepth(_)
MCDepth(v) ==
    IF v.type \notin {"list", "map"} THEN 0 ELSE 1 + Max({0} \cup {MCDepth(k) : k \in Kids(v)})

MCValues == Leaves \cup ListsOf(Leaves) \cup MapsOf(Few) \cup Nested \cup Deep

Array(trees) == [json |-> "array", items |-> [i \in DOMAIN trees |-> <<<<>>, trees[i]>>]]
Object(members) == [json |-> "object", items |-> members]
Atoms ==
    {[json |-> "null"], [json |-> "bool", is |-> FALSE], [json |-> "string", chars |-> <<"b">>],
     [json |-> "string", chars |-> <<"b", "NUL">>]}
        \cup {[json |-> "number", double |-> d] : d \in {1, 2, 3, 8, 12, NotFinite}}
ArraysOf(S) == {Array(s) : s \in BoundedSeq(S, 2)}
ObjectsOf(S) == {Object(s) : s \in BoundedSeq({<<n, t>> : n \in {<<"a">>, <<"a", "NUL">>}, t \in S}, 2)}
Flat == {Array(<<>>), Object(<<<<<<"a">>, [json |-> "null"]>>>>)}
MCTexts ==
    Atoms \cup ArraysOf(Atoms) \cup ObjectsOf(Atoms) \cup ArraysOf(Flat) \cup ObjectsOf(Flat)
          \cup {Array(<<t>>) : t \in ArraysOf(Flat)}
          \cup {Object(<<<<<<"a">>, Array(<<t>>)>>>>) : t \in ObjectsOf(Flat)}
=============================================================================
