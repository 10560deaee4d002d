------------------------------ MODULE MCValCmp ------------------------------
(***************************************************************************)
(* Values of every type: neighbours in the order, values that are equal    *)
(* but not identical (signed zeros, NaNs of different bits, maps in        *)
(* different slot order), lists and maps that contain them, and one byte   *)
(* string as string, symbol, keyword, error, builtin and effect.           *)
(***************************************************************************)
EXTENDS ValCmp, SequencesExt, TLC

MCNaN == {"nan1", "nan2"}
MCFloatOrder == [f \in {"-1", "-0", "+0", "inf"} |->
                    CASE f = "-1" -> -1 [] f = "inf" -> 2 [] OTHER -> 0]

Num(t, n) == [type |-> t, num |-> n]
Float(f) == [type |-> "float", bits |-> f]
Bytes(t, s) == [type |-> t, bytes |-> s]
List(s) == [type |-> "list", items |-> s]
Map(s) == [type |-> "map", entries |-> s]

Nil == [type |-> "nil"]
One == Num("int", 1)
k == Bytes("keyword", <<97>>)
l == Bytes("keyword", <<97, 98>>)

Scalars ==
    {k, l, Nil, Num("bool", 0), Num("bool", 1), Num("int", -1), Num("int", 0), One}
    \cup {Float(f) : f \in DOMAIN MCFloatOrder \cup MCNaN}
    \cup {Bytes("string", s) : s \in {<<>>, <<97>>, <<97, 0>>, <<97, 98>>, <<255>>}}
    \cup {Bytes(t, <<97>>) : t \in {"symbol", "keyword", "error", "builtin", "effect"}}

Lists ==
    {List(<<>>), List(<<One>>), List(<<One, Nil>>), List(<<Nil, One>>),
     List(<<Float("nan1")>>), List(<<Float("nan2")>>), List(<<Float("-0"), One>>),
     List(<<Float("+0"), One>>), List(<<List(<<One>>)>>)}

Maps ==
    {Map(<<>>), Map(<<<<k, One>>>>), Map(<<<<k, Nil>>>>), Map(<<<<l, One>>>>),
     Map(<<<<k, One>>, <<l, Nil>>>>), Map(<<<<l, Nil>>, <<k, One>>>>),
     Map(<<<<k, Nil>>, <<l, One>>>>), Map(<<<<l, One>>, <<k, Nil>>>>),
     Map(<<<<k, One>>, <<l, One>>>>), Map(<<<<l, One>>, <<k, One>>>>),
     Map(<<<<Float("-0"), One>>>>), Map(<<<<Float("+0"), One>>>>),
     Map(<<<<Map(<<<<k, One>>, <<l, Nil>>>>), One>>>>),
     Map(<<<<Map(<<<<l, Nil>>, <<k, One>>>>), One>>>>)}

MCValues == Scalars \cup Lists \cup Maps \cup {List(<<m>>) : m \in Maps}

RECURSIVE MCDepth(_)
MCDepth(v) ==
    IF Within(v) = {} THEN 0 ELSE 1 + Max({MCDepth(w) : w \in Within(v)})
=============================================================================
