------------------------------- MODULE MCStep -------------------------------
(***************************************************************************)
(* Programs for the evaluator.  Small is every form over the atoms of Leaf; *)
(* Contexts puts a form of Small in every position of every form, beside a *)
(* variable that is bound or not; Chosen holds the longer runs: counting   *)
(* loops, closures that call themselves, effects, malformed forms.         *)
(***************************************************************************)
EXTENDS StepRef, FiniteSetsExt

CONSTANT None    \* the null pointer

Num(n) == [type |-> "int", int |-> n]
x == Sym("x")
y == Sym("y")
f == Sym("f")
F(name, args) == Lst(<<Sym(name)>> \o args)
Let(binds, body) == F("let", <<Lst(binds), body>>)
Loop(binds, body) == F("loop", <<Lst(binds), body>>)
Fn(params, body) == F("fn", <<Lst(params), body>>)
Call(func, args) == Lst(<<func>> \o args)
Sub(a, b) == F("sub", <<a, b>>)
IsZero(a) == F("zero", <<a>>)
Ask(a) == F("ask", <<a>>)

MCName == {"x", "y", "f", "sub", "zero", "ask"} \cup SpecialForms
MCEffect == {"ask"}

(* Arithmetic modulo 3 keeps the values few; sub is not commutative, so    *)
(* that the order of arguments is seen.                                    *)
MCBuiltinFn(name, args) ==
    CASE name = "sub" /\ Len(args) = 2 /\ (\A i \in 1 .. 2 : args[i].type = "int") ->
            Num((args[1].int + 3 - args[2].int) % 3)
      [] name = "zero" /\ Len(args) = 1 ->
            [type |-> "bool", bool |-> args[1] = Num(0)]
      [] OTHER -> [type |-> "error"]

Library ==
    [n \in MCName |->
        CASE n \in {"sub", "zero"} -> [type |-> "builtin", name |-> n]
          [] n = "ask" -> [type |-> "effect", name |-> n]
          [] OTHER -> None]

MCAnswers == [MCEffect -> {Nil, Num(2)}]

-----------------------------------------------------------------------------
Leaf == {Num(1), x, y}

Small ==
    {F("if", <<a, b, x>>) : a \in Leaf, b \in Leaf}
    \cup {F("do", <<a, b>>) : a \in Leaf, b \in Leaf}
    \cup {Let(<<x, a>>, b) : a \in Leaf, b \in Leaf}
    \cup {Let(<<x, a, y, x>>, b) : a \in Leaf, b \in Leaf}
    \cup {Loop(<<x, a>>, b) : a \in Leaf, b \in Leaf}
    \cup {Fn(<<x>>, b) : b \in Leaf}
    \cup {Call(Fn(<<y>>, b), <<a>>) : a \in Leaf, b \in Leaf}
    \cup {Sub(a, b) : a \in Leaf, b \in Leaf}
    \cup {Ask(a) : a \in Leaf}
    \cup {F("quote", <<a>>) : a \in Leaf}
    \cup {F("recur", <<a>>) : a \in Leaf}
    \cup {F("recur", <<>>), Lst(<<>>), Nil}

Contexts(h) ==
    {F("if", <<h, x, y>>), F("if", <<Nil, y, h>>), F("if", <<x, h, y>>),
     F("do", <<h>>), F("do", <<h, x>>), F("do", <<Num(2), h>>), F("do", <<x, h, y>>),
     Let(<<x, h>>, y), Let(<<y, Num(2)>>, h), Let(<<x, h, y, x>>, Sub(x, y)),
     Let(<<y, h, x, y>>, x), Let(<<>>, h),
     Call(Fn(<<x>>, h), <<Num(2)>>), Call(Fn(<<x>>, y), <<h>>),
     Let(<<f, Fn(<<x>>, h)>>, Sub(Call(f, <<Num(1)>>), y)),
     Call(h, <<Num(2)>>), Sub(h, Ask(y)), Sub(Num(2), h), Ask(h),
     Loop(<<x, h>>, y), Loop(<<y, Num(0)>>, h), Loop(<<x, h, y, x>>, y), Loop(<<>>, h),
     Loop(<<y, Num(0)>>, F("if", <<IsZero(y), F("recur", <<h>>), x>>)),
     Loop(<<y, Num(0)>>, F("if", <<IsZero(y), h, x>>))}

(* Counts x down to 0, summing in y. *)
CountDown(first, last) ==
    Loop(<<x, first, y, Num(0)>>,
         F("if", <<IsZero(x), last,
                   F("recur", <<Sub(x, Num(1)), Sub(y, x)>>)>>))

(* (f f n): a closure that calls itself in tail position, or not. *)
SelfCall(step) ==
    Let(<<f, Fn(<<f, x>>, F("if", <<IsZero(x), y, step>>))>>,
        Call(f, <<f, Num(2)>>))
Again == Call(f, <<f, Sub(x, Num(1))>>)

Forged == [type |-> "map", fn |-> TRUE]
PlainMap == [type |-> "map", fn |-> FALSE]

Forever(body) == Loop(<<x, Num(1)>>, body)

Chosen ==
    {Forever(F("recur", <<Num(2)>>)), Forever(F("do", <<Let(<<y, x>>, y), F("recur", <<x>>)>>)),
     Forever(Loop(<<y, x>>, F("if", <<IsZero(x), y, F("recur", <<x>>)>>))),
     Let(<<f, Fn(<<f, x>>, F("do", <<Ask(x), Again>>))>>, Call(f, <<f, Num(1)>>)),
     CountDown(Num(2), y), CountDown(Ask(x), y), CountDown(Num(2), Ask(y)),
     Let(<<x, Num(2)>>, CountDown(Ask(x), F("do", <<Ask(y), Sub(y, x)>>))),
     Let(<<y, Num(1)>>, SelfCall(Again)), Let(<<y, Num(1)>>, SelfCall(Sub(Again, x))),
     SelfCall(Again),
     Loop(<<x, Num(1)>>, F("recur", <<x>>)),
     Loop(<<x, Num(1)>>, F("recur", <<x, x>>)),
     Loop(<<x, Fn(<<>>, Num(1))>>, F("if", <<Call(x, <<>>), F("recur", <<Fn(<<>>, Nil)>>), x>>)),
     Loop(<<x, F("quote", <<Sub(x, y)>>)>>,
          F("if", <<IsZero(x), x, F("recur", <<Num(0)>>)>>)),
     Loop(<<x, Num(1)>>, Loop(<<>>, F("if", <<IsZero(x), x, F("recur", <<Num(0)>>)>>))),
     Loop(<<x, Num(2)>>, F("if", <<IsZero(x), x,
          Call(Fn(<<y>>, F("recur", <<y>>)), <<Sub(x, Num(1))>>)>>)),
     Let(<<y, Num(1), f, Fn(<<x>>, Sub(x, y)), y, Num(2)>>, Call(f, <<Num(0)>>)),
     Let(<<x, Fn(<<>>, y), y, Num(2)>>, Call(x, <<>>)),
     Let(<<y, Num(1), f, Fn(<<>>, y)>>,
         Loop(<<y, Num(2)>>, F("if", <<IsZero(y), Call(f, <<>>), F("recur", <<Num(0)>>)>>))),
     Call(Fn(<<x, x>>, x), <<Num(1), Num(2)>>), Call(Fn(<<x, y>>, Sub(x, y)), <<Num(1), Num(2)>>),
     Call(Fn(<<x>>, x), <<>>), Call(Fn(<<>>, Num(1)), <<Ask(Num(1))>>),
     Call(Forged, <<>>), Call(Forged, <<Num(1), Ask(Num(1))>>), Call(PlainMap, <<>>),
     F("quote", <<>>), F("if", <<x, y>>), F("do", <<>>),
     F("let", <<x, y>>), Let(<<x>>, y), F("let", <<>>), Let(<<Num(1), Num(2)>>, y),
     Let(<<x, Num(1), Num(2), Ask(x)>>, x),
     F("fn", <<x, y>>), F("fn", <<>>), Fn(<<x, Num(1)>>, y),
     F("loop", <<x, y>>), Loop(<<x>>, y), F("loop", <<>>), Loop(<<Num(1), Num(2)>>, y),
     Let(<<Sym("zero"), Fn(<<Sym("zero")>>, Ask(Call(Sym("zero"), <<Sym("zero")>>)))>>,
         Call(Sym("zero"), <<Sym("zero")>>)),
     Lst(<<Lst(<<>>)>>), PlainMap, [type |-> "bool", bool |-> FALSE]}

(* The forms directly inside the lists of S. *)
Items(S) == UNION {{l.items[i] : l \in {e \in S : e.type = "list" /\ Len(e.items) >= i}} : i \in 1 .. 6}
Within(S) == S \cup Items(S)

(* Two contexts around the forms where evaluation has something to lose. *)
Core == {x, Sub(x, y), F("recur", <<y>>), Let(<<x, Num(2)>>, y), Ask(y), Fn(<<x>>, y)}
InTwo == UNION {Contexts(h) : h \in UNION {Contexts(c) : c \in Core}}

Texts == Small \cup UNION {Contexts(h) : h \in Small} \cup InTwo \cup Chosen
Forms ==
    Within(Within(Within(Within(Within(Within(Within(Within(Texts))))))))
    \cup {Nil, Num(0), Num(1), Num(2), Sym("quote"), Sym("loop")}
    \cup [type : {"bool"}, bool : BOOLEAN]
    \cup [type : {"builtin"}, name : {"sub", "zero"}]
    \cup [type : {"effect"}, name : {"ask"}]

(* The values of the constants. *)
MCPrograms == Texts
MCVal == Forms
MCGlobal == Library

RECURSIVE MCDepth(_)
MCDepth(e) ==
    IF ~ IsList(e) THEN 0
    ELSE 1 + Max({MCDepth(e.items[i]) : i \in DOMAIN e.items})
=============================================================================
