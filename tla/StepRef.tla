------------------------------ MODULE StepRef ------------------------------
(***************************************************************************)
(* A reference semantics for the evaluator: what each form means, by       *)
(* recursion on the form, without a stack.  With lex = FALSE a             *)
(* subexpression hands the env it ended in to its successor, which is what *)
(* step.c does; with lex = TRUE the scopes a form opens end with the form, *)
(* and a loop without bindings is a loop like any other.                   *)
(***************************************************************************)
EXTENDS StepText

(* What evaluation comes to; l holds the effects requested before it ends. *)
Ok(v, r, l) == [tag |-> "value", val |-> v, env |-> r, log |-> l]
Error(kind, l) == [tag |-> "error", kind |-> kind, log |-> l]
Jump(args, l) == [tag |-> "recur", args |-> args, log |-> l]
OutOfFuel == [tag |-> "fuel", kind |-> "fuel", log |-> <<>>]

(* What there is to evaluate in env r after the effects l: a form, where   *)
(* tail says what a recur in place of it would find ("top" nothing,        *)
(* "inner" an unfinished form, "loop" a loop); forms from left to right,   *)
(* after others came to vals; forms of which the last one counts; pairs    *)
(* to bind one by one; a loop from a round that starts in env q, of which  *)
(* the next one binds its names on top of r.                               *)
FormTask(e, r, l, tail) == [do |-> "form", form |-> e, env |-> r, log |-> l, tail |-> tail]
EachTask(es, vals, r, l) == [do |-> "each", forms |-> es, vals |-> vals, env |-> r, log |-> l]
LastTask(es, r, l, tail) == [do |-> "last", forms |-> es, env |-> r, log |-> l, tail |-> tail]
PairsTask(ps, r, l) == [do |-> "pairs", pairs |-> ps, env |-> r, log |-> l]
RoundsTask(names, body, q, r, l) ==
    [do |-> "rounds", names |-> names, body |-> body, in |-> q, env |-> r, log |-> l]

Tails == {"top", "inner", "loop"}
Log(V) == Seq([name : Effect, args : Seq(V)])
Env(V) == Seq(Scope(V))
Tasks(V) ==
    [do : {"form"}, form : V, env : Env(V), log : Log(V), tail : Tails]
    \cup [do : {"each"}, forms : Seq(V), vals : Seq(V), env : Env(V), log : Log(V)]
    \cup [do : {"last"}, forms : Seq(V), env : Env(V), log : Log(V), tail : Tails]
    \cup [do : {"pairs"}, pairs : Seq(V), env : Env(V), log : Log(V)]
    \cup [do : {"rounds"}, names : Seq(V), body : V, in : Env(V), env : Env(V), log : Log(V)]

(* A step makes of the values V there are a closure, or the loop a recur   *)
(* starts again; so many steps make no more than Universe.                 *)
Fuel == 2 * MaxSteps + 1
Closures(V) == [type : {"closure"}, params : Seq(V), body : V, env : Env(V)]
Lists(V) == [type : {"list"}, items : Seq(V)]
WithLists(V) == V \cup Lists(V)
Made(old, V) == old \cup Closures(V) \cup Lists(WithLists(WithLists(V)))
MadeOf(old, n) ==
    LET made[k \in Nat] == IF k = 0 THEN old ELSE Made(old, made[k - 1]) IN made[n]
Universe == MadeOf(Val, Fuel)

(* A null pointer is no Val *, whatever the program makes. *)
ASSUME NullAssumption == NULL \notin Universe

-----------------------------------------------------------------------------
(* How to read a program: whether scopes are lexical, what effects are     *)
(* answered, and what every task comes to.                                 *)
Reading(lex, ans, of) == [lex |-> lex, answers |-> ans, of |-> of]
Of(f, t) == IF t \in DOMAIN f.of THEN f.of[t] ELSE OutOfFuel

(* The env in which evaluation goes on after what was evaluated in r. *)
Onward(f, r, h) == IF f.lex THEN r ELSE h.env

Innermost(i, y, r) == r[i][y] # NULL /\ \A j \in 1 .. i - 1 : r[j][y] = NULL
Lookup(y, r) ==
    IF \E i \in DOMAIN r : Innermost(i, y, r)
    THEN r[CHOOSE i \in DOMAIN r : Innermost(i, y, r)][y] ELSE NULL

(* What is left of forms and of pairs; nothing comes to what there is. *)
EachOf(f, es, vals, r, l) ==
    IF es = <<>> THEN Ok(vals, r, l) ELSE Of(f, EachTask(es, vals, r, l))
PairsOf(f, ps, r, l) ==
    IF ps = <<>> THEN Ok(Nil, r, l) ELSE Of(f, PairsTask(ps, r, l))

EvEach(f, es, vals, r, l) ==
    LET h == Of(f, FormTask(es[1], r, l, "inner"))
    IN  IF h.tag # "value" THEN h
        ELSE EachOf(f, Tail(es), Append(vals, h.val), Onward(f, r, h), h.log)

EvLast(f, es, r, l, tail) ==
    IF Len(es) = 1 THEN Of(f, FormTask(es[1], r, l, tail))
    ELSE LET h == Of(f, FormTask(es[1], r, l, "inner"))
         IN  IF h.tag # "value" THEN h
             ELSE Of(f, LastTask(Tail(es), Onward(f, r, h), h.log, tail))

EvPairs(f, ps, r, l) ==
    LET h == Of(f, FormTask(ps[2], r, l, "inner"))
    IN  IF h.tag # "value" THEN h
        ELSE PairsOf(f, SubSeq(ps, 3, Len(ps)), EnvPush(Bind(ps[1], h.val), r), h.log)

(* names bound to args, one scope each, the last innermost. *)
Enter(names, args, r) ==
    [i \in 1 .. Len(names) |->
        Bind(names[Len(names) + 1 - i], args[Len(names) + 1 - i])] \o r

NextRound(f, names, body, args, r, l) ==
    LET q == Enter(names, args, r)
    IN  IF Len(args) # Len(names) THEN Error("recur arity", l)
        ELSE Of(f, RoundsTask(names, body, q, IF f.lex THEN r ELSE Tail(q), l))

EvRounds(f, names, body, q, r, l) ==
    LET round == Of(f, FormTask(body, q, l, "loop"))
    IN  IF round.tag # "recur" THEN round
        ELSE NextRound(f, names, body, round.args, r, round.log)

EvIf(f, e, r, l, tail) ==
    LET c == Of(f, FormTask(e.items[2], r, l, "inner"))
        branch == IF Falsy(c.val) THEN e.items[4] ELSE e.items[3]
    IN  IF c.tag # "value" THEN c ELSE Of(f, FormTask(branch, Onward(f, r, c), c.log, tail))

(* The body of a let, after the pairs that are left to bind. *)
EvBody(f, ps, body, r, l, tail) ==
    LET b == PairsOf(f, ps, r, l)
    IN  IF b.tag # "value" THEN b ELSE Of(f, FormTask(body, b.env, b.log, tail))

EvLet(f, e, r, l, tail) ==
    LET ps == e.items[2].items
    IN  IF ps # <<>> /\ ps[1].type # "symbol" THEN Error("let name", l)
        ELSE EvBody(f, ps, e.items[3], r, l, tail)

NamesOf(ps) == [i \in 1 .. Len(ps) \div 2 |-> ps[2 * i - 1]]

(* A loop, after the pairs that are left to bind; the next round starts in *)
(* the env of the loop, in step.c in the one the last name was bound in.   *)
EvEntry(f, ps, names, body, r, l) ==
    LET b == PairsOf(f, ps, r, l)
    IN  IF b.tag # "value" THEN b
        ELSE Of(f, RoundsTask(names, body, b.env, IF f.lex THEN r ELSE Tail(b.env), b.log))

EvLoop(f, e, r, l, tail) ==
    LET ps == e.items[2].items
    IN  IF ps = <<>> /\ ~f.lex THEN Of(f, FormTask(e.items[3], r, l, tail))
        ELSE EvEntry(f, ps, NamesOf(ps), e.items[3], r, l)

(* The arguments of a recur are known. *)
EvJump(args, l, tail) ==
    CASE tail = "top" -> Error("recur outside loop", l)
      [] tail = "inner" -> Error("recur not in tail position", l)
      [] tail = "loop" -> Jump(args, l)

EvRecur(f, e, r, l, tail) ==
    LET a == EachOf(f, Tail(e.items), <<>>, r, l)
    IN  IF a.tag # "value" THEN a ELSE EvJump(a.val, a.log, tail)

(* A call of fn with args; the answer to an effect takes the place of the call. *)
EvApply(f, fn, args, r, l, tail) ==
    CASE fn.type = "builtin" ->
            LET v == BuiltinFn(fn.name, args)
            IN  IF v \in Val THEN Ok(v, r, l) ELSE Error("builtin", l)
      [] fn.type = "effect" ->
            Of(f, FormTask(f.answers[fn.name], r, Append(l, [name |-> fn.name, args |-> args]), tail))
      [] fn.type = "closure" ->
            IF Len(args) # Len(fn.params) THEN Error("arity", l)
            ELSE Of(f, FormTask(fn.body, EnvPush(BindAll(fn.params, args), fn.env), l,
                             IF f.lex THEN "top" ELSE tail))
      [] OTHER -> Error(IF Callable(fn) THEN "aborted" ELSE "not callable", l)

EvCall(f, e, r, l, tail) ==
    LET h == Of(f, FormTask(e.items[1], r, l, "inner"))
        a == EachOf(f, Tail(e.items), <<>>, Onward(f, r, h), h.log)
    IN  IF h.tag # "value" THEN h
        ELSE IF a.tag # "value" THEN a
        ELSE EvApply(f, h.val, a.val, a.env, a.log, tail)

EvList(f, e, r, l, tail) ==
    CASE HasForm(e, "quote") -> Ok(e.items[2], r, l)
      [] HasForm(e, "if") -> EvIf(f, e, r, l, tail)
      [] HasForm(e, "do") -> Of(f, LastTask(Tail(e.items), r, l, tail))
      [] HasForm(e, "let") -> EvLet(f, e, r, l, tail)
      [] HasForm(e, "fn") ->
            Ok([type |-> "closure", params |-> e.items[2].items,
                body |-> e.items[3], env |-> r], r, l)
      [] HasForm(e, "loop") -> EvLoop(f, e, r, l, tail)
      [] HasForm(e, "recur") -> EvRecur(f, e, r, l, tail)
      [] OTHER -> EvCall(f, e, r, l, tail)

EvForm(f, e, r, l, tail) ==
    IF e.type = "symbol" THEN
        LET v == Lookup(e.name, r)
        IN  IF v = NULL THEN Error("undefined symbol", l) ELSE Ok(v, r, l)
    ELSE IF ~IsList(e) THEN Ok(e, r, l)
    ELSE IF ~WellFormed(e) THEN Error(e.items[1].name, l)
    ELSE EvList(f, e, r, l, tail)

Ev(f, t) ==
    CASE t.do = "form" -> EvForm(f, t.form, t.env, t.log, t.tail)
      [] t.do = "each" -> EvEach(f, t.forms, t.vals, t.env, t.log)
      [] t.do = "last" -> EvLast(f, t.forms, t.env, t.log, t.tail)
      [] t.do = "pairs" -> EvPairs(f, t.pairs, t.env, t.log)
      [] t.do = "rounds" -> EvRounds(f, t.names, t.body, t.in, t.env, t.log)

(* What every task comes to, in n tasks inside each other at most. *)
Meanings(lex, ans, n) ==
    LET ev[k \in Nat] ==
            [t \in Tasks(Universe) |->
                IF k = 0 THEN OutOfFuel ELSE Ev(Reading(lex, ans, ev[k - 1]), t)]
    IN  Reading(lex, ans, ev[n])

-----------------------------------------------------------------------------
(* Properties *)

(* What a program can be seen to do: its result or error, and the effects  *)
(* it has requested.  Of a closure, its parameters and body are seen.      *)
Seen(v) ==
    IF v.type = "closure"
    THEN [type |-> "closure", params |-> v.params, body |-> v.body]
    ELSE v

SeenLog(l) ==
    [i \in DOMAIN l |->
        [name |-> l[i].name, args |-> [j \in DOMAIN l[i].args |-> Seen(l[i].args[j])]]]

Meaning(lex) ==
    LET m == Of(Meanings(lex, answers, Fuel), FormTask(program, <<Global>>, <<>>, "top"))
    IN  IF m.tag = "value" THEN <<"value", Seen(m.val), SeenLog(m.log)>>
        ELSE <<"error", m.kind, SeenLog(m.log)>>

Outcome ==
    IF status = "done" THEN <<"value", Seen(expr), SeenLog(log)>>
    ELSE <<"error", IF status = "aborted" THEN "aborted" ELSE error, SeenLog(log)>>

Finished == status \in {"done", "error", "aborted"} /\ error # "suspended"

(* The machine computes what the forms mean: whatever stack a form is      *)
(* evaluated on, its value, its error, the jump it makes and the effects   *)
(* it requests, each exactly once and from left to right, are those of the *)
(* form alone; a suspension and its answer act as a call that returned.    *)
MachineMeansForms == Finished => Outcome = Meaning(FALSE)

(* "Local bindings" (step.md:53), "Closures capture the environment at     *)
(* creation time" (step.md:63): the scope of a let, a loop or a parameter  *)
(* is its body, and the body of a function sees what its text sees.        *)
ScopesAreLexical ==
    Finished /\ RecursPlaced(program) /\ NoEmptyLoop(program) => Outcome = Meaning(TRUE)

(* Where no form is evaluated in the env that a let, a loop or a call has  *)
(* left behind, scopes are lexical, whatever else the program does.        *)
QuietScopesAreLexical ==
    Finished /\ ScopesQuiet(program) /\ RecursPlaced(program) /\ NoEmptyLoop(program) => Outcome = Meaning(TRUE)

(* The sum of g[v] for the items v of s. *)
Total(g, s) ==
    LET upto[i \in Nat] == IF i = 0 THEN 0 ELSE upto[i - 1] + g[s[i]]
    IN  upto[Len(s)]

(* How many names are bound in a text. *)
binders[e \in Val] ==
    IF e.type # "list" THEN 0 ELSE BindingCount(e) + Total(binders, e.items)

(* A loop over one variable runs in a constant env: without closures there *)
(* are never more scopes than bindings in the text.  (Each further         *)
(* variable of a loop adds a scope to the env at every recur.)             *)
OneVariableLoops ==
    \A o \in Occurrences(program) :
        /\ ~HasForm(o.form, "fn")
        /\ HasForm(o.form, "loop") => BindingCount(o.form) <= 1

EnvBounded == OneVariableLoops => Len(env) <= 1 + binders[program]
=============================================================================
