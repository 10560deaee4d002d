-------------------------------- MODULE Step --------------------------------
(***************************************************************************)
(* The evaluator of step.c: step() takes a state {:expr :env :stack        *)
(* :status [:effect]} to the next one, or to an error.                     *)
(*                                                                         *)
(* Values and program forms are the same thing, a Val: a record whose      *)
(* field type is the ValType and whose other field is the payload.  A      *)
(* closure is the VAL_MAP {:type :fn :params :body :closure-env}, given a  *)
(* type of its own; every other VAL_MAP is [type |-> "map", fn |-> b],     *)
(* where b says that its :type is :fn although it has no :params.          *)
(*                                                                         *)
(* One action is one activation of step_eval, deliver_value or             *)
(* handle_recur, with the apply_fn it ends in.  Their tail calls of        *)
(* deliver_value run inside the same step(): ctl is "deliver" in between,  *)
(* and expr is then the value being delivered.                             *)
(***************************************************************************)
EXTENDS Naturals, Sequences

CONSTANTS
    Name,             \* names of symbols, those of the special forms included
    Val,              \* what a program is made of
    Programs,         \* the expressions step_init is given
    Global,           \* the one scope of the env step_init is given
    BuiltinFn(_, _),  \* the C functions behind the builtins: name and arguments
    Effect,           \* names of effects
    Answers,          \* what a runtime may answer to each effect
    MaxSteps,         \* step() calls the driver makes at most
    NULL              \* the C null pointer

Sym(x) == [type |-> "symbol", name |-> x]
Lst(s) == [type |-> "list", items |-> s]
Nil == [type |-> "nil"]

Atoms == {"nil", "bool", "int", "builtin", "effect", "map", "closure"}
SpecialForms == {"quote", "if", "do", "let", "fn", "loop", "recur"}

(* Scopes are VAL_MAPs from symbols to values (NULL when absent); an env   *)
(* is a list of scopes, innermost first.                                   *)
Scope(V) == [Name -> V \cup {NULL}]
EnvOver(V) == {r \in Seq(Scope(V)) : Len(r) > 0 /\ r[Len(r)] = Global}

ASSUME StepAssumption ==
    /\ \A v \in Val :
        /\ v.type \in Atoms \cup {"symbol", "list"}
        /\ v.type # "closure"
        /\ v.type = "symbol" => v.name \in Name /\ v = Sym(v.name)
        /\ v.type = "list" => v.items \in Seq(Val) /\ v = Lst(v.items)
        /\ v.type = "effect" => v.name \in Effect
        /\ v.type = "bool" => v.bool \in BOOLEAN
        /\ v.type = "map" => v.fn \in BOOLEAN
    /\ Nil \in Val
    /\ {"quote", "loop"} \subseteq Name
    /\ {Sym("quote"), Sym("loop")} \subseteq Val
    /\ Programs \subseteq Val
    /\ Global \in Scope(Val)
    /\ Answers \subseteq [Effect -> Val]
    /\ MaxSteps \in Nat
    /\ NULL \notin Val

VARIABLES
    program,   \* the expression given to step_init
    answers,   \* what this run's runtime answers to effects
    expr,      \* :expr
    env,       \* :env
    stack,     \* :stack, a sequence of frames, the top at the end
    status,    \* :status; "error" when step() returned a VAL_ERROR,
               \* "aborted" when an assertion of the code ended the process
    effect,    \* :effect, as a sequence: empty when the state has none
    error,     \* which error step() returned
    ctl,       \* "step" between step() calls, "deliver" inside one
    steps,     \* step() calls made
    log        \* effects requested so far, oldest first

state == <<expr, env, stack, status, effect, error, ctl, log>>
vars == <<program, answers, state, steps>>

-----------------------------------------------------------------------------
(* Frames *)

CallFrame(func, args, rest) ==
    [op |-> "call", func |-> func, args |-> args, rest |-> rest]
IfFrame(then, else) == [op |-> "if-branch", then |-> then, else |-> else]
DoFrame(rest) == [op |-> "do-rest", rest |-> rest]
LetFrame(rest, body, r) ==
    [op |-> "let-binds", rest |-> rest, body |-> body, env |-> r]
LoopFrame(rest, body, r, orig) ==
    [op |-> "loop-binds", rest |-> rest, body |-> body, env |-> r, orig |-> orig]
TargetFrame(rest, body, r) ==
    [op |-> "loop-target", rest |-> rest, body |-> body, env |-> r]
RecurFrame(args, rest) == [op |-> "recur-args", args |-> args, rest |-> rest]

FrameOver(V) ==
    [op : {"call"}, func : V \cup {NULL}, args : Seq(V), rest : Seq(V)]
    \cup [op : {"if-branch"}, then : V, else : V]
    \cup [op : {"do-rest"}, rest : Seq(V)]
    \cup [op : {"let-binds"}, rest : Seq(V), body : V, env : EnvOver(V)]
    \cup [op : {"loop-binds"}, rest : Seq(V), body : V, env : EnvOver(V), orig : Seq(V)]
    \cup [op : {"loop-target"}, rest : Seq(V), body : V, env : EnvOver(V)]
    \cup [op : {"recur-args"}, args : Seq(V), rest : Seq(V)]

Top == stack[Len(stack)]
Below == SubSeq(stack, 1, Len(stack) - 1)
Push(s, frame) == Append(s, frame)

-----------------------------------------------------------------------------
(* Environments *)

(* val_map of one pair: a key that is not a symbol is never looked up. *)
Bind(name, v) ==
    [y \in Name |-> IF name = Sym(y) THEN v ELSE NULL]

(* val_map of parameters and arguments: the last of equal names counts. *)
LastNamed(params, y, i) ==
    /\ params[i] = Sym(y)
    /\ \A j \in i + 1 .. Len(params) : params[j] # Sym(y)

BindAll(params, args) ==
    [y \in Name |->
        IF \E i \in DOMAIN params : LastNamed(params, y, i)
        THEN args[CHOOSE i \in DOMAIN params : LastNamed(params, y, i)]
        ELSE NULL]

EnvPushOuter(scope, r) == r \o <<scope>>   \* faulty: outermost, not innermost
EnvPush(scope, r) == <<scope>> \o r

(* Scope i is the innermost one in which the symbol is bound. *)
FoundAt(i, name) ==
    /\ env[i][name] # NULL
    /\ \A j \in 1 .. i - 1 : env[j][name] = NULL

-----------------------------------------------------------------------------
(* What an activation ends with *)

Run(e, r, s) ==
    /\ expr' = e /\ env' = r /\ stack' = s
    /\ ctl' = "step"
    /\ UNCHANGED <<status, effect, error, log>>

Deliver(v, r, s) ==
    /\ expr' = v /\ env' = r /\ stack' = s
    /\ ctl' = "deliver"
    /\ UNCHANGED <<status, effect, error, log>>

Fail(kind) ==
    /\ status' = "error" /\ error' = kind
    /\ ctl' = "step"
    /\ UNCHANGED <<expr, env, stack, effect, log>>

Abort ==
    /\ status' = "aborted"
    /\ ctl' = "step"
    /\ UNCHANGED <<expr, env, stack, effect, error, log>>

(* Faulty: a suspended state without its :effect. *)
SuspendBlank(name, args, s) ==
    /\ expr' = Nil /\ stack' = s /\ status' = "suspended"
    /\ log' = Append(log, [name |-> name, args |-> args])
    /\ ctl' = "step"
    /\ UNCHANGED <<env, error, effect>>

Suspend(name, args, s) ==
    /\ expr' = Nil /\ stack' = s /\ status' = "suspended"
    /\ effect' = <<[name |-> name, args |-> args]>>
    /\ log' = Append(log, [name |-> name, args |-> args])
    /\ ctl' = "step"
    /\ UNCHANGED <<env, error>>

-----------------------------------------------------------------------------
(* apply_fn and handle_recur; s is the stack without the finished frame *)

(* Faulty: the result is delivered to the finished call again. *)
ApplyBuiltinTwice(f, args, s) ==
    /\ f.type = "builtin"
    /\ LET result == BuiltinFn(f.name, args)
       IN  \/ result \in Val /\ Deliver(result, env, stack)
           \/ result \notin Val /\ Fail("builtin")

ApplyBuiltin(f, args, s) ==
    /\ f.type = "builtin"
    /\ LET result == BuiltinFn(f.name, args)
       IN  \/ result \in Val /\ Deliver(result, env, s)
           \/ result \notin Val /\ Fail("builtin")

(* The env of the body; faulty: on top of the caller's env. *)
CalledEnvDynamic(f, args) == EnvPush(BindAll(f.params, args), env)
CalledEnv(f, args) == EnvPush(BindAll(f.params, args), f.env)

ApplyClosure(f, args, s) ==
    /\ f.type = "closure"
    /\ \/ /\ Len(args) # Len(f.params)
          /\ Fail("arity")
       \/ /\ Len(args) = Len(f.params)
          /\ Run(f.body, CalledEnv(f, args), s)

(* A map with :type :fn and no :params: val_len(NULL) fails its assertion. *)
ApplyForged(f) == f.type = "map" /\ f.fn /\ Abort

Callable(f) ==
    \/ f.type \in {"builtin", "effect", "closure"}
    \/ f.type = "map" /\ f.fn

Apply(f, args, s) ==
    \/ ApplyBuiltin(f, args, s)
    \/ f.type = "effect" /\ Suspend(f.name, args, s)
    \/ ApplyClosure(f, args, s)
    \/ ApplyForged(f)
    \/ ~Callable(f) /\ Fail("not callable")

(* The bindings of the loop with their values replaced by (quote arg). *)
Rebind(bindings, args) ==
    [i \in 1 .. Len(bindings) |->
        IF i % 2 = 1 THEN bindings[i]
        ELSE Lst(<<Sym("quote"), args[i \div 2]>>)]

NewLoop(target, args) ==
    Lst(<<Sym("loop"), Lst(Rebind(target.rest, args)), target.body>>)

(* Faulty: the old loop-target stays below; the env of the recur is kept.  *)
RestartAbove(target, args, rest) ==
    Run(NewLoop(target, args), target.env, Append(rest, target))
RestartHere(target, args, rest) == Run(NewLoop(target, args), env, rest)
Restart(target, args, rest) == Run(NewLoop(target, args), target.env, rest)

HandleRecur(args, s) ==
    \/ s = <<>> /\ Fail("recur outside loop")
    \/ /\ s # <<>>
       /\ LET target == s[Len(s)]
              rest == SubSeq(s, 1, Len(s) - 1)
          IN  \/ target.op # "loop-target" /\ Fail("recur not in tail position")
              \/ /\ target.op = "loop-target"
                 /\ Len(args) # Len(target.rest) \div 2
                 /\ Fail("recur arity")
              \/ /\ target.op = "loop-target"
                 /\ Len(args) = Len(target.rest) \div 2
                 /\ Restart(target, args, rest)

-----------------------------------------------------------------------------
(* step_init, and step() up to step_eval *)

Init ==
    /\ program \in Programs
    /\ answers \in Answers
    /\ expr = program /\ env = <<Global>> /\ stack = <<>>
    /\ status = "running" /\ effect = <<>> /\ error = "none"
    /\ ctl = "step" /\ steps = 0 /\ log = <<>>

(* The driver calls step() on a running state, up to its budget. *)
StepCall ==
    /\ status = "running" /\ ctl = "step"
    /\ steps < MaxSteps
    /\ steps' = steps + 1
    /\ UNCHANGED <<program, answers>>

IsForm == expr.type = "list" /\ expr.items # <<>>
Item(i) == expr.items[i]
Size == Len(expr.items)
Form(x) == IsForm /\ Item(1) = Sym(x)

EvalAtom ==
    /\ StepCall
    /\ expr.type \in Atoms
    /\ Deliver(expr, env, stack)

EvalSymbol ==
    /\ StepCall
    /\ expr.type = "symbol"
    /\ \/ \E i \in DOMAIN env :
            FoundAt(i, expr.name) /\ Deliver(env[i][expr.name], env, stack)
       \/ /\ \A i \in DOMAIN env : env[i][expr.name] = NULL
          /\ Fail("undefined symbol")

EvalEmptyList ==
    /\ StepCall
    /\ expr.type = "list" /\ expr.items = <<>>
    /\ Deliver(expr, env, stack)

EvalQuote ==
    /\ StepCall
    /\ Form("quote")
    /\ \/ Size # 2 /\ Fail("quote")
       \/ Size = 2 /\ Deliver(Item(2), env, stack)

EvalIf ==
    /\ StepCall
    /\ Form("if")
    /\ \/ Size # 4 /\ Fail("if")
       \/ Size = 4 /\ Run(Item(2), env, Push(stack, IfFrame(Item(3), Item(4))))

EvalDo ==
    /\ StepCall
    /\ Form("do")
    /\ \/ Size < 2 /\ Fail("do")
       \/ Size = 2 /\ Run(Item(2), env, stack)
       \/ /\ Size > 2
          /\ Run(Item(2), env, Push(stack, DoFrame(SubSeq(expr.items, 3, Size))))

(* A let or loop of the right shape: the second item a list of even length. *)
Binder == Size = 3 /\ Item(2).type = "list" /\ Len(Item(2).items) % 2 = 0
Bindings == Item(2).items
Body == Item(3)

EvalLet ==
    /\ StepCall
    /\ Form("let")
    /\ \/ ~Binder /\ Fail("let")
       \/ Binder /\ Bindings = <<>> /\ Run(Body, env, stack)
       \/ /\ Binder /\ Bindings # <<>>
          /\ Bindings[1].type # "symbol"
          /\ Fail("let name")
       \/ /\ Binder /\ Bindings # <<>>
          /\ Bindings[1].type = "symbol"
          /\ Run(Bindings[2], env, Push(stack, LetFrame(Bindings, Body, env)))

WellFormedFn ==
    /\ Size = 3 /\ Item(2).type = "list"
    /\ \A i \in DOMAIN Item(2).items : Item(2).items[i].type = "symbol"

EvalFn ==
    /\ StepCall
    /\ Form("fn")
    /\ \/ ~WellFormedFn /\ Fail("fn")
       \/ /\ WellFormedFn
          /\ Deliver([type |-> "closure", params |-> Item(2).items,
                      body |-> Item(3), env |-> env], env, stack)

EvalLoop ==
    /\ StepCall
    /\ Form("loop")
    /\ \/ ~Binder /\ Fail("loop")
       \/ Binder /\ Bindings = <<>> /\ Run(Body, env, stack)
       \/ /\ Binder /\ Bindings # <<>>
          /\ Run(Bindings[2], env, Push(stack, LoopFrame(Bindings, Body, env, Bindings)))

EvalRecur ==
    /\ StepCall
    /\ Form("recur")
    /\ \/ Size = 1 /\ HandleRecur(<<>>, stack)
       \/ /\ Size > 1
          /\ Run(Item(2), env, Push(stack, RecurFrame(<<>>, SubSeq(expr.items, 3, Size))))

EvalCall ==
    /\ StepCall
    /\ IsForm
    /\ \A x \in SpecialForms : Item(1) # Sym(x)
    /\ Run(Item(1), env, Push(stack, CallFrame(NULL, <<>>, Tail(expr.items))))

-----------------------------------------------------------------------------
(* deliver_value *)

Delivering ==
    /\ status = "running" /\ ctl = "deliver"
    /\ UNCHANGED <<program, answers, steps>>

DeliverTo(op) ==
    /\ Delivering
    /\ stack # <<>> /\ Top.op = op

DeliverDone ==
    /\ Delivering
    /\ stack = <<>>
    /\ status' = "done" /\ ctl' = "step"
    /\ UNCHANGED <<expr, env, stack, effect, error, log>>

(* The value is the function when no function is known yet, otherwise the  *)
(* next argument.                                                          *)
CallFunc == IF Top.func = NULL THEN expr ELSE Top.func
CallArgsReversed == IF Top.func = NULL THEN Top.args ELSE <<expr>> \o Top.args   \* faulty
CallArgs == IF Top.func = NULL THEN Top.args ELSE Append(Top.args, expr)

DeliverCall ==
    /\ DeliverTo("call")
    /\ \/ Top.rest = <<>> /\ Apply(CallFunc, CallArgs, Below)
       \/ /\ Top.rest # <<>>
          /\ Run(Top.rest[1], env,
                 Push(Below, CallFrame(CallFunc, CallArgs, Tail(Top.rest))))

Falsy(v) == v.type = "nil" \/ (v.type = "bool" /\ ~v.bool)

DeliverIf ==
    /\ DeliverTo("if-branch")
    /\ \/ Falsy(expr) /\ Run(Top.else, env, Below)
       \/ ~Falsy(expr) /\ Run(Top.then, env, Below)

LastDoLate == Top.rest = <<>>   \* faulty: one expression too late
LastDo == Len(Top.rest) = 1

DeliverDo ==
    /\ DeliverTo("do-rest")
    /\ \/ LastDo /\ Run(Top.rest[1], env, Below)
       \/ /\ ~LastDo
          /\ Run(Top.rest[1], env, Push(Below, DoFrame(Tail(Top.rest))))

(* The env in which the first remaining binding is made; the env of the    *)
(* value's own evaluation is not used.                                     *)
Extended == EnvPush(Bind(Top.rest[1], expr), Top.env)
RestBinds == SubSeq(Top.rest, 3, Len(Top.rest))

DeliverLet ==
    /\ DeliverTo("let-binds")
    /\ \/ Len(Top.rest) <= 2 /\ Run(Top.body, Extended, Below)
       \/ /\ Len(Top.rest) > 2
          /\ Run(Top.rest[4], Extended,
                 Push(Below, LetFrame(RestBinds, Top.body, Extended)))

DeliverLoop ==
    /\ DeliverTo("loop-binds")
    /\ \/ /\ Len(Top.rest) <= 2
          /\ Run(Top.body, Extended,
                 Push(Below, TargetFrame(Top.orig, Top.body, Top.env)))
       \/ /\ Len(Top.rest) > 2
          /\ Run(Top.rest[4], Extended,
                 Push(Below, LoopFrame(RestBinds, Top.body, Extended, Top.orig)))

(* Faulty: delivered to the loop-target again. *)
DeliverTargetStuck ==
    /\ DeliverTo("loop-target")
    /\ Deliver(expr, env, stack)

DeliverTarget ==
    /\ DeliverTo("loop-target")
    /\ Deliver(expr, env, Below)

DeliverRecur ==
    /\ DeliverTo("recur-args")
    /\ \/ Top.rest = <<>> /\ HandleRecur(Append(Top.args, expr), Below)
       \/ /\ Top.rest # <<>>
          /\ Run(Top.rest[1], env,
                 Push(Below, RecurFrame(Append(Top.args, expr), Tail(Top.rest))))

-----------------------------------------------------------------------------
(* The driver *)

(* The runtime answers an effect: the answer takes the place of the call.  *)
(* (External: step.md:70 gives this task to a runtime outside step.)       *)
Resume ==
    /\ status = "suspended"
    /\ expr' = answers[effect[1].name]
    /\ status' = "running" /\ effect' = <<>>
    /\ UNCHANGED <<program, answers, env, stack, error, ctl, steps, log>>

(* The loop of step.md:34-42 knows no suspension and steps the state again. *)
StepSuspended ==
    /\ status = "suspended"
    /\ status' = "error" /\ error' = "suspended" /\ effect' = <<>>
    /\ UNCHANGED <<program, answers, expr, env, stack, ctl, steps, log>>

(* The driver stops on a result, on an error and at the end of its budget. *)
Stopped ==
    \/ status \in {"done", "error", "aborted"}
    \/ status = "running" /\ ctl = "step" /\ steps = MaxSteps

Stop == Stopped /\ UNCHANGED vars

Eval ==
    \/ EvalAtom \/ EvalSymbol \/ EvalEmptyList \/ EvalQuote \/ EvalIf \/ EvalDo
    \/ EvalLet \/ EvalFn \/ EvalLoop \/ EvalRecur \/ EvalCall

DeliverValue ==
    \/ DeliverDone \/ DeliverCall \/ DeliverIf \/ DeliverDo \/ DeliverLet
    \/ DeliverLoop \/ DeliverTarget \/ DeliverRecur

Next == Eval \/ DeliverValue \/ Resume \/ StepSuspended \/ Stop

Spec == Init /\ [][Next]_vars

(* step() is sequential code: once called it runs.  Nothing obliges a      *)
(* driver to call it, or a runtime to answer.                              *)
Fairness == WF_vars(DeliverValue)
FairSpec == Spec /\ Fairness

-----------------------------------------------------------------------------
(* Properties *)

Statuses == {"running", "done", "suspended", "error", "aborted"}

(* The statuses of step.md, and when :effect is there (step.c:71-82). *)
TypeOK ==
    /\ program \in Programs
    /\ answers \in Answers
    /\ status \in Statuses
    /\ ctl \in {"step", "deliver"}
    /\ ctl = "deliver" => status = "running"
    /\ steps \in 0 .. MaxSteps
    /\ effect # <<>> <=> status = "suspended"
    /\ error # "none" <=> status = "error"
    /\ status = "done" => stack = <<>>

(* Every frame holds what deliver_value will take from it without a check: *)
(* an expression for do-rest, a pair for let and loop bindings.  No        *)
(* val_list_get of step.c runs past the end of a list (val.c:533-537).     *)
FrameReady(f) ==
    /\ f.op = "do-rest" => f.rest # <<>>
    /\ f.op \in {"let-binds", "loop-binds", "loop-target"} =>
        Len(f.rest) >= 2 /\ Len(f.rest) % 2 = 0
    /\ f.op = "loop-binds" => Len(f.orig) >= 2 /\ Len(f.orig) % 2 = 0

FramesReady == \A i \in DOMAIN stack : FrameReady(stack[i])

(* Wherever evaluation goes, through closures, loops and leaked scopes,    *)
(* the scope step_init was given stays the outermost one: the builtins and *)
(* effects of the program never go out of reach.                           *)
EndsInGlobal(r) == Len(r) > 0 /\ r[Len(r)] = Global

GlobalStays ==
    /\ EndsInGlobal(env)
    /\ \A i \in DOMAIN stack :
        stack[i].op \in {"let-binds", "loop-binds", "loop-target"} =>
            EndsInGlobal(stack[i].env)
    /\ expr.type = "closure" => EndsInGlobal(expr.env)
    /\ \A i \in DOMAIN env, y \in Name :
        env[i][y] # NULL /\ env[i][y].type = "closure" => EndsInGlobal(env[i][y].env)

(* Inside one step(), deliver_value calls itself only with a shorter stack *)
(* (step.c:347, 598): its recursion is bounded by the stack.               *)
DeliverPops ==
    [][ctl = "deliver" /\ ctl' = "deliver" => Len(stack') < Len(stack)]_vars

(* Every step() call returns. *)
StepReturns == ctl = "deliver" ~> ctl = "step"

(* "step takes a state and returns either a new state (a VAL_MAP) or a     *)
(* VAL_ERROR" (step.md:14): it does not end the process.                   *)
NeverAborts == status # "aborted"
=============================================================================
